-------------------------- MODULE ProcessorProofs --------------------------
(***************************************************************************)
(* Proofs about Processor.tla, its ring buffers and Capture.tla, for any   *)
(* names, rules, buffer capacity and lines.  The entries E and the         *)
(* rendered contexts C met so far are parameters of the types; what a      *)
(* context says is added at the end.                                       *)
(***************************************************************************)
EXTENDS Processor, SequenceTheorems, FiniteSetTheorems, WellFoundedInduction, TLAPS

AlertRecord(E, C) ==
  [key : Keys, rule : Rules, trigger : E, before : Seq(E), after : Seq(E),
   finished : BOOLEAN, discard : BOOLEAN, pc : {"wait", "lock", "done"}, sent : Nat,
   context : C, at : Nat, base : Nat]

Buffer(E) ==
  [entries : [0 .. Capacity - 1 -> E], start : 0 .. Capacity - 1, length : 0 .. Capacity]

Least(m, n) == IF m < n THEN m ELSE n

(* The slots of a ring, from the oldest, are the last kept lines.          *)
Ring(b, all, from) ==
  /\ b.length = Least(Len(all) - from, Capacity)
  /\ \A j \in 1 .. b.length :
       b.entries[(b.start + j - 1) % Capacity] = all[Len(all) - b.length + j]

-----------------------------------------------------------------------------
(* The ring buffer                                                         *)

LEMMA Below == ASSUME NEW i \in Int, 0 <= i, i < Capacity PROVE i % Capacity = i
BY CapacityAssumption

LEMMA Wrapped ==
  ASSUME NEW i \in Int, Capacity <= i, i < 2 * Capacity PROVE i % Capacity = i - Capacity
BY CapacityAssumption

LEMMA Slot ==
  ASSUME NEW i \in Int, 0 <= i, i < 2 * Capacity
  PROVE  /\ i % Capacity = IF i < Capacity THEN i ELSE i - Capacity
         /\ i % Capacity \in 0 .. Capacity - 1
BY Below, Wrapped, CapacityAssumption

\* One place further in a full ring: the oldest slot comes last, the others move up.
LEMMA TurnFull ==
  ASSUME NEW st \in 0 .. Capacity - 1, NEW j \in 1 .. Capacity
  PROVE  LET p == (((st + 1) % Capacity) + j - 1) % Capacity
         IN  /\ p \in 0 .. Capacity - 1
             /\ j = Capacity => p = st
             /\ j < Capacity => p # st /\ p = (st + (j + 1) - 1) % Capacity
<1> DEFINE n == (st + 1) % Capacity
<1>0. Capacity \in Nat /\ 0 < Capacity
  BY CapacityAssumption
<1>1. n = (IF st + 1 < Capacity THEN st + 1 ELSE st + 1 - Capacity) /\ n \in 0 .. Capacity - 1
  BY <1>0, Slot
<1> HIDE DEF n
<1>2. n + j - 1 \in Int /\ 0 <= n + j - 1 /\ n + j - 1 < 2 * Capacity
  BY <1>0, <1>1
<1>3. /\ (n + j - 1) % Capacity =
           (IF n + j - 1 < Capacity THEN n + j - 1 ELSE (n + j - 1) - Capacity)
      /\ (n + j - 1) % Capacity \in 0 .. Capacity - 1
  BY <1>2, Slot, Zenon
<1>4. ASSUME j < Capacity
      PROVE  (st + (j + 1) - 1) % Capacity =
               IF st + j < Capacity THEN st + j ELSE (st + j) - Capacity
  <2>1. st + (j + 1) - 1 = st + j /\ st + j \in Int /\ 0 <= st + j /\ st + j < 2 * Capacity
    BY <1>0, <1>4
  <2> QED
    BY <2>1, Slot, Zenon
<1>5. (n + j - 1) % Capacity = IF st + j < Capacity THEN st + j ELSE (st + j) - Capacity
  BY <1>0, <1>1, <1>3
<1>6. j = Capacity => (n + j - 1) % Capacity = st
  BY <1>0, <1>5
<1>7. j < Capacity => (n + j - 1) % Capacity # st
  BY <1>0, <1>5
<1> QED
  BY <1>3, <1>4, <1>5, <1>6, <1>7 DEF n

\* The free slot after len used ones is none of them.
LEMMA TurnFree ==
  ASSUME NEW st \in 0 .. Capacity - 1, NEW len \in 0 .. Capacity - 1
  PROVE  /\ (st + len) % Capacity \in 0 .. Capacity - 1
         /\ \A j \in 1 .. len : /\ (st + j - 1) % Capacity \in 0 .. Capacity - 1
                                /\ (st + j - 1) % Capacity # (st + len) % Capacity
<1>0. Capacity \in Nat /\ 0 < Capacity
  BY CapacityAssumption
<1>1. /\ (st + len) % Capacity = (IF st + len < Capacity THEN st + len ELSE (st + len) - Capacity)
      /\ (st + len) % Capacity \in 0 .. Capacity - 1
  <2>1. st + len \in Int /\ 0 <= st + len /\ st + len < 2 * Capacity
    BY <1>0
  <2> QED
    BY <2>1, Slot, Zenon
<1>2. ASSUME NEW j \in 1 .. len
      PROVE  /\ (st + j - 1) % Capacity =
                  (IF st + j - 1 < Capacity THEN st + j - 1 ELSE (st + j - 1) - Capacity)
             /\ (st + j - 1) % Capacity \in 0 .. Capacity - 1
  <2>1. st + j - 1 \in Int /\ 0 <= st + j - 1 /\ st + j - 1 < 2 * Capacity
    BY <1>0
  <2> QED
    BY <2>1, Slot, Zenon
<1>3. ASSUME NEW j \in 1 .. len
      PROVE  (st + j - 1) % Capacity # (st + len) % Capacity
  BY <1>0, <1>1, <1>2
<1> QED
  BY <1>1, <1>2, <1>3, Zenon

\* Counting k slots back from the end, and then i forward.
LEMMA TurnLast ==
  ASSUME NEW st \in 0 .. Capacity - 1, NEW len \in 0 .. Capacity, NEW k \in 0 .. len,
         NEW i \in 1 .. k
  PROVE  LET p == (((st + len - k) % Capacity) + i - 1) % Capacity
         IN  p \in 0 .. Capacity - 1 /\ p = (st + (len - k + i) - 1) % Capacity
<1> DEFINE f == (st + len - k) % Capacity
           x == st + len - k
<1>0. Capacity \in Nat /\ 0 < Capacity
  BY CapacityAssumption
<1>1. x \in Int /\ 0 <= x /\ x < 2 * Capacity /\ x + i - 1 < 2 * Capacity
  BY <1>0
<1>2. st + (len - k + i) - 1 = x + i - 1 /\ x + i - 1 \in Int /\ 0 <= x + i - 1
  BY <1>0
<1>x. f = x % Capacity
  OBVIOUS
<1> HIDE DEF f, x
<1>3. f = (IF x < Capacity THEN x ELSE x - Capacity) /\ f \in 0 .. Capacity - 1
  BY <1>1, <1>x, Slot
<1>4. (x + i - 1) % Capacity =
        IF x + i - 1 < Capacity THEN x + i - 1 ELSE (x + i - 1) - Capacity
  BY <1>1, <1>2, Slot, Zenon
<1>5. f + i - 1 \in Int /\ 0 <= f + i - 1 /\ f + i - 1 < 2 * Capacity
  BY <1>0, <1>1, <1>3
<1>6. /\ (f + i - 1) % Capacity =
           (IF f + i - 1 < Capacity THEN f + i - 1 ELSE (f + i - 1) - Capacity)
      /\ (f + i - 1) % Capacity \in 0 .. Capacity - 1
  BY <1>5, Slot, Zenon
<1>7. (f + i - 1) % Capacity = (x + i - 1) % Capacity
  BY <1>0, <1>1, <1>3, <1>4, <1>6
<1> QED
  BY <1>2, <1>6, <1>7 DEF f

LEMMA BufferFields ==
  ASSUME NEW E, NEW b \in Buffer(E)
  PROVE  /\ b.entries \in [0 .. Capacity - 1 -> E]
         /\ b.start \in 0 .. Capacity - 1 /\ b.length \in 0 .. Capacity
BY DEF Buffer

\* A line of the log takes the place after the latest one, and the oldest one's when
\* the ring is full.
LEMMA RingAppend ==
  ASSUME NEW E, NEW b \in Buffer(E), NEW all \in Seq(E), NEW from \in Nat,
         from <= Len(all), Ring(b, all, from), NEW entry \in E
  PROVE  /\ BufferAppend(b, entry) \in Buffer(E)
         /\ Ring(BufferAppend(b, entry), Append(all, entry), from)
<1> DEFINE c == BufferAppend(b, entry)
           more == Append(all, entry)
<1>1. /\ more \in Seq(E) /\ Len(more) = Len(all) + 1 /\ more[Len(all) + 1] = entry
      /\ Len(all) \in Nat
      /\ \A i \in 1 .. Len(all) : more[i] = all[i]
  OBVIOUS
<1>0. /\ b.entries \in [0 .. Capacity - 1 -> E] /\ Capacity \in Nat /\ 0 < Capacity
      /\ b.start \in 0 .. Capacity - 1 /\ b.length \in 0 .. Capacity
  BY BufferFields, CapacityAssumption
<1>n. /\ b.length = Least(Len(all) - from, Capacity) /\ Len(all) \in Nat
      /\ Len(more) = Len(all) + 1 /\ Capacity \in Nat /\ 0 < Capacity
  BY <1>0, <1>1 DEF Ring
<1>s. \A j \in 1 .. b.length :
        b.entries[(b.start + j - 1) % Capacity] = all[Len(all) - b.length + j]
  BY DEF Ring
<1>2. CASE b.length = Capacity
  <2> DEFINE next == (b.start + 1) % Capacity
             slots == [b.entries EXCEPT ![b.start] = entry]
  <2>1. next \in 0 .. Capacity - 1
    BY <1>0, Slot
  <2>2. /\ slots \in [0 .. Capacity - 1 -> E] /\ slots[b.start] = entry
        /\ \A p \in 0 .. Capacity - 1 : p # b.start => slots[p] = b.entries[p]
    BY <1>0
  <2>3. c = [b EXCEPT !.entries = slots, !.start = next]
    BY <1>2 DEF BufferAppend, Buffer
  <2>4. c \in Buffer(E)
    BY <2>1, <2>2, <2>3, Zenon DEF Buffer
  <2>5. c.entries = slots /\ c.start = next /\ c.length = Capacity
    BY <1>2, <2>3 DEF Buffer
  <2> HIDE DEF c, more, slots
  <2>6. c.length = Least(Len(more) - from, Capacity) /\ Capacity <= Len(all) - from
    BY <1>n, <1>2, <2>5 DEF Least
  <2>7. ASSUME NEW j \in 1 .. Capacity
        PROVE  slots[(next + j - 1) % Capacity] = more[Len(more) - Capacity + j]
    <3> DEFINE p == (next + j - 1) % Capacity
    <3>1. /\ p \in 0 .. Capacity - 1
          /\ j = Capacity => p = b.start
          /\ j < Capacity => p # b.start /\ p = (b.start + (j + 1) - 1) % Capacity
      BY <1>0, TurnFull, Zenon
    <3> HIDE DEF p
    <3>2. CASE j = Capacity
      <4>1. Len(more) - Capacity + j = Len(all) + 1
        BY <1>0, <1>1, <3>2
      <4> QED
        BY <1>1, <2>2, <3>1, <3>2, <4>1, Zenon DEF p
    <3>3. CASE j < Capacity
      <4>1. j + 1 \in 1 .. b.length
        BY <1>0, <1>2, <3>3
      <4>2. b.entries[p] = all[Len(all) - Capacity + (j + 1)]
        BY <1>2, <1>s, <3>1, <3>3, <4>1, Zenon
      <4>3. /\ Len(all) - Capacity + (j + 1) \in 1 .. Len(all)
            /\ Len(all) - Capacity + (j + 1) = Len(more) - Capacity + j
        BY <1>0, <1>1, <2>6, <3>3
      <4>4. slots[p] = b.entries[p]
        BY <2>2, <3>1, <3>3, Zenon
      <4>5. slots[p] = more[Len(more) - Capacity + j]
        BY <1>1, <4>2, <4>3, <4>4, Zenon
      <4> QED
        BY <4>5 DEF p
    <3> QED
      BY <1>0, <3>2, <3>3
  <2>8. Ring(c, more, from)
    BY <2>5, <2>6, <2>7, Zenon DEF Ring
  <2> QED
    BY <2>4, <2>8 DEF c, more
<1>3. CASE b.length # Capacity
  <2> DEFINE free == (b.start + b.length) % Capacity
             slots == [b.entries EXCEPT ![free] = entry]
  <2>0. b.length \in 0 .. Capacity - 1
    BY <1>0, <1>3
  <2>1. /\ free \in 0 .. Capacity - 1
        /\ \A j \in 1 .. b.length : /\ (b.start + j - 1) % Capacity \in 0 .. Capacity - 1
                                    /\ (b.start + j - 1) % Capacity # free
    BY <1>0, <2>0, TurnFree, Zenon
  <2> HIDE DEF free
  <2>2. /\ slots \in [0 .. Capacity - 1 -> E] /\ slots[free] = entry
        /\ \A p \in 0 .. Capacity - 1 : p # free => slots[p] = b.entries[p]
        /\ b.length + 1 \in 0 .. Capacity
    BY <1>0, <2>0, <2>1
  <2>3. c = [b EXCEPT !.entries = slots, !.length = b.length + 1]
    BY <1>3 DEF BufferAppend, Buffer, free
  <2>4. c \in Buffer(E)
    BY <2>2, <2>3, Zenon DEF Buffer
  <2>5. c.entries = slots /\ c.start = b.start /\ c.length = b.length + 1
    BY <2>3 DEF Buffer
  <2>6. c.length = Least(Len(more) - from, Capacity) /\ b.length = Len(all) - from
    BY <1>n, <1>3, <2>5 DEF Least
  <2> HIDE DEF c, more, slots
  <2>7. ASSUME NEW j \in 1 .. b.length + 1
        PROVE  slots[(b.start + j - 1) % Capacity] = more[Len(more) - (b.length + 1) + j]
    <3>2. CASE j = b.length + 1
      <4>1. b.start + j - 1 = b.start + b.length /\ Len(more) - (b.length + 1) + j = Len(all) + 1
        BY <1>n, <2>0, <3>2, <1>0, SMTT(30)
      <4> QED
        BY <1>1, <2>2, <4>1, Zenon DEF free
    <3>3. CASE j # b.length + 1
      <4>1. j \in 1 .. b.length
        BY <2>0, <3>3
      <4>2. slots[(b.start + j - 1) % Capacity] = b.entries[(b.start + j - 1) % Capacity]
        BY <2>1, <2>2, <4>1, Zenon
      <4>3. b.entries[(b.start + j - 1) % Capacity] = all[Len(all) - b.length + j]
        BY <1>s, <4>1, Zenon
      <4>4. /\ Len(all) - b.length + j \in 1 .. Len(all)
            /\ Len(all) - b.length + j = Len(more) - (b.length + 1) + j
        BY <1>0, <1>1, <2>0, <2>6, <4>1
      <4> QED
        BY <1>1, <4>2, <4>3, <4>4, Zenon
    <3> QED
      BY <3>2, <3>3
  <2>8. Ring(c, more, from)
    BY <2>5, <2>6, <2>7, Zenon DEF Ring
  <2> QED
    BY <2>4, <2>8 DEF c, more
<1> QED
  BY <1>2, <1>3

(* The k latest of some lines, oldest first.                               *)
Latest(last, k, all, E) ==
  /\ last \in Seq(E) /\ Len(last) = k /\ k \in Nat
  /\ \A i \in 1 .. k : last[i] = all[Len(all) - k + i]

\* Last answers with the latest kept lines, oldest first.
LEMMA RingLast ==
  ASSUME NEW E, NEW b \in Buffer(E), NEW all \in Seq(E), NEW from \in Nat,
         Ring(b, all, from), NEW limit \in Nat
  PROVE  Latest(BufferLast(b, limit), Least(limit, b.length), all, E)
<1> DEFINE k == IF limit > b.length THEN b.length ELSE limit
           first == (b.start + b.length - k) % Capacity
<1>0. /\ b.entries \in [0 .. Capacity - 1 -> E] /\ Capacity \in Nat /\ Len(all) \in Nat
      /\ b.start \in 0 .. Capacity - 1 /\ b.length \in 0 .. Capacity
  BY BufferFields, CapacityAssumption
<1>1. k \in Nat /\ k \in 0 .. b.length /\ k = Least(limit, b.length)
  BY <1>0 DEF Least
<1>2. BufferLast(b, limit) = [i \in 1 .. k |-> b.entries[(first + i - 1) % Capacity]]
  BY DEF BufferLast
<1> HIDE DEF k
<1>4. ASSUME NEW i \in 1 .. k
      PROVE  /\ b.entries[(first + i - 1) % Capacity] = all[Len(all) - k + i]
             /\ b.entries[(first + i - 1) % Capacity] \in E
  <2>1. /\ (first + i - 1) % Capacity \in 0 .. Capacity - 1
        /\ (first + i - 1) % Capacity = (b.start + (b.length - k + i) - 1) % Capacity
    BY <1>0, <1>1, TurnLast, Zenon
  <2>2. /\ b.length - k + i \in 1 .. b.length
        /\ Len(all) - b.length + (b.length - k + i) = Len(all) - k + i
    BY <1>0, <1>1, SMTT(30)
  <2> HIDE DEF first
  <2>3. b.entries[(b.start + (b.length - k + i) - 1) % Capacity] =
          all[Len(all) - b.length + (b.length - k + i)]
    BY <2>2, Zenon DEF Ring
  <2>4. b.entries[(first + i - 1) % Capacity] = all[Len(all) - k + i]
    BY <2>1, <2>2, <2>3, Zenon
  <2>5. b.entries[(first + i - 1) % Capacity] \in E
    BY <1>0, <2>1, Zenon
  <2> QED
    BY <2>4, <2>5
<1>5. BufferLast(b, limit) \in [1 .. k -> E]
  BY <1>2, <1>4, Zenon
<1>6. BufferLast(b, limit) \in Seq(E) /\ Len(BufferLast(b, limit)) = k
  BY <1>1, <1>5
<1>7. \A i \in 1 .. k : BufferLast(b, limit)[i] = all[Len(all) - k + i]
  BY <1>2, <1>4, Zenon
<1> QED
  BY <1>1, <1>6, <1>7, Zenon DEF Latest

-----------------------------------------------------------------------------
(* The invariant                                                           *)

(* An alert's context is the run of kept lines around its trigger, and     *)
(* while it still collects, all of those after it.                         *)
Window(al, all) ==
  /\ al.base <= al.at /\ al.at + 1 + Len(al.after) <= Len(all)
  /\ al.trigger = all[al.at + 1]
  /\ Len(al.before) = Least(al.at - al.base, Least(Before[al.rule], Capacity))
  /\ \A i \in 1 .. Len(al.before) : al.before[i] = all[al.at - Len(al.before) + i]
  /\ Len(al.after) <= After[al.rule]
  /\ \A i \in 1 .. Len(al.after) : al.after[i] = all[al.at + 1 + i]
  /\ ~al.finished => /\ Len(al.after) < After[al.rule]
                     /\ al.at + 1 + Len(al.after) = Len(all)

(* Only a finished alert is taken, discarded or done, and one is sent when *)
(* it is done and was not discarded.                                       *)
Sane(al) ==
  /\ al.sent = IF al.pc = "done" /\ ~al.discard THEN 1 ELSE 0
  /\ al.pc # "wait" \/ al.discard => al.finished

Waits(al, k) == al.key = k /\ al.pc # "done" /\ ~al.discard

Types(E, C) ==
  /\ NoEntry \in E /\ <<>> \in C
  /\ alerts \in Seq(AlertRecord(E, C))
  /\ pending \in [Keys -> SUBSET (1 .. Len(alerts))]
  /\ lines \in [Keys -> Seq(E)]
  /\ since \in [Keys -> Nat] /\ \A k \in Keys : since[k] <= Len(lines[k])
  /\ context \in [Keys -> Buffer(E)]
  /\ ids \in [Keys -> 1 .. MaxIDs]

Rings == \A k \in Keys : Ring(context[k], lines[k], since[k])

AlertsInv ==
  \A a \in 1 .. Len(alerts) :
    /\ Window(alerts[a], lines[alerts[a].key])
    /\ Sane(alerts[a])
    /\ \A k \in Keys : a \in pending[k] <=> Waits(alerts[a], k)

Closing ==
  /\ closed \in BOOLEAN /\ closer \in {"open", "waiting", "returned"}
  /\ closer # "open" => closed
  /\ closer = "returned" => \A a \in 1 .. Len(alerts) : alerts[a].pc = "done"

PInv(E, C) == Types(E, C) /\ Rings /\ AlertsInv /\ Closing

-----------------------------------------------------------------------------
LEMMA AlertFields ==
  ASSUME NEW E, NEW C, NEW al \in AlertRecord(E, C)
  PROVE  /\ al.key \in Keys /\ al.rule \in Rules /\ al.trigger \in E
         /\ al.before \in Seq(E) /\ al.after \in Seq(E)
         /\ al.finished \in BOOLEAN /\ al.discard \in BOOLEAN
         /\ al.pc \in {"wait", "lock", "done"} /\ al.sent \in Nat /\ al.context \in C
         /\ al.at \in Nat /\ al.base \in Nat
BY DEF AlertRecord

LEMMA RuleNumbers ==
  ASSUME NEW r \in Rules
  PROVE  Before[r] \in Nat /\ After[r] \in Nat /\ MaxBytes[r] \in Nat \ {0}
BY RulesAssumption DEF Rules

LEMMA EmptyBuffer ==
  ASSUME NEW E, NoEntry \in E, NEW all \in Seq(E)
  PROVE  NewBuffer \in Buffer(E) /\ Ring(NewBuffer, all, Len(all))
<1>1. NewBuffer \in Buffer(E)
  BY CapacityAssumption DEF NewBuffer, Buffer
<1>2. NewBuffer.length = 0 /\ Len(all) \in Nat /\ Capacity \in Nat /\ 0 < Capacity
  BY CapacityAssumption DEF NewBuffer
<1>3. Least(Len(all) - Len(all), Capacity) = 0 /\ 1 .. NewBuffer.length = {}
  BY <1>2 DEF Least
<1> QED
  BY <1>1, <1>2, <1>3 DEF Ring

LEMMA PInvInit == Init => PInv({NoEntry}, {<<>>})
<1> SUFFICES ASSUME Init PROVE PInv({NoEntry}, {<<>>})
  OBVIOUS
<1> DEFINE E == {NoEntry}
<1>1. alerts = <<>> /\ alerts \in Seq(AlertRecord(E, {<<>>})) /\ Len(alerts) = 0
  BY DEF Init
<1>2. <<>> \in Seq(E) /\ Len(<<>>) = 0 /\ lines \in [Keys -> Seq(E)]
  BY DEF Init
<1>3. NewBuffer \in Buffer(E) /\ Ring(NewBuffer, <<>>, 0)
  BY <1>2, EmptyBuffer, Zenon
<1>4. context \in [Keys -> Buffer(E)]
  BY <1>3 DEF Init
<1>5. Types(E, {<<>>})
  <2>1. pending \in [Keys -> SUBSET (1 .. Len(alerts))]
    BY DEF Init
  <2>2. since \in [Keys -> Nat] /\ \A k \in Keys : since[k] <= Len(lines[k])
    BY <1>2 DEF Init
  <2>3. ids \in [Keys -> 1 .. MaxIDs]
    BY BoundsAssumption DEF Init
  <2> QED
    BY <1>1, <1>2, <1>4, <2>1, <2>2, <2>3, Zenon DEF Types
<1>6. Rings
  BY <1>3 DEF Init, Rings
<1>7. AlertsInv
  BY <1>1 DEF AlertsInv
<1>8. Closing
  BY <1>1, Zenon DEF Init, Closing
<1> QED
  BY <1>5, <1>6, <1>7, <1>8 DEF PInv

-----------------------------------------------------------------------------
(* Steps that leave the lines of the alerts alone                          *)

Kept(r, al) ==
  /\ r.key = al.key /\ r.rule = al.rule /\ r.trigger = al.trigger
  /\ r.before = al.before /\ r.after = al.after /\ r.at = al.at /\ r.base = al.base
  /\ al.finished => r.finished

LEMMA WindowKept ==
  ASSUME NEW al, NEW r, NEW all, Window(al, all), Kept(r, al)
  PROVE  Window(r, all)
BY ZenonT(30) DEF Window, Kept

LEMMA WiderRecord ==
  ASSUME NEW E, NEW C, NEW F, NEW D, E \subseteq F, C \subseteq D
  PROVE  /\ Seq(E) \subseteq Seq(F) /\ Buffer(E) \subseteq Buffer(F)
         /\ AlertRecord(E, C) \subseteq AlertRecord(F, D)
<1>1. Seq(E) \subseteq Seq(F)
  OBVIOUS
<1>2. Buffer(E) \subseteq Buffer(F)
  BY DEF Buffer
<1>3. AlertRecord(E, C) \subseteq AlertRecord(F, D)
  BY <1>1 DEF AlertRecord
<1> QED
  BY <1>1, <1>2, <1>3

LEMMA FunctionSequence ==
  ASSUME NEW S, NEW n \in Nat, NEW f \in [1 .. n -> S]
  PROVE  f \in Seq(S) /\ Len(f) = n
OBVIOUS

LEMMA AlertTyped ==
  ASSUME NEW E, NEW C, PInv(E, C), NEW a \in 1 .. Len(alerts)
  PROVE  /\ alerts[a] \in AlertRecord(E, C) /\ Sane(alerts[a])
         /\ Window(alerts[a], lines[alerts[a].key])
         /\ \A k \in Keys : a \in pending[k] <=> Waits(alerts[a], k)
BY DEF PInv, Types, AlertsInv

Carried(a) ==
  /\ Kept(alerts'[a], alerts[a]) /\ Sane(alerts'[a])
  /\ alerts[a].pc = "done" => alerts'[a].pc = "done"
  /\ \A k \in Keys : a \in pending'[k] <=> Waits(alerts'[a], k)

\* Every alert is mapped to one that keeps its context, while no line is added.
LEMMA AlertsMapped ==
  ASSUME NEW E, NEW C, NEW D, PInv(E, C), C \subseteq D,
         alerts' \in Seq(AlertRecord(E, D)), Len(alerts') = Len(alerts),
         \A a \in 1 .. Len(alerts) : Carried(a),
         pending' \in [Keys -> SUBSET (1 .. Len(alerts))],
         lines' = lines, ids' \in [Keys -> 1 .. MaxIDs],
         since' \in [Keys -> Nat], \A k \in Keys : since'[k] <= Len(lines[k]),
         context' \in [Keys -> Buffer(E)],
         \A k \in Keys : Ring(context'[k], lines[k], since'[k]),
         closed' \in BOOLEAN, closed => closed',
         \/ closer' = closer
         \/ closer' \in {"waiting", "returned"} /\ closed',
         closer' = "returned" =>
           closer = "returned" \/ \A a \in 1 .. Len(alerts) : alerts[a].pc = "done"
  PROVE  PInv(E, D)'
<1>1. Types(E, D)'
  BY Zenon DEF PInv, Types
<1>2. Rings'
  BY DEF Rings
<1>3. AlertsInv'
  <2> SUFFICES ASSUME NEW a \in 1 .. Len(alerts)
               PROVE  Window(alerts'[a], lines[alerts'[a].key])
    BY Zenon DEF AlertsInv, Carried
  <2>1. Window(alerts[a], lines[alerts[a].key]) /\ Kept(alerts'[a], alerts[a])
    BY AlertTyped, Zenon DEF Carried
  <2>2. alerts'[a].key = alerts[a].key
    BY <2>1 DEF Kept
  <2> QED
    BY <2>1, <2>2, WindowKept
<1>4. Closing'
  <2>1. closer' = "returned" => \A a \in 1 .. Len(alerts) : alerts[a].pc = "done"
    BY Zenon DEF PInv, Closing
  <2>2. closer' = "returned" => \A a \in 1 .. Len(alerts') : alerts'[a].pc = "done"
    BY <2>1, Zenon DEF Carried
  <2>3. closer' \in {"open", "waiting", "returned"} /\ (closer' # "open" => closed')
    BY Zenon DEF PInv, Closing
  <2> QED
    BY <2>2, <2>3, Zenon DEF Closing
<1> QED
  BY <1>1, <1>2, <1>3, <1>4 DEF PInv

LEMMA Steady ==
  ASSUME NEW E, NEW C, PInv(E, C)
  PROVE  /\ alerts \in Seq(AlertRecord(E, C)) /\ Len(alerts) \in Nat
         /\ pending \in [Keys -> SUBSET (1 .. Len(alerts))]
         /\ ids \in [Keys -> 1 .. MaxIDs] /\ since \in [Keys -> Nat]
         /\ \A k \in Keys : since[k] <= Len(lines[k])
         /\ lines \in [Keys -> Seq(E)] /\ context \in [Keys -> Buffer(E)]
         /\ \A k \in Keys : Ring(context[k], lines[k], since[k])
         /\ closed \in BOOLEAN /\ NoEntry \in E /\ <<>> \in C
<1>1. alerts \in Seq(AlertRecord(E, C)) /\ Len(alerts) \in Nat
  BY DEF PInv, Types
<1> QED
  BY <1>1, Zenon DEF PInv, Types, Rings, Closing

\* One alert moves.
LEMMA AlertMoves ==
  ASSUME NEW E, NEW C, NEW D, PInv(E, C), C \subseteq D,
         NEW a \in 1 .. Len(alerts), NEW r \in AlertRecord(E, D),
         alerts' = [alerts EXCEPT ![a] = r],
         Kept(r, alerts[a]), Sane(r), alerts[a].pc # "done",
         pending' \in [Keys -> SUBSET (1 .. Len(alerts))],
         \A k \in Keys : /\ a \in pending'[k] <=> Waits(r, k)
                         /\ \A b \in 1 .. Len(alerts) :
                              b # a => (b \in pending'[k] <=> b \in pending[k]),
         UNCHANGED <<context, closed, closer, ids, lines, since>>
  PROVE  PInv(E, D)'
<1>1. alerts \in Seq(AlertRecord(E, D)) /\ Len(alerts) \in Nat
  <2>1. AlertRecord(E, C) \subseteq AlertRecord(E, D)
    BY WiderRecord, Zenon
  <2>2. Seq(AlertRecord(E, C)) \subseteq Seq(AlertRecord(E, D))
    BY <2>1
  <2> QED
    BY <2>2, Steady, Zenon
<1>2. /\ alerts' \in Seq(AlertRecord(E, D)) /\ Len(alerts') = Len(alerts)
      /\ alerts'[a] = r /\ \A b \in 1 .. Len(alerts) : b # a => alerts'[b] = alerts[b]
  BY <1>1
<1>3. ASSUME NEW b \in 1 .. Len(alerts) PROVE Carried(b)
  <2>1. CASE b = a
    BY <1>2, <2>1 DEF Carried
  <2>2. CASE b # a
    <3>1. alerts'[b] = alerts[b]
      BY <1>2, <2>2, Zenon
    <3>2. Sane(alerts[b]) /\ \A k \in Keys : b \in pending[k] <=> Waits(alerts[b], k)
      BY AlertTyped, Zenon
    <3>3. Kept(alerts[b], alerts[b])
      BY Zenon DEF Kept
    <3>4. \A k \in Keys : b \in pending'[k] <=> Waits(alerts[b], k)
      BY <2>2, <3>2, Zenon
    <3> QED
      BY <3>1, <3>2, <3>3, <3>4, Zenon DEF Carried
  <2> QED
    BY <2>1, <2>2
<1>4. /\ lines' = lines /\ ids' \in [Keys -> 1 .. MaxIDs] /\ since' \in [Keys -> Nat]
      /\ \A k \in Keys : since'[k] <= Len(lines[k])
      /\ context' \in [Keys -> Buffer(E)]
      /\ \A k \in Keys : Ring(context'[k], lines[k], since'[k])
      /\ closed' \in BOOLEAN /\ (closed => closed') /\ closer' = closer
  BY Steady, Zenon
<1> QED
  BY <1>2, <1>3, <1>4, AlertsMapped, Zenon

LEMMA TimerFiresPInv ==
  ASSUME NEW E, NEW C, PInv(E, C), NEW a \in 1 .. Len(alerts), TimerFires(a)
  PROVE  PInv(E, C)'
<1> DEFINE r == finish(alerts[a])
<1>1. alerts[a] \in AlertRecord(E, C) /\ Sane(alerts[a])
      /\ \A k \in Keys : a \in pending[k] <=> Waits(alerts[a], k)
  BY AlertTyped
<1>2. r \in AlertRecord(E, C)
  BY <1>1, Zenon DEF finish, AlertRecord
<1>3. /\ r.key = alerts[a].key /\ r.rule = alerts[a].rule /\ r.trigger = alerts[a].trigger
      /\ r.before = alerts[a].before /\ r.after = alerts[a].after /\ r.at = alerts[a].at
      /\ r.base = alerts[a].base /\ r.finished = TRUE /\ r.discard = alerts[a].discard
      /\ r.pc = alerts[a].pc /\ r.sent = alerts[a].sent
  BY <1>1, Zenon DEF finish, AlertRecord
<1>4. alerts[a].pc # "done" /\ alerts' = [alerts EXCEPT ![a] = r]
      /\ UNCHANGED <<pending, context, closed, closer, ids, lines, since>>
  BY <1>1, Steady DEF TimerFires, Sane
<1> HIDE DEF r
<1>5. Kept(r, alerts[a]) /\ Sane(r) /\ \A k \in Keys : Waits(r, k) <=> Waits(alerts[a], k)
  BY <1>1, <1>3, Zenon DEF Kept, Sane, Waits
<1>6. pending' \in [Keys -> SUBSET (1 .. Len(alerts))] /\ pending' = pending
  BY <1>4, Steady, Zenon
<1> QED
  BY <1>1, <1>2, <1>4, <1>5, <1>6, AlertMoves, Zenon

LEMMA TakeCapturePInv ==
  ASSUME NEW E, NEW C, PInv(E, C), NEW a \in 1 .. Len(alerts), TakeCapture(a)
  PROVE  PInv(E, C)'
<1> DEFINE r == [alerts[a] EXCEPT !.pc = "lock"]
<1>1. alerts[a] \in AlertRecord(E, C) /\ Sane(alerts[a])
      /\ \A k \in Keys : a \in pending[k] <=> Waits(alerts[a], k)
  BY AlertTyped
<1>2. r \in AlertRecord(E, C)
  BY <1>1, Zenon DEF AlertRecord
<1>3. /\ r.key = alerts[a].key /\ r.rule = alerts[a].rule /\ r.trigger = alerts[a].trigger
      /\ r.before = alerts[a].before /\ r.after = alerts[a].after /\ r.at = alerts[a].at
      /\ r.base = alerts[a].base /\ r.finished = alerts[a].finished
      /\ r.discard = alerts[a].discard /\ r.pc = "lock" /\ r.sent = alerts[a].sent
  BY <1>1, Zenon DEF AlertRecord
<1>4. /\ alerts[a].pc = "wait" /\ alerts[a].finished
      /\ alerts' = [alerts EXCEPT ![a] = r]
      /\ UNCHANGED <<pending, context, closed, closer, ids, lines, since>>
  BY Steady, Zenon DEF TakeCapture
<1> HIDE DEF r
<1>5. Kept(r, alerts[a]) /\ Sane(r) /\ \A k \in Keys : Waits(r, k) <=> Waits(alerts[a], k)
  BY <1>1, <1>3, <1>4 DEF Kept, Sane, Waits
<1>6. pending' \in [Keys -> SUBSET (1 .. Len(alerts))] /\ pending' = pending
  BY <1>4, Steady, Zenon
<1>7. alerts[a].pc # "done"
  BY <1>4
<1> QED
  BY <1>1, <1>2, <1>4, <1>5, <1>6, <1>7, AlertMoves, Zenon

LEMMA AwaitContextPInv ==
  ASSUME NEW E, NEW C, PInv(E, C), NEW a \in 1 .. Len(alerts), AwaitContext(a),
         NEW D, D = C \cup {Rendered(alerts[a])}
  PROVE  PInv(E, D)'
<1>1. alerts[a] \in AlertRecord(E, C) /\ Sane(alerts[a])
      /\ \A k \in Keys : a \in pending[k] <=> Waits(alerts[a], k)
  BY AlertTyped
<1>2. alerts[a] \in AlertRecord(E, D) /\ alerts[a].pc = "lock" /\ alerts[a].finished
      /\ UNCHANGED <<context, closed, closer, ids, lines, since>>
  BY <1>1, WiderRecord DEF AwaitContext, Sane
<1>3. CASE alerts[a].discard
  <2> DEFINE r == [alerts[a] EXCEPT !.pc = "done"]
  <2>1. r \in AlertRecord(E, D)
    BY <1>2, Zenon DEF AlertRecord
  <2>2. /\ r.key = alerts[a].key /\ r.rule = alerts[a].rule /\ r.trigger = alerts[a].trigger
        /\ r.before = alerts[a].before /\ r.after = alerts[a].after /\ r.at = alerts[a].at
        /\ r.base = alerts[a].base /\ r.finished = alerts[a].finished
        /\ r.discard = alerts[a].discard /\ r.pc = "done" /\ r.sent = alerts[a].sent
    BY <1>2, Zenon DEF AlertRecord
  <2>3. alerts' = [alerts EXCEPT ![a] = r] /\ pending' = pending
    BY <1>3, Steady, Zenon DEF AwaitContext
  <2> HIDE DEF r
  <2>4. Kept(r, alerts[a]) /\ Sane(r) /\ \A k \in Keys : Waits(r, k) <=> Waits(alerts[a], k)
    BY <1>1, <1>2, <1>3, <2>2 DEF Kept, Sane, Waits
  <2>5. pending' \in [Keys -> SUBSET (1 .. Len(alerts))] /\ alerts[a].pc # "done"
    BY <1>2, <2>3, Steady, Zenon
  <2>6. C \subseteq D
    OBVIOUS
  <2> QED
    BY <1>1, <1>2, <2>1, <2>3, <2>4, <2>5, <2>6, AlertMoves, Zenon
<1>4. CASE ~alerts[a].discard
  <2> DEFINE r == emit(alerts[a])
  <2>1. r \in AlertRecord(E, D)
    <3>1. alerts[a].sent + 1 \in Nat /\ Rendered(alerts[a]) \in D
      BY <1>1, AlertFields
    <3> QED
      BY <1>2, <3>1, Zenon DEF AlertRecord, emit
  <2>2. /\ r.key = alerts[a].key /\ r.rule = alerts[a].rule /\ r.trigger = alerts[a].trigger
        /\ r.before = alerts[a].before /\ r.after = alerts[a].after /\ r.at = alerts[a].at
        /\ r.base = alerts[a].base /\ r.finished = alerts[a].finished
        /\ r.discard = alerts[a].discard /\ r.pc = "done" /\ r.sent = alerts[a].sent + 1
    BY <1>2, Zenon DEF AlertRecord, emit
  <2>3. /\ alerts' = [alerts EXCEPT ![a] = r]
        /\ pending' = [pending EXCEPT ![alerts[a].key] = @ \ {a}]
    BY <1>4, Steady, Zenon DEF AwaitContext
  <2> HIDE DEF r
  <2>4. alerts[a].sent = 0
    BY <1>1, <1>2 DEF Sane
  <2>5. Kept(r, alerts[a]) /\ Sane(r) /\ \A k \in Keys : ~Waits(r, k)
    BY <1>1, <1>2, <1>4, <2>2, <2>4 DEF Kept, Sane, Waits
  <2>6. /\ pending' \in [Keys -> SUBSET (1 .. Len(alerts))]
        /\ \A k \in Keys : pending'[k] = IF k = alerts[a].key THEN pending[k] \ {a} ELSE pending[k]
    BY <2>3, Steady, Zenon
  <2>7. \A k \in Keys : a \in pending[k] => k = alerts[a].key
    BY <1>1 DEF Waits
  <2>8. \A k \in Keys : /\ a \in pending'[k] <=> Waits(r, k)
                        /\ \A b \in 1 .. Len(alerts) :
                             b # a => (b \in pending'[k] <=> b \in pending[k])
    BY <2>5, <2>6, <2>7
  <2>9. C \subseteq D /\ alerts[a].pc # "done"
    BY <1>2
  <2> QED
    BY <1>1, <1>2, <2>1, <2>3, <2>5, <2>6, <2>8, <2>9, AlertMoves, ZenonT(30)
<1> QED
  BY <1>3, <1>4

\* RemoveContainer discards what waits for the name; the ring starts anew.
LEMMA ContainerAttachedPInv ==
  ASSUME NEW E, NEW C, PInv(E, C), NEW key \in Keys, ContainerAttached(key)
  PROVE  PInv(E, C)'
<1> DEFINE r(a) == finish([alerts[a] EXCEPT !.discard = TRUE])
<1>1. /\ UNCHANGED <<closed, closer, lines>>
      /\ alerts' = [a \in 1 .. Len(alerts) |-> IF a \in pending[key] THEN r(a) ELSE alerts[a]]
      /\ pending' = [pending EXCEPT ![key] = {}]
      /\ context' = [context EXCEPT ![key] = NewBuffer]
      /\ since' = [since EXCEPT ![key] = Len(lines[key])]
  BY Zenon DEF ContainerAttached, RemoveContainer, StoreRemove
<1>2. ids' \in [Keys -> 1 .. MaxIDs]
  BY Steady, BoundsAssumption DEF ContainerAttached
<1>3. lines[key] \in Seq(E) /\ Len(lines[key]) \in Nat
  BY Steady
<1>4. NewBuffer \in Buffer(E) /\ Ring(NewBuffer, lines[key], Len(lines[key]))
  BY <1>3, Steady, EmptyBuffer, Zenon
<1>5. /\ since' \in [Keys -> Nat] /\ \A k \in Keys : since'[k] <= Len(lines[k])
      /\ context' \in [Keys -> Buffer(E)]
      /\ \A k \in Keys : Ring(context'[k], lines[k], since'[k])
  <2>1. since' \in [Keys -> Nat] /\ context' \in [Keys -> Buffer(E)]
    BY <1>1, <1>3, <1>4, Steady, Zenon
  <2>2. ASSUME NEW k \in Keys
        PROVE  since'[k] <= Len(lines[k]) /\ Ring(context'[k], lines[k], since'[k])
    <3>1. CASE k = key
      <4>1. since'[k] = Len(lines[key]) /\ context'[k] = NewBuffer
        BY <1>1, <3>1, Steady
      <4> QED
        BY <1>3, <1>4, <3>1, <4>1
    <3>2. CASE k # key
      <4>1. since'[k] = since[k] /\ context'[k] = context[k]
        BY <1>1, <3>2, Steady
      <4> QED
        BY <4>1, Steady
    <3> QED
      BY <3>1, <3>2
  <2> QED
    BY <2>1, <2>2
<1>6. /\ pending' \in [Keys -> SUBSET (1 .. Len(alerts))] /\ pending'[key] = {}
      /\ \A k \in Keys \ {key} : pending'[k] = pending[k]
  BY <1>1, Steady, Zenon
<1>7. ASSUME NEW a \in 1 .. Len(alerts)
      PROVE  /\ r(a) \in AlertRecord(E, C)
             /\ r(a).key = alerts[a].key /\ r(a).rule = alerts[a].rule
             /\ r(a).trigger = alerts[a].trigger /\ r(a).before = alerts[a].before
             /\ r(a).after = alerts[a].after /\ r(a).at = alerts[a].at
             /\ r(a).base = alerts[a].base /\ r(a).finished = TRUE /\ r(a).discard = TRUE
             /\ r(a).pc = alerts[a].pc /\ r(a).sent = alerts[a].sent
  <2>1. alerts[a] \in AlertRecord(E, C)
    BY AlertTyped
  <2> DEFINE d == [alerts[a] EXCEPT !.discard = TRUE]
  <2>2. d \in AlertRecord(E, C)
    BY <2>1, Zenon DEF AlertRecord
  <2>3. /\ d.key = alerts[a].key /\ d.rule = alerts[a].rule
        /\ d.trigger = alerts[a].trigger /\ d.before = alerts[a].before
        /\ d.after = alerts[a].after /\ d.at = alerts[a].at
        /\ d.base = alerts[a].base /\ d.discard = TRUE
        /\ d.pc = alerts[a].pc /\ d.sent = alerts[a].sent
    BY <2>1, Zenon DEF AlertRecord
  <2>4. r(a) = [d EXCEPT !.finished = TRUE]
    BY Zenon DEF finish
  <2> HIDE DEF d, r
  <2>5. r(a) \in AlertRecord(E, C)
    BY <2>2, <2>4, Zenon DEF AlertRecord
  <2>6. /\ r(a).key = d.key /\ r(a).rule = d.rule
        /\ r(a).trigger = d.trigger /\ r(a).before = d.before
        /\ r(a).after = d.after /\ r(a).at = d.at
        /\ r(a).base = d.base /\ r(a).finished = TRUE /\ r(a).discard = d.discard
        /\ r(a).pc = d.pc /\ r(a).sent = d.sent
    BY <2>2, <2>4, Zenon DEF AlertRecord
  <2> QED
    BY <2>3, <2>5, <2>6, Zenon
<1> HIDE DEF r
<1>8. ASSUME NEW a \in 1 .. Len(alerts)
      PROVE  alerts'[a] \in AlertRecord(E, C) /\ Carried(a)
  <2>1. /\ alerts[a] \in AlertRecord(E, C) /\ Sane(alerts[a])
        /\ \A k \in Keys : a \in pending[k] <=> Waits(alerts[a], k)
    BY AlertTyped
  <2>2. CASE a \in pending[key]
    <3>1. alerts'[a] = r(a) /\ alerts[a].pc # "done" /\ ~alerts[a].discard
      BY <1>1, <2>1, <2>2, Zenon DEF Waits
    <3>2. Kept(r(a), alerts[a])
      BY <1>7, Zenon DEF Kept
    <3>3. Sane(r(a))
      <4>1. /\ r(a).sent = alerts[a].sent /\ r(a).pc = alerts[a].pc /\ r(a).discard = TRUE
            /\ r(a).finished = TRUE
        BY <1>7, Zenon
      <4>2. alerts[a].sent = 0
        BY <2>1, <3>1, Zenon DEF Sane
      <4> QED
        BY <4>1, <4>2, Zenon DEF Sane
    <3>4. ASSUME NEW k \in Keys PROVE a \notin pending'[k] /\ ~Waits(r(a), k)
      <4>1. alerts[a].key = key /\ (a \in pending[k] => alerts[a].key = k)
        BY <2>1, <2>2, Zenon DEF Waits
      <4>2. r(a).discard = TRUE
        BY <1>7, Zenon
      <4>3. a \notin pending'[k]
        BY <1>6, <4>1, Zenon
      <4> QED
        BY <4>2, <4>3, Zenon DEF Waits
    <3>5. Carried(a)
      BY <3>1, <3>2, <3>3, <3>4, Zenon DEF Carried
    <3> QED
      BY <1>7, <3>1, <3>5, Zenon
  <2>3. CASE a \notin pending[key]
    <3>1. alerts'[a] = alerts[a]
      BY <1>1, <2>3, Zenon
    <3>2. Kept(alerts[a], alerts[a])
      BY DEF Kept
    <3>3. \A k \in Keys : a \in pending'[k] <=> Waits(alerts[a], k)
      BY <1>6, <2>1, <2>3, Zenon
    <3> QED
      BY <2>1, <3>1, <3>2, <3>3, Zenon DEF Carried
  <2> QED
    BY <2>2, <2>3
<1>9. alerts' \in Seq(AlertRecord(E, C)) /\ Len(alerts') = Len(alerts)
  <2>1. alerts' \in [1 .. Len(alerts) -> AlertRecord(E, C)]
    BY <1>1, <1>8, Zenon
  <2>2. Len(alerts) \in Nat
    BY Steady
  <2> QED
    BY <2>1, <2>2, FunctionSequence, Zenon
<1>10. closed' \in BOOLEAN /\ (closed => closed') /\ closer' = closer /\ lines' = lines
  BY <1>1, Steady, Zenon
<1> QED
  BY <1>2, <1>5, <1>6, <1>8, <1>9, <1>10, AlertsMapped, Zenon

LEMMA ClosePInv == ASSUME NEW E, NEW C, PInv(E, C), Close \/ CloseEnds PROVE PInv(E, C)'
<1>1. /\ UNCHANGED <<context, pending, ids, lines, since>>
      /\ closed' \in BOOLEAN /\ (closed => closed')
      /\ closer' \in {"waiting", "returned"} /\ closed'
      /\ closer' = "returned" => \A a \in 1 .. Len(alerts) : alerts[a].pc = "done"
  <2>1. CASE Close
    BY <2>1, Zenon DEF Close
  <2>2. CASE CloseEnds
    BY <2>2, Zenon DEF CloseEnds, PInv, Closing
  <2> QED
    BY <2>1, <2>2
<1>2. ASSUME NEW a \in 1 .. Len(alerts)
      PROVE  alerts'[a] \in AlertRecord(E, C) /\ Carried(a)
  <2>1. /\ alerts[a] \in AlertRecord(E, C) /\ Sane(alerts[a])
        /\ \A k \in Keys : a \in pending[k] <=> Waits(alerts[a], k)
    BY AlertTyped
  <2>2. alerts'[a] = finish(alerts[a]) \/ alerts'[a] = alerts[a]
    BY Zenon DEF Close, CloseEnds
  <2> DEFINE r == finish(alerts[a])
  <2>3. r \in AlertRecord(E, C)
    BY <2>1, Zenon DEF finish, AlertRecord
  <2>4. /\ r.key = alerts[a].key /\ r.rule = alerts[a].rule /\ r.trigger = alerts[a].trigger
        /\ r.before = alerts[a].before /\ r.after = alerts[a].after /\ r.at = alerts[a].at
        /\ r.base = alerts[a].base /\ r.finished = TRUE /\ r.discard = alerts[a].discard
        /\ r.pc = alerts[a].pc /\ r.sent = alerts[a].sent
    BY <2>1, Zenon DEF finish, AlertRecord
  <2> HIDE DEF r
  <2>5. Kept(r, alerts[a]) /\ Sane(r) /\ \A k \in Keys : Waits(r, k) <=> Waits(alerts[a], k)
    BY <2>1, <2>4, Zenon DEF Kept, Sane, Waits
  <2>6. Kept(alerts[a], alerts[a])
    BY DEF Kept
  <2>7. CASE alerts'[a] = r
    BY <1>1, <2>1, <2>3, <2>4, <2>5, <2>7, Zenon DEF Carried
  <2>8. CASE alerts'[a] = alerts[a]
    BY <1>1, <2>1, <2>6, <2>8, Zenon DEF Carried
  <2> QED
    BY <2>2, <2>7, <2>8 DEF r
<1>3. alerts' \in Seq(AlertRecord(E, C)) /\ Len(alerts') = Len(alerts)
  <2>1. CASE Close
    <3>1. alerts' \in [1 .. Len(alerts) -> AlertRecord(E, C)]
      <4>1. alerts' = [a \in 1 .. Len(alerts) |-> alerts'[a]]
        BY <2>1, Zenon DEF Close
      <4> QED
        BY <1>2, <4>1, Zenon
    <3>2. Len(alerts) \in Nat
      BY Steady
    <3> QED
      BY <3>1, <3>2, FunctionSequence, Zenon
  <2>2. CASE CloseEnds
    BY <2>2, Steady DEF CloseEnds
  <2> QED
    BY <2>1, <2>2
<1>4. /\ lines' = lines /\ ids' \in [Keys -> 1 .. MaxIDs] /\ since' \in [Keys -> Nat]
      /\ \A k \in Keys : since'[k] <= Len(lines[k])
      /\ context' \in [Keys -> Buffer(E)]
      /\ \A k \in Keys : Ring(context'[k], lines[k], since'[k])
      /\ pending' \in [Keys -> SUBSET (1 .. Len(alerts))]
  BY <1>1, Steady, Zenon
<1> QED
  BY <1>1, <1>2, <1>3, <1>4, AlertsMapped, Zenon

-----------------------------------------------------------------------------
(* A line: it is added to the alerts that still collect, it may raise new  *)
(* ones, and it goes into the ring.                                        *)

LEMMA Positions ==
  ASSUME NEW n \in Nat, NEW at \in Nat, NEW before \in Nat, NEW after \in Nat,
         before <= at, at + 1 + after <= n
  PROVE  /\ at + 1 \in 1 .. n
         /\ \A i \in 1 .. before : at - before + i \in 1 .. n
         /\ \A i \in 1 .. after : at + 1 + i \in 1 .. n
OBVIOUS

\* An alert that has finished does not look at a further line.
LEMMA WindowGrows ==
  ASSUME NEW E, NEW C, NEW al \in AlertRecord(E, C), NEW all \in Seq(E), NEW entry \in E,
         Window(al, all), al.finished
  PROVE  Window(al, Append(all, entry))
<1> DEFINE more == Append(all, entry)
<1>1. /\ Len(all) \in Nat /\ Len(more) = Len(all) + 1
      /\ \A i \in 1 .. Len(all) : more[i] = all[i]
  OBVIOUS
<1>2. /\ al.at \in Nat /\ al.base \in Nat /\ al.rule \in Rules
      /\ Len(al.after) \in Nat /\ Len(al.before) \in Nat
  BY AlertFields
<1>3. Before[al.rule] \in Nat /\ Capacity \in Nat
  BY <1>2, RuleNumbers, CapacityAssumption
<1>4. /\ al.base <= al.at /\ al.at + 1 + Len(al.after) <= Len(all)
      /\ Len(al.before) = Least(al.at - al.base, Least(Before[al.rule], Capacity))
  BY DEF Window
<1>5. Len(al.before) <= al.at
  BY <1>2, <1>3, <1>4 DEF Least
<1>6. /\ al.at + 1 \in 1 .. Len(all)
      /\ \A i \in 1 .. Len(al.before) : al.at - Len(al.before) + i \in 1 .. Len(all)
      /\ \A i \in 1 .. Len(al.after) : al.at + 1 + i \in 1 .. Len(all)
      /\ al.at + 1 + Len(al.after) <= Len(more)
  <2>1. al.at + 1 + Len(al.after) <= Len(all) + 1
    BY <1>1, <1>2, <1>4
  <2> QED
    BY <1>1, <1>2, <1>4, <1>5, <2>1, Positions, Zenon
<1> HIDE DEF more
<1> QED
  BY <1>1, <1>6, Zenon DEF Window, more

\* One that has not takes the line, and finishes when it has all it asked for.
LEMMA WindowAdds ==
  ASSUME NEW E, NEW C, NEW al \in AlertRecord(E, C), NEW all \in Seq(E), NEW entry \in E,
         Window(al, all), Sane(al), ~al.finished
  PROVE  /\ Add(al, entry) \in AlertRecord(E, C)
         /\ Window(Add(al, entry), Append(all, entry)) /\ Sane(Add(al, entry))
         /\ \A k \in Keys : Waits(Add(al, entry), k) <=> Waits(al, k)
         /\ Add(al, entry).key = al.key
<1> DEFINE more == Append(all, entry)
           after == Append(al.after, entry)
           done == Len(after) >= After[al.rule]
           c == Add(al, entry)
<1>1. /\ Len(all) \in Nat /\ Len(more) = Len(all) + 1 /\ more[Len(all) + 1] = entry
      /\ \A i \in 1 .. Len(all) : more[i] = all[i]
  OBVIOUS
<1>2. /\ al.at \in Nat /\ al.base \in Nat /\ al.rule \in Rules /\ al.after \in Seq(E)
      /\ Len(al.after) \in Nat /\ Len(al.before) \in Nat
  BY AlertFields
<1>3. Before[al.rule] \in Nat /\ After[al.rule] \in Nat /\ Capacity \in Nat
  BY <1>2, RuleNumbers, CapacityAssumption
<1>4. /\ after \in Seq(E) /\ Len(after) = Len(al.after) + 1 /\ after[Len(al.after) + 1] = entry
      /\ \A i \in 1 .. Len(al.after) : after[i] = al.after[i]
      /\ done \in BOOLEAN
  BY <1>2
<1>5. c = [al EXCEPT !.after = after, !.finished = done]
  BY Zenon DEF Add
<1> HIDE DEF c, more, after
<1>6. c \in AlertRecord(E, C)
  BY <1>4, <1>5, Zenon DEF AlertRecord
<1>7. /\ c.key = al.key /\ c.rule = al.rule /\ c.trigger = al.trigger /\ c.before = al.before
      /\ c.after = after /\ c.at = al.at /\ c.base = al.base /\ c.finished = done
      /\ c.discard = al.discard /\ c.pc = al.pc /\ c.sent = al.sent
  BY <1>5, Zenon DEF AlertRecord
<1>8. /\ al.base <= al.at /\ al.at + 1 + Len(al.after) = Len(all)
      /\ Len(al.before) = Least(al.at - al.base, Least(Before[al.rule], Capacity))
      /\ Len(al.after) < After[al.rule]
  BY DEF Window
<1>9. Len(al.before) <= al.at
  BY <1>2, <1>3, <1>8 DEF Least
<1>10. /\ al.at + 1 \in 1 .. Len(all)
       /\ \A i \in 1 .. Len(al.before) : al.at - Len(al.before) + i \in 1 .. Len(all)
       /\ \A i \in 1 .. Len(al.after) : al.at + 1 + i \in 1 .. Len(all)
       /\ al.at + 1 + Len(after) = Len(more) /\ Len(after) <= After[al.rule]
       /\ al.at + 1 + Len(after) <= Len(more)
       /\ al.at + 1 + (Len(al.after) + 1) = Len(all) + 1
       /\ ~done => Len(after) < After[al.rule]
  <2>1. al.at + 1 + Len(al.after) <= Len(all)
    BY <1>1, <1>2, <1>8
  <2>2. /\ al.at + 1 \in 1 .. Len(all)
        /\ \A i \in 1 .. Len(al.before) : al.at - Len(al.before) + i \in 1 .. Len(all)
        /\ \A i \in 1 .. Len(al.after) : al.at + 1 + i \in 1 .. Len(all)
    BY <1>1, <1>2, <1>9, <2>1, Positions, Zenon
  <2>3. /\ al.at + 1 + Len(after) = Len(more) /\ al.at + 1 + Len(after) <= Len(more)
        /\ al.at + 1 + (Len(al.after) + 1) = Len(all) + 1
    <3>1. al.at + 1 + (Len(al.after) + 1) = Len(all) + 1 /\ Len(all) + 1 <= Len(all) + 1
      <4>1. /\ Len(all) \in Nat /\ al.at \in Nat /\ Len(al.after) \in Nat
            /\ al.at + 1 + Len(al.after) = Len(all)
        BY <1>1, <1>2, <1>8, Zenon
      <4> QED
        BY <4>1, SMTT(30)
    <3>2. Len(after) = Len(al.after) + 1 /\ Len(more) = Len(all) + 1
      BY <1>1, <1>4, Zenon
    <3> QED
      BY <3>1, <3>2, Zenon
  <2>4. Len(after) <= After[al.rule] /\ (~done => Len(after) < After[al.rule])
    <3> DEFINE n == Len(al.after)
               limit == After[al.rule]
               now == Len(after)
    <3>1. n \in Nat /\ limit \in Nat /\ n < limit /\ now = n + 1 /\ (~done => ~(now >= limit))
      BY <1>2, <1>3, <1>4, <1>8, Zenon
    <3> HIDE DEF n, limit, now
    <3>2. now <= limit /\ (~done => now < limit)
      BY <3>1
    <3> QED
      BY <3>2, Zenon DEF n, limit, now
  <2> QED
    BY <2>2, <2>3, <2>4, Zenon
<1>11. /\ al.trigger = more[al.at + 1]
       /\ \A i \in 1 .. Len(al.before) : al.before[i] = more[al.at - Len(al.before) + i]
  BY <1>1, <1>10, Zenon DEF Window
<1>12. ASSUME NEW i \in 1 .. Len(after) PROVE after[i] = more[al.at + 1 + i]
  <2>1. CASE i = Len(al.after) + 1
    BY <1>1, <1>4, <1>10, <2>1, Zenon
  <2>2. CASE i # Len(al.after) + 1
    <3>1. i \in 1 .. Len(al.after)
      BY <1>2, <1>4, <2>2
    <3> QED
      BY <1>1, <1>4, <1>10, <3>1, Zenon DEF Window
  <2> QED
    BY <2>1, <2>2
<1>13. Window(c, more)
  BY <1>7, <1>8, <1>10, <1>11, <1>12, Zenon DEF Window
<1>14. Sane(c) /\ \A k \in Keys : Waits(c, k) <=> Waits(al, k)
  BY <1>7, Zenon DEF Sane, Waits
<1> QED
  BY <1>6, <1>7, <1>13, <1>14 DEF c, more

(* A kept line with which the entries and contexts seen so far grow from E *)
(* and C to F and D, and the lines kept with it.                           *)
Line(E, C, F, D, key, entry) ==
  PInv(E, C) /\ E \subseteq F /\ C \subseteq D /\ entry \in F /\ key \in Keys

More(key, entry) == [lines EXCEPT ![key] = Append(@, entry)]

OneMoreLine(more, F, key, entry) ==
  /\ lines \in [Keys -> Seq(F)] /\ more \in [Keys -> Seq(F)]
  /\ more[key] = Append(lines[key], entry)
  /\ \A k \in Keys : k # key => more[k] = lines[k]

LEMMA MoreLines ==
  ASSUME NEW E, NEW C, NEW F, NEW D, NEW key, NEW entry, Line(E, C, F, D, key, entry)
  PROVE  OneMoreLine(More(key, entry), F, key, entry)
<1>1. PInv(E, C) /\ E \subseteq F /\ entry \in F /\ key \in Keys
  BY DEF Line
<1>2. Seq(E) \subseteq Seq(F) /\ lines \in [Keys -> Seq(E)]
  BY <1>1, Steady
<1>3. lines \in [Keys -> Seq(F)]
  BY <1>2, Zenon
<1>4. Append(lines[key], entry) \in Seq(F)
  BY <1>1, <1>3
<1> QED
  BY <1>1, <1>3, <1>4, Zenon DEF More, OneMoreLine

(* What the invariant says of alert r, with index a, after the line.       *)
Seen(r, a, F, D, key, entry) ==
  /\ r \in AlertRecord(F, D) /\ Sane(r) /\ Window(r, More(key, entry)[r.key])
  /\ \A k \in Keys : a \in pending[k] <=> Waits(r, k)

\* What addAfterContext leaves of an alert, whether it is waiting or not.
LEMMA AlertSeesLine ==
  ASSUME NEW E, NEW C, NEW F, NEW D, NEW key, NEW entry, Line(E, C, F, D, key, entry),
         NEW a \in 1 .. Len(alerts)
  PROVE  Seen(addAfterContext(key, entry)[a], a, F, D, key, entry)
<1> DEFINE al == alerts[a]
           r == addAfterContext(key, entry)[a]
           more == More(key, entry)
<1>0. PInv(E, C) /\ E \subseteq F /\ C \subseteq D /\ entry \in F /\ key \in Keys
  BY DEF Line
<1>1. /\ al \in AlertRecord(E, C) /\ Sane(al) /\ Window(al, lines[al.key])
      /\ \A k \in Keys : a \in pending[k] <=> Waits(al, k)
  BY <1>0, AlertTyped, Zenon
<1>2. al \in AlertRecord(F, D) /\ al.key \in Keys /\ al.finished \in BOOLEAN
  BY <1>0, <1>1, WiderRecord, AlertFields, ZenonT(30)
<1>3. r = IF a \in pending[key] THEN Add(al, entry) ELSE al
  BY Zenon DEF addAfterContext
<1>4. /\ lines[key] \in Seq(F) /\ more[key] = Append(lines[key], entry)
      /\ \A k \in Keys : k # key => more[k] = lines[k]
  <2>1. OneMoreLine(more, F, key, entry)
    BY MoreLines, Zenon
  <2> QED
    BY <1>0, <2>1, Zenon DEF OneMoreLine
<1> HIDE DEF al, more, r
<1>5. CASE a \in pending[key] /\ ~al.finished
  <2>1. al.key = key /\ r = Add(al, entry)
    BY <1>1, <1>0, <1>3, <1>5 DEF Waits
  <2>2. Window(al, lines[key]) /\ Sane(al) /\ ~al.finished
        /\ al \in AlertRecord(F, D) /\ lines[key] \in Seq(F)
    BY <1>1, <1>2, <1>4, <1>5, <2>1
  <2>3. /\ Add(al, entry) \in AlertRecord(F, D)
        /\ Window(Add(al, entry), Append(lines[key], entry)) /\ Sane(Add(al, entry))
        /\ \A k \in Keys : Waits(Add(al, entry), k) <=> Waits(al, k)
        /\ Add(al, entry).key = al.key
    BY <1>0, <2>2, WindowAdds, ZenonT(30)
  <2> DEFINE c == Add(al, entry)
  <2>4. r = c /\ c.key = key /\ more[c.key] = Append(lines[key], entry)
    BY <1>4, <2>1, <2>3
  <2>5. c \in AlertRecord(F, D) /\ Sane(c) /\ Window(c, more[c.key])
    BY <2>3, <2>4
  <2>6. \A k \in Keys : a \in pending[k] <=> Waits(c, k)
    BY <1>1, <2>3, Zenon
  <2> HIDE DEF c
  <2> QED
    BY <2>4, <2>5, <2>6, Zenon DEF Seen, more, r
<1>6. CASE ~(a \in pending[key] /\ ~al.finished)
  <2>1. r = al
    BY <1>3, <1>6, Zenon DEF Add
  <2>2. CASE al.key = key
    <3>1. al.finished
      BY <1>0, <1>1, <1>6, <2>2, Zenon DEF Waits, Sane
    <3>2. Window(al, lines[key])
      BY <1>1, <2>2
    <3>3. Window(al, Append(lines[key], entry))
      BY <1>0, <1>2, <1>4, <3>1, <3>2, WindowGrows, Zenon
    <3> QED
      BY <1>1, <1>2, <1>4, <2>1, <2>2, <3>3, Zenon DEF Seen, more, r
  <2>3. CASE al.key # key
    BY <1>1, <1>2, <1>4, <2>1, <2>3, Zenon DEF Seen, more, r
  <2> QED
    BY <2>2, <2>3
<1> QED
  BY <1>5, <1>6

\* The lines that the store answers with for a new alert.
LEMMA BeforeContext ==
  ASSUME NEW E, NEW C, PInv(E, C), NEW key \in Keys, NEW limit \in Nat
  PROVE  LET k == Least(Len(lines[key]) - since[key], Least(limit, Capacity))
         IN  Latest(StoreLast(key, limit), k, lines[key], E) /\ k <= Len(lines[key])
<1> DEFINE all == lines[key]
           b == context[key]
           k == Least(Len(all) - since[key], Least(limit, Capacity))
<1>1. /\ all \in Seq(E) /\ since[key] \in Nat /\ since[key] <= Len(all)
      /\ b \in Buffer(E) /\ Ring(b, all, since[key])
  BY Steady, Zenon
<1>2. b.length = Least(Len(all) - since[key], Capacity)
  BY <1>1 DEF Ring
<1>3. Len(all) \in Nat /\ Capacity \in Nat
  BY <1>1, CapacityAssumption
<1>4. Latest(BufferLast(b, limit), Least(limit, b.length), all, E)
  BY <1>1, RingLast
<1> HIDE DEF all
<1>5. Least(limit, b.length) = k /\ k <= Len(all)
  <2>1. /\ Least(limit, b.length) = Least(limit, Least(Len(all) - since[key], Capacity))
        /\ Len(all) \in Nat /\ since[key] \in Nat /\ since[key] <= Len(all) /\ Capacity \in Nat
    BY <1>1, <1>2, <1>3, Zenon
  <2> QED
    BY <2>1 DEF Least
<1> QED
  BY <1>4, <1>5, Zenon DEF StoreLast, all

(* What the invariant says of a new alert after the line.                  *)
Opened(r, rule, F, D, key, entry) ==
  /\ r \in AlertRecord(F, D) /\ Sane(r) /\ Window(r, More(key, entry)[r.key])
  /\ \A k \in Keys : Waits(r, k) <=> k = key /\ After[rule] > 0

\* The alert that queueAlert makes of a line that is about to be kept.
LEMMA AlertOpens ==
  ASSUME NEW E, NEW C, NEW F, NEW D, NEW key, NEW entry, Line(E, C, F, D, key, entry),
         NEW rule \in Rules, Rendered(NewAfterCollector(key, rule, entry)) \in D
  PROVE  Opened(queueAlert(key, rule, entry), rule, F, D, key, entry)
<1> DEFINE al == NewAfterCollector(key, rule, entry)
           r == queueAlert(key, rule, entry)
           all == lines[key]
           more == Append(all, entry)
           last == StoreLast(key, Before[rule])
<1>0. PInv(E, C) /\ E \subseteq F /\ C \subseteq D /\ entry \in F /\ key \in Keys
  BY DEF Line
<1>1. since[key] \in Nat /\ since[key] <= Len(all) /\ <<>> \in D
  BY <1>0, Steady, Zenon
<1>2. all \in Seq(F) /\ More(key, entry)[key] = more
  <2>1. OneMoreLine(More(key, entry), F, key, entry)
    BY MoreLines, Zenon
  <2> QED
    BY <1>0, <2>1, Zenon DEF OneMoreLine
<1>3. Before[rule] \in Nat /\ After[rule] \in Nat
  BY RuleNumbers
<1>4. LET k == Least(Len(all) - since[key], Least(Before[rule], Capacity))
      IN  Latest(last, k, all, E) /\ k <= Len(all)
  BY <1>0, <1>3, BeforeContext, Zenon
<1> HIDE DEF all, last
<1>5. /\ last \in Seq(E) /\ Len(last) \in Nat /\ Len(last) <= Len(all)
      /\ Len(last) = Least(Len(all) - since[key], Least(Before[rule], Capacity))
      /\ \A i \in 1 .. Len(last) : last[i] = all[Len(all) - Len(last) + i]
  BY <1>4, Zenon DEF Latest
<1>6. last \in Seq(F) /\ Len(all) \in Nat /\ Len(more) = Len(all) + 1
      /\ more[Len(all) + 1] = entry /\ \A i \in 1 .. Len(all) : more[i] = all[i]
  <2>1. last \in Seq(F)
    BY <1>0, <1>5
  <2> QED
    BY <1>0, <1>2, <2>1
<1> HIDE DEF more
<1>7. al = [key |-> key, rule |-> rule, trigger |-> entry, before |-> last, after |-> <<>>,
            finished |-> After[rule] = 0, discard |-> FALSE, pc |-> "wait", sent |-> 0,
            context |-> <<>>, at |-> Len(all), base |-> since[key]]
  BY DEF NewAfterCollector, last, all
<1>8. al \in AlertRecord(F, D)
  BY <1>0, <1>1, <1>6, <1>7 DEF AlertRecord
<1>9. /\ al.key = key /\ al.rule = rule /\ al.trigger = entry /\ al.before = last
      /\ al.after = <<>> /\ al.finished = (After[rule] = 0) /\ al.discard = FALSE
      /\ al.pc = "wait" /\ al.sent = 0 /\ al.at = Len(all) /\ al.base = since[key]
  BY <1>7
<1> HIDE DEF al, r
<1>10. Window(al, more)
  <2>1. Len(al.after) = 0 /\ Len(all) + 1 + 0 = Len(all) + 1 /\ 0 <= After[rule]
        /\ Len(all) + 1 + 0 <= Len(all) + 1
        /\ (After[rule] # 0 => 0 < After[rule]) /\ 1 .. 0 = {}
    BY <1>3, <1>6, <1>9
  <2>2. \A i \in 1 .. Len(last) : Len(all) - Len(last) + i \in 1 .. Len(all)
    BY <1>5, <1>6
  <2>3. \A i \in 1 .. Len(last) : last[i] = more[Len(all) - Len(last) + i]
    BY <1>5, <1>6, <2>2, Zenon
  <2> QED
    BY <1>1, <1>5, <1>6, <1>9, <2>1, <2>3, Zenon DEF Window
<1>11. CASE After[rule] = 0
  <2>1. r = [al EXCEPT !.pc = "done", !.context = Rendered(al), !.sent = @ + 1]
    BY <1>11, Zenon DEF queueAlert, emit, al, r
  <2>2. Rendered(al) \in D /\ al.sent + 1 = 1
    BY <1>9 DEF al
  <2>3. r \in AlertRecord(F, D)
    <3>1. al.sent + 1 \in Nat
      BY <2>2
    <3> QED
      BY <1>8, <2>1, <2>2, <3>1, Zenon DEF AlertRecord
  <2>4. /\ r.key = al.key /\ r.rule = al.rule /\ r.trigger = al.trigger /\ r.before = al.before
        /\ r.after = al.after /\ r.at = al.at /\ r.base = al.base /\ r.finished = al.finished
        /\ r.discard = al.discard /\ r.pc = "done" /\ r.sent = al.sent + 1
    BY <1>8, <2>1, Zenon DEF AlertRecord
  <2>5. Kept(r, al)
    BY <2>4, Zenon DEF Kept
  <2>6. Window(r, more)
    BY <1>10, <2>5, WindowKept, Zenon
  <2>7. Sane(r) /\ \A k \in Keys : Waits(r, k) <=> k = key /\ After[rule] > 0
    <3>1. r.sent = 1 /\ r.pc = "done" /\ r.discard = FALSE /\ r.finished /\ ~(After[rule] > 0)
      <4>1. ~(After[rule] > 0)
        BY <1>11
      <4> QED
        BY <1>9, <1>11, <2>2, <2>4, <4>1, Zenon
    <3> QED
      BY <3>1, Zenon DEF Sane, Waits
  <2> QED
    BY <1>2, <1>9, <2>3, <2>4, <2>6, <2>7, Zenon DEF Opened, r
<1>12. CASE After[rule] # 0
  <2>1. r = al
    BY <1>12, Zenon DEF queueAlert, al, r
  <2>2. Sane(al) /\ \A k \in Keys : Waits(al, k) <=> k = key /\ After[rule] > 0
    BY <1>3, <1>9, <1>12 DEF Sane, Waits
  <2> QED
    BY <1>2, <1>8, <1>9, <1>10, <2>1, <2>2, Zenon DEF Opened, r
<1> QED
  BY <1>11, <1>12

Concatenation(u, s, t, S) ==
  /\ u \in Seq(S) /\ Len(u) = Len(s) + Len(t)
  /\ \A i \in 1 .. Len(s) : u[i] = s[i]
  /\ \A i \in 1 .. Len(t) : u[Len(s) + i] = t[i]

LEMMA Joining ==
  ASSUME NEW S, NEW s \in Seq(S), NEW t \in Seq(S)
  PROVE  Concatenation(s \o t, s, t, S)
BY DEF Concatenation

LEMMA Splitting ==
  ASSUME NEW n \in Nat, NEW m \in Nat
  PROVE  /\ \A a \in 1 .. n + m : a \in 1 .. n \/ \E i \in 1 .. m : a = n + i
         /\ 1 .. n \subseteq 1 .. n + m /\ \A i \in 1 .. m : n + i \in 1 .. n + m
         /\ \A i \in 1 .. m : n + i \notin 1 .. n
         /\ \A i, j \in 1 .. m : n + i = n + j => i = j
<1>1. ASSUME NEW a \in 1 .. n + m, a \notin 1 .. n PROVE a - n \in 1 .. m /\ a = n + (a - n)
  BY <1>1
<1>2. \A a \in 1 .. n + m : a \in 1 .. n \/ \E i \in 1 .. m : a = n + i
  BY <1>1, Zenon
<1> QED
  BY <1>2

\* Who waits after a line: those who did, and the new alerts that want lines after it.
Waiting(raised) ==
  { Len(alerts) + i : i \in { j \in 1 .. Len(raised) : After[raised[j]] > 0 } }

PendingStep(key, raised) == pending' = [pending EXCEPT ![key] = @ \cup Waiting(raised)]

LEMMA PendingAfterLine ==
  ASSUME NEW E, NEW C, PInv(E, C), NEW key \in Keys, NEW raised \in Raisable,
         PendingStep(key, raised)
  PROVE  /\ pending' \in [Keys -> SUBSET (1 .. Len(alerts) + Len(raised))]
         /\ \A k \in Keys, a \in 1 .. Len(alerts) : a \in pending'[k] <=> a \in pending[k]
         /\ \A k \in Keys, i \in 1 .. Len(raised) :
              Len(alerts) + i \in pending'[k] <=> k = key /\ After[raised[i]] > 0
<1> DEFINE n == Len(alerts)
           m == Len(raised)
           waiting == Waiting(raised)
<1>1. n \in Nat /\ m \in Nat /\ pending \in [Keys -> SUBSET (1 .. n)]
  BY Steady, RulesAssumption
<1>2. /\ 1 .. n \subseteq 1 .. n + m /\ \A i \in 1 .. m : n + i \in 1 .. n + m
      /\ \A i \in 1 .. m : n + i \notin 1 .. n
      /\ \A i, j \in 1 .. m : n + i = n + j => i = j
  BY <1>1, Splitting, Zenon
<1> HIDE DEF n, m, waiting
<1>w. pending' = [pending EXCEPT ![key] = pending[key] \cup waiting]
  BY Zenon DEF PendingStep, waiting
<1>3. /\ waiting \subseteq 1 .. n + m /\ \A a \in 1 .. n : a \notin waiting
      /\ \A i \in 1 .. m : n + i \in waiting <=> After[raised[i]] > 0
  <2>1. waiting = { n + i : i \in { j \in 1 .. m : After[raised[j]] > 0 } }
    BY DEF n, m, waiting, Waiting
  <2> QED
    BY <1>2, <2>1, Zenon
<1>4. \A k \in Keys : pending'[k] = IF k = key THEN pending[k] \cup waiting ELSE pending[k]
  BY <1>1, <1>w, Zenon
<1>5. \A k \in Keys : pending[k] \subseteq 1 .. n
  BY <1>1
<1>6. pending' \in [Keys -> SUBSET (1 .. n + m)]
  <2>1. \A k \in Keys : pending[k] \in SUBSET (1 .. n + m) /\ pending[k] \cup waiting \in SUBSET (1 .. n + m)
    BY <1>2, <1>3, <1>5, Zenon
  <2>2. pending' = [k \in Keys |-> IF k = key THEN pending[k] \cup waiting ELSE pending[k]]
    BY <1>1, <1>w, Zenon
  <2> QED
    BY <2>1, <2>2, Zenon
<1>7. \A k \in Keys, a \in 1 .. n : a \in pending'[k] <=> a \in pending[k]
  <2> SUFFICES ASSUME NEW k \in Keys, NEW a \in 1 .. n PROVE a \in pending'[k] <=> a \in pending[k]
    BY Zenon
  <2>1. pending'[k] = pending[k] \/ pending'[k] = pending[k] \cup waiting
    BY <1>4, Zenon
  <2> QED
    BY <1>3, <2>1, Zenon
<1>8. \A k \in Keys, i \in 1 .. m : n + i \in pending'[k] <=> k = key /\ After[raised[i]] > 0
  <2> SUFFICES ASSUME NEW k \in Keys, NEW i \in 1 .. m
               PROVE  n + i \in pending'[k] <=> k = key /\ After[raised[i]] > 0
    BY Zenon
  <2>1. n + i \notin pending[k] /\ (n + i \in waiting <=> After[raised[i]] > 0)
    BY <1>2, <1>3, <1>5, Zenon
  <2>2. CASE k = key
    <3>1. pending'[k] = pending[k] \cup waiting
      BY <1>4, <2>2, Zenon
    <3> QED
      BY <2>1, <2>2, <3>1, Zenon
  <2>3. CASE k # key
    <3>1. pending'[k] = pending[k]
      BY <1>4, <2>3, Zenon
    <3> QED
      BY <2>1, <2>3, <3>1, Zenon
  <2> QED
    BY <2>2, <2>3
<1> QED
  BY <1>6, <1>7, <1>8, Zenon DEF n, m

\* The alerts there were, after addAfterContext.
LEMMA LineAdded ==
  ASSUME NEW E, NEW C, NEW F, NEW D, NEW key, NEW entry, Line(E, C, F, D, key, entry)
  PROVE  /\ addAfterContext(key, entry) \in Seq(AlertRecord(F, D))
         /\ Len(addAfterContext(key, entry)) = Len(alerts)
<1> DEFINE added == addAfterContext(key, entry)
           S == AlertRecord(F, D)
           n == Len(alerts)
<1>1. n \in Nat
  BY Steady DEF Line
<1>2. added = [a \in 1 .. n |-> added[a]]
  BY Zenon DEF addAfterContext
<1>3. \A a \in 1 .. n : added[a] \in S
  BY AlertSeesLine, Zenon DEF Seen
<1> HIDE DEF added, S, n
<1>4. added \in [1 .. n -> S]
  BY <1>2, <1>3, Zenon
<1>5. added \in Seq(S) /\ Len(added) = n
  BY <1>1, <1>4, FunctionSequence, Zenon
<1> QED
  BY <1>5 DEF added, S, n

\* The new alerts.
Raises(D, key, entry, raised) ==
  /\ raised \in Raisable
  /\ \A i \in 1 .. Len(raised) : Rendered(NewAfterCollector(key, raised[i], entry)) \in D

Queued(key, entry, raised) == [i \in 1 .. Len(raised) |-> queueAlert(key, raised[i], entry)]

QueuedWell(queued, raised, F, D, key, entry) ==
  /\ queued \in Seq(AlertRecord(F, D)) /\ Len(queued) = Len(raised)
  /\ \A i \in 1 .. Len(raised) : Opened(queued[i], raised[i], F, D, key, entry)

LEMMA AlertsQueued ==
  ASSUME NEW E, NEW C, NEW F, NEW D, NEW key, NEW entry, Line(E, C, F, D, key, entry),
         NEW raised, Raises(D, key, entry, raised)
  PROVE  QueuedWell(Queued(key, entry, raised), raised, F, D, key, entry)
<1> DEFINE m == Len(raised)
           queued == Queued(key, entry, raised)
           S == AlertRecord(F, D)
<1>1. m \in Nat /\ \A i \in 1 .. m : raised[i] \in Rules
  BY RulesAssumption DEF Raises, Rules
<1>2. queued = [i \in 1 .. m |-> queued[i]]
  BY Zenon DEF Queued
<1>3. ASSUME NEW i \in 1 .. m PROVE Opened(queued[i], raised[i], F, D, key, entry)
  <2>1. queued[i] = queueAlert(key, raised[i], entry)
    BY Zenon DEF Queued
  <2>2. Rendered(NewAfterCollector(key, raised[i], entry)) \in D
    BY Zenon DEF Raises
  <2> QED
    BY <1>1, <2>1, <2>2, AlertOpens, Zenon
<1>4. \A i \in 1 .. m : queued[i] \in S
  BY <1>3, Zenon DEF Opened
<1> HIDE DEF m, queued, S
<1>5. queued \in [1 .. m -> S]
  BY <1>2, <1>4, Zenon
<1>6. queued \in Seq(S) /\ Len(queued) = m
  BY <1>1, <1>5, FunctionSequence, Zenon
<1> QED
  BY <1>3, <1>6, Zenon DEF m, queued, S, QueuedWell

\* The line goes into the ring.
LEMMA LineInRing ==
  ASSUME NEW E, NEW C, NEW F, NEW D, NEW key, NEW entry, Line(E, C, F, D, key, entry),
         context' = StoreAppend(key, entry), since' = since, lines' = More(key, entry)
  PROVE  /\ Rings' /\ context' \in [Keys -> Buffer(F)] /\ lines' \in [Keys -> Seq(F)]
         /\ \A k \in Keys : since'[k] <= Len(lines'[k])
<1> DEFINE ring == BufferAppend(context[key], entry)
           kept == Append(lines[key], entry)
<1>0. PInv(E, C) /\ E \subseteq F /\ entry \in F /\ key \in Keys
  BY DEF Line
<1>1. /\ lines \in [Keys -> Seq(F)] /\ lines' \in [Keys -> Seq(F)] /\ lines'[key] = kept
      /\ \A k \in Keys : k # key => lines'[k] = lines[k]
  <2>1. OneMoreLine(More(key, entry), F, key, entry)
    BY MoreLines, Zenon
  <2> QED
    BY <2>1, Zenon DEF OneMoreLine
<1>2. /\ context \in [Keys -> Buffer(F)]
      /\ since \in [Keys -> Nat] /\ \A k \in Keys : since[k] <= Len(lines[k])
      /\ \A k \in Keys : Ring(context[k], lines[k], since[k])
  <2>1. Buffer(E) \subseteq Buffer(F)
    BY <1>0 DEF Buffer
  <2>2. context \in [Keys -> Buffer(E)]
    BY <1>0, Steady, Zenon
  <2>3. context \in [Keys -> Buffer(F)]
    BY <2>1, <2>2, Zenon
  <2> QED
    BY <1>0, <2>3, Steady, Zenon
<1>3. ring \in Buffer(F) /\ Ring(ring, kept, since[key])
  <2>1. /\ context[key] \in Buffer(F) /\ lines[key] \in Seq(F) /\ since[key] \in Nat
        /\ since[key] <= Len(lines[key]) /\ Ring(context[key], lines[key], since[key])
    BY <1>0, <1>1, <1>2, Zenon
  <2> QED
    BY <1>0, <2>1, RingAppend
<1>4. since[key] <= Len(kept)
  <2>1. lines[key] \in Seq(F) /\ since[key] \in Nat /\ since[key] <= Len(lines[key])
    BY <1>0, <1>1, <1>2, Zenon
  <2> QED
    BY <1>0, <2>1
<1> HIDE DEF ring, kept
<1>5. context' = [context EXCEPT ![key] = ring]
  BY Zenon DEF StoreAppend, ring
<1>6. /\ context' \in [Keys -> Buffer(F)] /\ context'[key] = ring
      /\ \A k \in Keys : k # key => context'[k] = context[k]
  BY <1>0, <1>2, <1>3, <1>5, Zenon
<1>7. Rings'
  BY <1>1, <1>2, <1>3, <1>6, Zenon DEF Rings
<1>8. \A k \in Keys : since'[k] <= Len(lines'[k])
  BY <1>1, <1>2, <1>4, Zenon
<1> QED
  BY <1>1, <1>6, <1>7, <1>8

LEMMA ProcessPInv ==
  ASSUME NEW E, NEW C, NEW F, NEW D, NEW key, NEW entry, Line(E, C, F, D, key, entry),
         NEW raised, Raises(D, key, entry, raised),
         alerts' = addAfterContext(key, entry) \o Queued(key, entry, raised),
         PendingStep(key, raised), context' = StoreAppend(key, entry), lines' = More(key, entry),
         closed' = closed, closer' = closer, ids' = ids, since' = since, ~closed
  PROVE  PInv(F, D)'
<1> DEFINE n == Len(alerts)
           m == Len(raised)
           added == addAfterContext(key, entry)
           queued == Queued(key, entry, raised)
           S == AlertRecord(F, D)
<1>0. PInv(E, C) /\ E \subseteq F /\ C \subseteq D /\ key \in Keys /\ raised \in Raisable
  BY DEF Line, Raises
<1>1. n \in Nat /\ m \in Nat
  BY <1>0, Steady, RulesAssumption
<1>2. /\ added \in Seq(S) /\ Len(added) = n
      /\ \A a \in 1 .. n : Seen(added[a], a, F, D, key, entry)
  BY LineAdded, AlertSeesLine, Zenon
<1>3. /\ queued \in Seq(S) /\ Len(queued) = m
      /\ \A i \in 1 .. m : Opened(queued[i], raised[i], F, D, key, entry)
  <2>1. QueuedWell(queued, raised, F, D, key, entry)
    BY AlertsQueued, Zenon
  <2> QED
    BY <2>1, Zenon DEF QueuedWell
<1>4. /\ pending' \in [Keys -> SUBSET (1 .. n + m)]
      /\ \A k \in Keys, a \in 1 .. n : a \in pending'[k] <=> a \in pending[k]
      /\ \A k \in Keys, i \in 1 .. m :
           n + i \in pending'[k] <=> k = key /\ After[raised[i]] > 0
  BY <1>0, PendingAfterLine, Zenon
<1>5. /\ Rings' /\ context' \in [Keys -> Buffer(F)] /\ lines' \in [Keys -> Seq(F)]
      /\ \A k \in Keys : since'[k] <= Len(lines'[k])
  BY LineInRing, Zenon
<1> HIDE DEF added, queued, S, n, m
<1>6. /\ added \o queued \in Seq(S) /\ Len(added \o queued) = n + m
      /\ \A a \in 1 .. n : (added \o queued)[a] = added[a]
      /\ \A i \in 1 .. m : (added \o queued)[n + i] = queued[i]
  <2>1. Concatenation(added \o queued, added, queued, S)
    BY <1>2, <1>3, Joining, Zenon
  <2> QED
    BY <1>2, <1>3, <2>1, Zenon DEF Concatenation
<1>7. /\ alerts' \in Seq(S) /\ Len(alerts') = n + m
      /\ \A a \in 1 .. n : alerts'[a] = added[a]
      /\ \A i \in 1 .. m : alerts'[n + i] = queued[i]
  <2>1. alerts' = added \o queued
    BY DEF added, queued
  <2> QED
    BY <1>6, <2>1, Zenon
<1>8. \A a \in 1 .. n + m : a \in 1 .. n \/ \E i \in 1 .. m : a = n + i
  BY <1>1, Splitting, Zenon
<1>9. AlertsInv'
  <2> SUFFICES ASSUME NEW a \in 1 .. n + m
               PROVE  /\ Window(alerts'[a], lines'[alerts'[a].key]) /\ Sane(alerts'[a])
                      /\ \A k \in Keys : a \in pending'[k] <=> Waits(alerts'[a], k)
    BY <1>7, Zenon DEF AlertsInv
  <2>1. CASE a \in 1 .. n
    <3>1. alerts'[a] = added[a] /\ \A k \in Keys : a \in pending'[k] <=> a \in pending[k]
      BY <1>4, <1>7, <2>1, Zenon
    <3>2. /\ Window(added[a], lines'[added[a].key]) /\ Sane(added[a])
          /\ \A k \in Keys : a \in pending[k] <=> Waits(added[a], k)
      BY <1>2, <2>1, Zenon DEF Seen
    <3> QED
      BY <3>1, <3>2, Zenon
  <2>2. CASE \E i \in 1 .. m : a = n + i
    <3>1. PICK i \in 1 .. m : a = n + i
      BY <2>2
    <3>2. /\ alerts'[a] = queued[i]
          /\ \A k \in Keys : a \in pending'[k] <=> k = key /\ After[raised[i]] > 0
      BY <1>4, <1>7, <3>1, Zenon
    <3>3. /\ Window(queued[i], lines'[queued[i].key]) /\ Sane(queued[i])
          /\ \A k \in Keys : Waits(queued[i], k) <=> k = key /\ After[raised[i]] > 0
      BY <1>3, Zenon DEF Opened
    <3> QED
      BY <3>2, <3>3, Zenon
  <2> QED
    BY <1>8, <2>1, <2>2, Zenon
<1>10. Types(F, D)'
  <2>1. NoEntry \in F /\ <<>> \in D /\ ids' \in [Keys -> 1 .. MaxIDs] /\ since' \in [Keys -> Nat]
    BY <1>0, Steady, Zenon
  <2> QED
    BY <1>4, <1>5, <1>7, <2>1, Zenon DEF Types, S
<1>11. Closing'
  BY <1>0, Zenon DEF PInv, Closing
<1> QED
  BY <1>5, <1>9, <1>10, <1>11, Zenon DEF PInv

-----------------------------------------------------------------------------
(* The entries and the contexts seen so far are finitely many, but which   *)
(* ones depends on the run; the invariant of the theorems hides them.      *)
IInv == \E E, C : PInv(E, C)

LEMMA PInvUnchanged ==
  ASSUME NEW E, NEW C, PInv(E, C), UNCHANGED vars
  PROVE  PInv(E, C)'
BY Zenon DEF PInv, Types, Rings, AlertsInv, Closing, vars

LEMMA ProcessKeeps ==
  ASSUME NEW E, NEW C, PInv(E, C), NEW key \in Keys, NEW raised \in Raisable, NEW id,
         Process(key, id, raised, TRUE)
  PROVE  \E F, D : PInv(F, D)'
<1>1. PICK entry : entry = [id |-> id, n |-> LineCount + 1]
  BY Zenon
<1>2. PICK F : F = E \cup {entry}
  BY Zenon
<1>3. PICK D : D = C \cup { Rendered(NewAfterCollector(key, raised[i], entry)) :
                              i \in 1 .. Len(raised) }
  BY Zenon
<1>4. Line(E, C, F, D, key, entry)
  BY <1>2, <1>3, Zenon DEF Line
<1>5. Raises(D, key, entry, raised)
  BY <1>3, Zenon DEF Raises
<1>6. /\ alerts' = addAfterContext(key, entry) \o Queued(key, entry, raised)
      /\ PendingStep(key, raised) /\ context' = StoreAppend(key, entry)
      /\ lines' = More(key, entry)
      /\ closed' = closed /\ closer' = closer /\ ids' = ids /\ since' = since /\ ~closed
  BY <1>1, Zenon DEF Process, Queued, PendingStep, Waiting, More
<1>7. PInv(F, D)'
  BY <1>4, <1>5, <1>6, ProcessPInv, Zenon
<1> QED
  BY <1>7

LEMMA IInvNext == ASSUME IInv, [Next]_vars PROVE IInv'
<1> SUFFICES \E F, D : PInv(F, D)'
  BY Zenon DEF IInv
<1>1. PICK E, C : PInv(E, C)
  BY Zenon DEF IInv
<1>2. CASE UNCHANGED vars
  BY <1>1, <1>2, PInvUnchanged, Zenon
<1>3. ASSUME NEW key \in Keys, NEW raised \in Raisable, NEW keepsContext \in BOOLEAN, NEW id,
             Process(key, id, raised, keepsContext)
      PROVE  \E F, D : PInv(F, D)'
  <2>1. CASE keepsContext
    <3>1. Process(key, id, raised, TRUE)
      BY <1>3, <2>1, Zenon
    <3> QED
      BY <1>1, <3>1, ProcessKeeps, Zenon
  <2>2. CASE ~keepsContext
    <3>1. UNCHANGED vars
      BY <1>3, <2>2, Zenon DEF Process, vars
    <3> QED
      BY <1>1, <3>1, PInvUnchanged, Zenon
  <2> QED
    BY <2>1, <2>2
<1>4. ASSUME NEW a \in 1 .. Len(alerts), TimerFires(a) PROVE \E F, D : PInv(F, D)'
  BY <1>1, <1>4, TimerFiresPInv, Zenon
<1>5. ASSUME NEW a \in 1 .. Len(alerts), TakeCapture(a) PROVE \E F, D : PInv(F, D)'
  BY <1>1, <1>5, TakeCapturePInv, Zenon
<1>6. ASSUME NEW a \in 1 .. Len(alerts), AwaitContext(a) PROVE \E F, D : PInv(F, D)'
  <2>1. PICK D : D = C \cup {Rendered(alerts[a])}
    BY Zenon
  <2>2. PInv(E, D)'
    BY <1>1, <1>6, <2>1, AwaitContextPInv, Zenon
  <2> QED
    BY <2>2
<1>7. ASSUME NEW key \in Keys, ContainerAttached(key) PROVE \E F, D : PInv(F, D)'
  BY <1>1, <1>7, ContainerAttachedPInv, Zenon
<1>8. CASE Close \/ CloseEnds
  BY <1>1, <1>8, ClosePInv, Zenon
<1> QED
  BY <1>2, <1>3, <1>4, <1>5, <1>6, <1>7, <1>8, Zenon DEF Next

LEMMA AlwaysIInv == Spec => []IInv
<1>1. Init => IInv
  BY PInvInit, Zenon DEF IInv
<1> QED
  BY <1>1, IInvNext, PTL DEF Spec

-----------------------------------------------------------------------------
\* The ring's indices stay inside its slice, and pending names alerts there are.
THEOREM ProcessorTypeCorrect == Spec => []TypeOK
<1>1. IInv => TypeOK
  <2> SUFFICES ASSUME NEW E, NEW C, PInv(E, C) PROVE TypeOK
    BY Zenon DEF IInv
  <2>1. ASSUME NEW k \in Keys
        PROVE  /\ context[k].start \in 0 .. Capacity - 1 /\ context[k].length \in 0 .. Capacity
               /\ pending[k] \subseteq 1 .. Len(alerts) /\ ids[k] \in 1 .. MaxIDs
    <3>1. context[k] \in Buffer(E)
      BY Steady, Zenon
    <3>2. context[k].start \in 0 .. Capacity - 1 /\ context[k].length \in 0 .. Capacity
      BY <3>1, BufferFields
    <3> QED
      BY <3>2, Steady, Zenon
  <2>2. ASSUME NEW a \in 1 .. Len(alerts)
        PROVE  /\ alerts[a].key \in Keys /\ alerts[a].rule \in Rules
               /\ alerts[a].finished \in BOOLEAN /\ alerts[a].discard \in BOOLEAN
               /\ alerts[a].pc \in {"wait", "lock", "done"} /\ alerts[a].sent \in Nat
    <3>1. alerts[a] \in AlertRecord(E, C)
      BY AlertTyped, Zenon
    <3> QED
      BY <3>1, AlertFields, Zenon
  <2> QED
    BY <2>1, <2>2, Zenon DEF TypeOK, PInv, Closing
<1> QED
  BY <1>1, AlwaysIInv, PTL

\* However lines, timers, container changes and Close interleave, an alert is sent
\* once or was discarded, and none is under way when Close has returned.
THEOREM ProcessorEmittedOnce == Spec => []EmittedOnce
<1>1. IInv => EmittedOnce
  <2> SUFFICES ASSUME NEW E, NEW C, PInv(E, C), NEW a \in 1 .. Len(alerts)
               PROVE  /\ alerts[a].sent = IF alerts[a].pc = "done" /\ ~alerts[a].discard
                                          THEN 1 ELSE 0
                      /\ closer = "returned" => alerts[a].sent = 1 \/ alerts[a].discard
    BY Zenon DEF IInv, EmittedOnce, Alerts
  <2>1. Sane(alerts[a])
    BY AlertTyped, Zenon
  <2>2. closer = "returned" => alerts[a].pc = "done"
    BY Zenon DEF PInv, Closing
  <2> QED
    BY <2>1, <2>2, Zenon DEF Sane
<1> QED
  BY <1>1, AlwaysIInv, PTL

\* pending holds an alert exactly as long as somebody waits for its context.
THEOREM ProcessorNoLeak == Spec => []NoLeak
<1>1. IInv => NoLeak
  <2> SUFFICES ASSUME NEW E, NEW C, PInv(E, C), NEW a \in 1 .. Len(alerts)
               PROVE  (\E k \in Keys : a \in pending[k]) <=>
                        (alerts[a].pc # "done" /\ ~alerts[a].discard)
    BY Zenon DEF IInv, NoLeak
  <2>1. /\ alerts[a] \in AlertRecord(E, C)
        /\ \A k \in Keys : a \in pending[k] <=> Waits(alerts[a], k)
    BY AlertTyped, Zenon
  <2>2. alerts[a].key \in Keys
    BY <2>1, AlertFields, Zenon
  <2> QED
    BY <2>1, <2>2, Zenon DEF Waits
<1> QED
  BY <1>1, AlwaysIInv, PTL

LEMMA Backwards ==
  ASSUME NEW at \in Nat, NEW b \in Nat, NEW after \in Nat, NEW n \in Nat, b <= at,
         at + 1 + after <= n
  PROVE  /\ at - b \in Nat /\ at + 1 \in Nat /\ at - b + b <= n
         /\ at - b + b = at /\ at + 1 + 1 = at + 2
<1>1. at - b \in Nat /\ at + 1 \in Nat
  OBVIOUS
<1>2. at - b + b = at /\ at + 1 + 1 = at + 2
  OBVIOUS
<1>3. at <= n
  OBVIOUS
<1> QED
  BY <1>1, <1>2, <1>3

LEMMA Stretch ==
  ASSUME NEW S, NEW all \in Seq(S), NEW part \in Seq(S), NEW from \in Nat,
         from + Len(part) <= Len(all), \A i \in 1 .. Len(part) : part[i] = all[from + i]
  PROVE  part = SubSeq(all, from + 1, from + Len(part))
<1>1. Len(all) \in Nat /\ Len(part) \in Nat
  OBVIOUS
<1> DEFINE sub == SubSeq(all, from + 1, from + Len(part))
<1>2. sub \in Seq(S) /\ Len(sub) = Len(part) /\ \A i \in 1 .. Len(part) : sub[i] = all[from + i]
  BY <1>1
<1> QED
  BY <1>2

\* The context of an alert is the run of kept lines around its trigger, for every
\* capacity of the ring, whatever is overwritten in it.
THEOREM ProcessorContextExact == Spec => []ContextExact
<1>1. IInv => ContextExact
  <2> SUFFICES ASSUME NEW E, NEW C, PInv(E, C), NEW a \in 1 .. Len(alerts),
                      NEW al, al = alerts[a]
               PROVE  LET all == lines[al.key]
                          had == al.at - al.base
                          b == Len(al.before)
                          most == IF Before[al.rule] < Capacity THEN Before[al.rule]
                                                                ELSE Capacity
                      IN /\ al.trigger = all[al.at + 1]
                         /\ b = IF had < most THEN had ELSE most
                         /\ al.before = SubSeq(all, al.at - b + 1, al.at)
                         /\ Len(al.after) <= After[al.rule]
                         /\ al.after = SubSeq(all, al.at + 2, al.at + 1 + Len(al.after))
    BY Zenon DEF IInv, ContextExact, Alerts
  <2> DEFINE all == lines[al.key]
  <2>1. al \in AlertRecord(E, C) /\ Window(al, all)
    BY AlertTyped, Zenon
  <2>2. /\ al.key \in Keys /\ al.rule \in Rules /\ al.before \in Seq(E) /\ al.after \in Seq(E)
        /\ al.at \in Nat /\ al.base \in Nat
    BY <2>1, AlertFields, ZenonT(30)
  <2>3. all \in Seq(E)
    BY <2>2, Steady, Zenon
  <2> HIDE DEF all
  <2>4. /\ Before[al.rule] \in Nat /\ Capacity \in Nat /\ Len(all) \in Nat
        /\ Len(al.before) \in Nat /\ Len(al.after) \in Nat
    BY <2>2, <2>3, RuleNumbers, CapacityAssumption
  <2>5. /\ al.base <= al.at /\ al.at + 1 + Len(al.after) <= Len(all)
        /\ Len(al.before) = Least(al.at - al.base, Least(Before[al.rule], Capacity))
        /\ al.trigger = all[al.at + 1] /\ Len(al.after) <= After[al.rule]
        /\ \A i \in 1 .. Len(al.before) : al.before[i] = all[al.at - Len(al.before) + i]
        /\ \A i \in 1 .. Len(al.after) : al.after[i] = all[al.at + 1 + i]
    BY <2>1, Zenon DEF Window
  <2>6. /\ al.at - Len(al.before) \in Nat /\ al.at + 1 \in Nat
        /\ al.at - Len(al.before) + Len(al.before) <= Len(all)
        /\ al.at - Len(al.before) + Len(al.before) = al.at /\ al.at + 1 + 1 = al.at + 2
    <3>1. /\ Len(al.before) = Least(al.at - al.base, Least(Before[al.rule], Capacity))
          /\ al.base <= al.at /\ al.at + 1 + Len(al.after) <= Len(all)
      BY <2>5, Zenon
    <3>2. Len(al.before) <= al.at
      BY <2>2, <2>4, <3>1, SMTT(30) DEF Least
    <3> QED
      <4>1. PICK n \in Nat : n = Len(all)
        BY <2>4, Zenon
      <4>2. PICK b \in Nat : b = Len(al.before)
        BY <2>4, Zenon
      <4>3. PICK f \in Nat : f = Len(al.after)
        BY <2>4, Zenon
      <4>4. PICK at \in Nat : at = al.at
        BY <2>2, Zenon
      <4>5. b <= at /\ at + 1 + f <= n
        BY <3>1, <3>2, <4>1, <4>2, <4>3, <4>4, Zenon
      <4> QED
        BY <4>1, <4>2, <4>4, <4>5, Backwards, Zenon
  <2>7. al.before = SubSeq(all, al.at - Len(al.before) + 1, al.at - Len(al.before) + Len(al.before))
    BY <2>2, <2>3, <2>5, <2>6, Stretch, Zenon
  <2>8. al.after = SubSeq(all, al.at + 1 + 1, al.at + 1 + Len(al.after))
    BY <2>2, <2>3, <2>5, <2>6, Stretch, Zenon
  <2>9. LET had == al.at - al.base
            most == IF Before[al.rule] < Capacity THEN Before[al.rule] ELSE Capacity
        IN  Len(al.before) = IF had < most THEN had ELSE most
    <3>1. /\ Len(al.before) = Least(al.at - al.base, Least(Before[al.rule], Capacity))
          /\ Before[al.rule] \in Nat /\ Capacity \in Nat /\ al.at \in Nat /\ al.base \in Nat
      BY <2>2, <2>4, <2>5, Zenon
    <3> QED
      BY <3>1 DEF Least
  <2> QED
    BY <2>5, <2>6, <2>7, <2>8, <2>9, Zenon DEF all
<1> QED
  BY <1>1, AlwaysIInv, PTL

-----------------------------------------------------------------------------
(* Loops                                                                   *)

\* Every nonempty set of natural numbers has a least element.
LEMMA LeastNatural ==
  ASSUME NEW T, T \subseteq Nat, T # {}
  PROVE  \E x \in T : \A y \in T : x <= y
<1> DEFINE R == { ss \in Nat \X Nat : ss[1] < ss[2] }
<1>1. IsWellFoundedOn(R, Nat)
  BY NatLessThanWellFounded DEF OpToRel
<1>2. PICK x \in T : \A y \in T : ~(<<y, x>> \in R)
  <2> HIDE DEF R
  <2> QED
    BY <1>1, WFMin, Zenon
<1>3. ASSUME NEW y \in T PROVE x <= y
  <2>1. <<y, x>> \in Nat \X Nat /\ ~(<<y, x>> \in R)
    BY <1>2
  <2>2. ~(y < x)
    BY <2>1
  <2> QED
    BY <2>2
<1> QED
  BY <1>3

Turns(V, n) == [1 .. n -> [V -> V]]

Iterates(f, V, n, start, turn) ==
  /\ f \in [0 .. n -> V]
  /\ f[0] = start
  /\ \A i \in 1 .. n : f[i] = turn[i][f[i - 1]]

\* A loop of n turns has a value after each turn.
LEMMA LoopHasValues ==
  ASSUME NEW V, NEW n \in Nat, NEW start \in V, NEW turn \in Turns(V, n)
  PROVE  \E f : Iterates(f, V, n, start, turn)
<1> DEFINE P(m) == \E f \in [0 .. m -> V] :
                     f[0] = start /\ \A i \in 1 .. m : f[i] = turn[i][f[i - 1]]
           B == { m \in 0 .. n : ~P(m) }
<1>1. P(0)
  <2> DEFINE f == [i \in 0 .. 0 |-> start]
  <2>1. f \in [0 .. 0 -> V] /\ f[0] = start /\ \A i \in 1 .. 0 : f[i] = turn[i][f[i - 1]]
    OBVIOUS
  <2> QED
    BY <2>1, Zenon
<1>2. ASSUME NEW m \in 1 .. n, P(m - 1) PROVE P(m)
  <2>1. PICK f \in [0 .. m - 1 -> V] :
          f[0] = start /\ \A i \in 1 .. m - 1 : f[i] = turn[i][f[i - 1]]
    BY <1>2
  <2> DEFINE g == [i \in 0 .. m |-> IF i = m THEN turn[m][f[m - 1]] ELSE f[i]]
  <2>2. m - 1 \in 0 .. m - 1 /\ turn[m] \in [V -> V]
    BY DEF Turns
  <2>3. turn[m][f[m - 1]] \in V
    BY <2>2
  <2>4. g \in [0 .. m -> V]
    BY <2>3
  <2>5. g[0] = start
    BY <2>1
  <2>6. ASSUME NEW i \in 1 .. m PROVE g[i] = turn[i][g[i - 1]]
    <3>1. i - 1 \in 0 .. m /\ i - 1 # m /\ i \in 0 .. m
      OBVIOUS
    <3>2. g[i - 1] = f[i - 1]
      BY <3>1
    <3>3. CASE i = m
      BY <3>1, <3>2, <3>3, SMTT(30)
    <3>4. CASE i # m
      <4>1. g[i] = f[i] /\ i \in 1 .. m - 1
        BY <3>1, <3>4
      <4> QED
        BY <2>1, <3>2, <4>1
    <3> QED
      BY <3>3, <3>4
  <2> HIDE DEF g
  <2> QED
    BY <2>4, <2>5, <2>6
<1> HIDE DEF P
<1>3. ASSUME B # {} PROVE FALSE
  <2>0. B \subseteq Nat
    OBVIOUS
  <2>1. PICK m \in B : \A k \in B : m <= k
    <3> HIDE DEF B
    <3> QED
      BY <1>3, <2>0, LeastNatural, Zenon
  <2>2. m \in 1 .. n /\ m - 1 \in 0 .. n
    BY <1>1
  <2>3. m - 1 \notin B
    BY <2>1, <2>2
  <2> QED
    BY <1>2, <2>2, <2>3
<1>4. P(n)
  BY <1>3
<1> QED
  BY <1>4, Zenon DEF P, Iterates

-----------------------------------------------------------------------------
(* The length of joined lines.                                             *)

Bytes == Seq({0, 1})
Lines == Seq(Bytes)

SumTurn(acc, l, i) == acc + Len(l[i]) + 1

SumLoop(f, l) ==
  f = [i \in 0 .. Len(l) |-> IF i = 0 THEN -1 ELSE SumTurn(f[i - 1], l, i)]

LEMMA JoinedIsLoop ==
  ASSUME NEW l
  PROVE  Joined(l) = (CHOOSE f : SumLoop(f, l))[Len(l)]
BY Zenon DEF Joined, SumLoop, SumTurn

LEMMA SumLoopTurn ==
  ASSUME NEW l, NEW f, SumLoop(f, l), NEW i \in 0 .. Len(l)
  PROVE  f[i] = IF i = 0 THEN -1 ELSE SumTurn(f[i - 1], l, i)
BY Zenon DEF SumLoop

LEMMA SumTurnType ==
  ASSUME NEW l \in Lines, NEW i \in 1 .. Len(l), NEW acc \in Int
  PROVE  SumTurn(acc, l, i) \in Int
<1>1. l[i] \in Bytes
  BY DEF Lines
<1>2. Len(l[i]) \in Nat
  BY <1>1 DEF Bytes
<1> QED
  BY <1>2 DEF SumTurn

LEMMA SumLoopExists ==
  ASSUME NEW l \in Lines
  PROVE  \E f : SumLoop(f, l)
<1> DEFINE n == Len(l)
           turn == [i \in 1 .. n |-> [acc \in Int |-> SumTurn(acc, l, i)]]
<1>1. -1 \in Int
  OBVIOUS
<1>2. ASSUME NEW i \in 1 .. n, NEW acc \in Int PROVE SumTurn(acc, l, i) \in Int
  BY SumTurnType, Zenon
<1>3. turn \in Turns(Int, n)
  BY <1>2, Zenon DEF Turns
<1>4. n \in Nat
  BY DEF Lines
<1> HIDE DEF n, turn
<1>5. PICK f : Iterates(f, Int, n, -1, turn)
  BY <1>1, <1>3, <1>4, LoopHasValues, Zenon
<1>6. ASSUME NEW i \in 0 .. n, i # 0 PROVE f[i] = SumTurn(f[i - 1], l, i)
  <2>1. i \in 1 .. n /\ i - 1 \in 0 .. n
    BY <1>4, <1>6
  <2>2. f[i - 1] \in Int /\ f[i] = turn[i][f[i - 1]]
    BY <1>5, <2>1 DEF Iterates
  <2>3. turn[i] = [acc \in Int |-> SumTurn(acc, l, i)]
    BY <2>1, Zenon DEF turn
  <2> QED
    BY <2>2, <2>3, Zenon
<1>7. f = [i \in 0 .. n |-> IF i = 0 THEN -1 ELSE SumTurn(f[i - 1], l, i)]
  BY <1>5, <1>6, Zenon DEF Iterates
<1> QED
  BY <1>7, Zenon DEF SumLoop, n

\* The loop for given lines.
LEMMA TheSumLoop ==
  ASSUME NEW l \in Lines
  PROVE  \E f : SumLoop(f, l) /\ Joined(l) = f[Len(l)] /\ f[0] = -1 /\ Joined(l) \in Int
<1> DEFINE f == CHOOSE f : SumLoop(f, l)
<1>1. SumLoop(f, l)
  BY SumLoopExists, Zenon
<1>2. Joined(l) = f[Len(l)]
  BY JoinedIsLoop, Zenon
<1> HIDE DEF f
<1>3. 0 \in 0 .. Len(l) /\ Len(l) \in Nat
  BY DEF Lines
<1>4. f[0] = -1
  BY <1>1, <1>3, SumLoopTurn
<1>5. Joined(l) \in Int
  <2> DEFINE B == { i \in 0 .. Len(l) : f[i] \notin Int }
  <2>1. ASSUME B # {} PROVE FALSE
    <3>1. B \subseteq Nat
      OBVIOUS
    <3>2. PICK k \in B : \A y \in B : k <= y
      <4> HIDE DEF B
      <4> QED
        BY <2>1, <3>1, LeastNatural, Zenon
    <3>3. k \in 1 .. Len(l) /\ k - 1 \in 0 .. Len(l) /\ k # 0 /\ k - 1 < k /\ k \in 0 .. Len(l)
      BY <1>3, <1>4
    <3>4. f[k - 1] \in Int
      BY <3>2, <3>3
    <3>5. f[k] = SumTurn(f[k - 1], l, k)
      BY <1>1, <3>3, SumLoopTurn, Zenon
    <3>6. f[k] \in Int
      BY <3>3, <3>4, <3>5, SumTurnType, Zenon
    <3> QED
      BY <3>6
  <2> QED
    BY <1>2, <1>3, <2>1
<1> QED
  BY <1>1, <1>2, <1>4, <1>5, Zenon

\* No lines.
LEMMA JoinedNone == Joined(<<>>) = -1
<1>1. <<>> \in Lines
  BY DEF Lines
<1>2. PICK f : Joined(<<>>) = f[Len(<<>>)] /\ f[0] = -1
  BY <1>1, TheSumLoop, Zenon
<1> QED
  BY <1>2

\* One line more.
LEMMA JoinedAppend ==
  ASSUME NEW l \in Lines, NEW x \in Bytes
  PROVE  /\ Append(l, x) \in Lines /\ Joined(l) \in Int /\ Len(x) \in Nat
         /\ Joined(Append(l, x)) = Joined(l) + Len(x) + 1
<1> DEFINE c == Append(l, x)
           n == Len(l)
<1>1. /\ c \in Lines /\ n \in Nat /\ Len(c) = n + 1 /\ c[n + 1] = x /\ Len(x) \in Nat
      /\ \A j \in 1 .. n : c[j] = l[j]
  BY AppendProperties DEF Lines, Bytes
<1> HIDE DEF c
<1>2. PICK f : SumLoop(f, l) /\ Joined(l) = f[n] /\ f[0] = -1 /\ Joined(l) \in Int
  BY TheSumLoop, Zenon
<1>3. PICK g : SumLoop(g, c) /\ Joined(c) = g[n + 1] /\ g[0] = -1
  BY <1>1, TheSumLoop, Zenon
<1> HIDE DEF n
<1>4. ASSUME NEW i \in 1 .. n, f[i - 1] = g[i - 1] PROVE f[i] = g[i]
  <2>1. i \in 0 .. Len(l) /\ i \in 0 .. Len(c) /\ i # 0
    BY <1>1 DEF n
  <2>2. f[i] = SumTurn(f[i - 1], l, i)
    BY <1>2, <2>1, SumLoopTurn, Zenon
  <2>3. g[i] = SumTurn(g[i - 1], c, i)
    BY <1>3, <2>1, SumLoopTurn, Zenon
  <2> QED
    BY <1>1, <1>4, <2>2, <2>3, Zenon DEF SumTurn
<1>5. f[n] = g[n]
  <2> DEFINE B == { i \in 0 .. n : f[i] # g[i] }
  <2>1. ASSUME B # {} PROVE FALSE
    <3>1. B \subseteq Nat
      OBVIOUS
    <3>2. PICK k \in B : \A y \in B : k <= y
      <4> HIDE DEF B
      <4> QED
        BY <2>1, <3>1, LeastNatural, Zenon
    <3>3. k \in 1 .. n /\ k - 1 \in 0 .. n /\ k - 1 < k
      BY <1>1, <1>2, <1>3
    <3>4. f[k - 1] = g[k - 1]
      BY <3>2, <3>3
    <3> QED
      BY <1>4, <3>3, <3>4
  <2> QED
    BY <1>1, <2>1
<1> DEFINE k == n + 1
<1>6. k \in 0 .. Len(c) /\ k # 0 /\ k - 1 = n /\ Joined(c) = g[k] /\ c[k] = x
  BY <1>1, <1>3
<1> HIDE DEF k
<1>7. g[k] = SumTurn(g[k - 1], c, k)
  BY <1>3, <1>6, SumLoopTurn, Zenon
<1>8. Joined(c) = Joined(l) + Len(x) + 1
  BY <1>2, <1>5, <1>6, <1>7, Zenon DEF SumTurn
<1> QED
  BY <1>1, <1>2, <1>8, Zenon DEF c

IsStretch(u, s, a, b) ==
  /\ Len(u) = IF a <= b THEN b - a + 1 ELSE 0
  /\ \A i \in 1 .. b - a + 1 : u[i] = s[a + i - 1]

\* A stretch of a sequence.
LEMMA PartOf ==
  ASSUME NEW S, NEW s \in Seq(S), NEW a \in Nat \ {0}, NEW b \in 0 .. Len(s)
  PROVE  SubSeq(s, a, b) \in Seq(S) /\ IsStretch(SubSeq(s, a, b), s, a, b)
<1>1. a \in Int /\ b \in Int /\ \A i \in a .. b : s[i] \in S
  OBVIOUS
<1> QED
  BY <1>1, SubSeqProperties DEF IsStretch

\* Two sequences that agree on a stretch have the same stretch.
LEMMA SameStretch ==
  ASSUME NEW S, NEW s \in Seq(S), NEW t \in Seq(S),
         NEW a \in Nat \ {0}, NEW b \in Nat, b <= Len(s), b <= Len(t),
         \A i \in a .. b : s[i] = t[i]
  PROVE  SubSeq(s, a, b) = SubSeq(t, a, b)
<1>1. b \in 0 .. Len(s) /\ b \in 0 .. Len(t)
  OBVIOUS
<1> DEFINE u == SubSeq(s, a, b)
           v == SubSeq(t, a, b)
<1>2. u \in Seq(S) /\ IsStretch(u, s, a, b)
  BY <1>1, PartOf, Zenon
<1>3. v \in Seq(S) /\ IsStretch(v, t, a, b)
  BY <1>1, PartOf, Zenon
<1> HIDE DEF u, v
<1>4. ASSUME NEW i \in 1 .. b - a + 1 PROVE u[i] = v[i]
  <2>1. u[i] = s[a + i - 1] /\ v[i] = t[a + i - 1]
    BY <1>2, <1>3, Zenon DEF IsStretch
  <2>2. a + i - 1 \in a .. b
    OBVIOUS
  <2> QED
    BY <2>1, <2>2, Zenon
<1>5. Len(u) = Len(v) /\ \A i \in 1 .. Len(u) : u[i] = v[i]
  BY <1>2, <1>3, <1>4 DEF IsStretch
<1>6. u = v
  BY <1>2, <1>3, <1>5, SeqEqual
<1> QED
  BY <1>6 DEF u, v


Associates(a, b, c) == a \o (b \o c) = (a \o b) \o c

\* Lines put together.
LEMMA LinesJoin ==
  ASSUME NEW a \in Lines, NEW b \in Lines, NEW c \in Lines
  PROVE  a \o b \in Lines /\ b \o c \in Lines /\ Associates(a, b, c)
BY ConcatProperties, ConcatAssociative DEF Lines, Associates

\* A part of some lines, and the part that is one longer.
LEMMA PartGrows ==
  ASSUME NEW l \in Lines, NEW i \in 1 .. Len(l)
  PROVE  /\ SubSeq(l, 1, i - 1) \in Lines /\ l[i] \in Bytes
         /\ SubSeq(l, 1, i) = Append(SubSeq(l, 1, i - 1), l[i])
<1> DEFINE p == SubSeq(l, 1, i - 1)
<1>1. l \in Seq(Bytes) /\ l[i] \in Bytes /\ 1 \in 1 .. Len(l) /\ 1 \in Nat \ {0} /\ i - 1 \in 0 .. Len(l)
  BY DEF Lines
<1>2. SubSeq(l, 1, i) = p \o <<l[i]>>
  BY <1>1, SubSeqRecursiveSecond
<1>3. p \in Seq(Bytes)
  BY <1>1, PartOf, Zenon
<1>4. Append(p, l[i]) = p \o <<l[i]>>
  BY <1>1, <1>3, AppendIsConcat, Zenon
<1> QED
  BY <1>1, <1>2, <1>3, <1>4, Zenon DEF Lines

\* Between two groups of lines stands one separator.
LEMMA JoinedConcat ==
  ASSUME NEW s \in Lines, NEW t \in Lines
  PROVE  /\ Joined(s) \in Int /\ Joined(t) \in Int
         /\ Joined(s \o t) = Joined(s) + Joined(t) + 1
<1> DEFINE n == Len(t)
           p(i) == SubSeq(t, 1, i)
           Good(i) == Joined(s \o p(i)) = Joined(s) + Joined(p(i)) + 1
           B == { i \in 0 .. n : ~Good(i) }
<1>1. n \in Nat /\ 0 \in 0 .. n
  BY DEF Lines
<1>2. Joined(s) \in Int /\ Joined(t) \in Int
  BY TheSumLoop, Zenon
<1>3. Good(0)
  <2>1. p(0) = <<>>
    BY SubSeqEmpty
  <2>2. s \o <<>> = s
    BY ConcatEmptySeq DEF Lines
  <2>3. Joined(s) = Joined(s) + (-1) + 1
    BY <1>2
  <2> QED
    BY <2>1, <2>2, <2>3, JoinedNone, Zenon
<1>4. ASSUME NEW i \in 1 .. n, Good(i - 1) PROVE Good(i)
  <2> DEFINE q == p(i - 1)
             x == t[i]
  <2>1. q \in Lines /\ x \in Bytes /\ p(i) = Append(q, x)
    BY PartGrows, Zenon
  <2>2. Joined(s \o q) = Joined(s) + Joined(q) + 1
    BY <1>4, Zenon
  <2> HIDE DEF q, x
  <2>3. <<x>> \in Lines
    BY <2>1 DEF Lines
  <2>4. s \o q \in Lines /\ Associates(s, q, <<x>>)
    BY <2>1, <2>3, LinesJoin, Zenon
  <2>5. Append(q, x) = q \o <<x>>
    BY <2>1, AppendIsConcat, Zenon DEF Lines
  <2>6. Append(s \o q, x) = (s \o q) \o <<x>>
    BY <2>1, <2>4, AppendIsConcat, Zenon DEF Lines
  <2>7. s \o p(i) = Append(s \o q, x)
    BY <2>1, <2>4, <2>5, <2>6, Zenon DEF Associates
  <2>8. Joined(q) \in Int /\ Len(x) \in Nat /\ Joined(Append(q, x)) = Joined(q) + Len(x) + 1
    BY <2>1, JoinedAppend, Zenon
  <2>9. Joined(Append(s \o q, x)) = Joined(s \o q) + Len(x) + 1
    BY <2>1, <2>4, JoinedAppend, Zenon
  <2>10. Joined(s \o q) + Len(x) + 1 = Joined(s) + (Joined(q) + Len(x) + 1) + 1
    BY <1>2, <2>2, <2>8
  <2> QED
    BY <2>1, <2>7, <2>8, <2>9, <2>10, Zenon
<1> HIDE DEF Good
<1>5. ASSUME B # {} PROVE FALSE
  <2>0. B \subseteq Nat
    OBVIOUS
  <2>1. PICK m \in B : \A k \in B : m <= k
    <3> HIDE DEF B
    <3> QED
      BY <1>5, <2>0, LeastNatural, Zenon
  <2>2. m \in 1 .. n /\ m - 1 \in 0 .. n
    BY <1>1, <1>3
  <2>3. m - 1 \notin B
    BY <2>1, <2>2
  <2> QED
    BY <1>4, <2>2, <2>3
<1>6. Good(n)
  BY <1>1, <1>5
<1>7. p(n) = t
  BY SubSeqFull DEF Lines
<1> QED
  BY <1>2, <1>6, <1>7, Zenon DEF Good

\* One line.
LEMMA JoinedOne ==
  ASSUME NEW x \in Bytes
  PROVE  <<x>> \in Lines /\ Len(x) \in Nat /\ Joined(<<x>>) = Len(x)
<1>1. <<>> \in Lines /\ <<x>> = Append(<<>>, x) /\ Len(x) \in Nat
  BY DEF Lines, Bytes
<1>2. Append(<<>>, x) \in Lines /\ Joined(Append(<<>>, x)) = Joined(<<>>) + Len(x) + 1
  BY <1>1, JoinedAppend, Zenon
<1>3. -1 + Len(x) + 1 = Len(x)
  BY <1>1
<1> QED
  BY <1>1, <1>2, <1>3, JoinedNone, Zenon

-----------------------------------------------------------------------------
(* The loops of Lines.                                                     *)

FitStart(budget) == [taken |-> <<>>, remaining |-> budget, full |-> FALSE]

FitTurn(acc, l, i) ==
  IF acc.full \/ Len(l[i]) + 1 > acc.remaining
  THEN [acc EXCEPT !.full = TRUE]
  ELSE [acc EXCEPT !.taken = Append(@, l[i]), !.remaining = @ - (Len(l[i]) + 1)]

FitLoop(f, l, budget) ==
  f = [i \in 0 .. Len(l) |-> IF i = 0 THEN FitStart(budget) ELSE FitTurn(f[i - 1], l, i)]

LEMMA FittingIsLoop ==
  ASSUME NEW l, NEW budget
  PROVE  Fitting(l, budget) = (CHOOSE f : FitLoop(f, l, budget))[Len(l)]
BY Zenon DEF Fitting, FitLoop, FitTurn, FitStart

LEMMA FitLoopTurn ==
  ASSUME NEW l, NEW budget, NEW f, FitLoop(f, l, budget), NEW i \in 0 .. Len(l)
  PROVE  f[i] = IF i = 0 THEN FitStart(budget) ELSE FitTurn(f[i - 1], l, i)
BY Zenon DEF FitLoop

LEMMA FitLoopExists ==
  ASSUME NEW l \in Lines, NEW budget \in Int
  PROVE  \E f : FitLoop(f, l, budget)
<1> DEFINE n == Len(l)
           V == [taken : Lines, remaining : Int, full : BOOLEAN]
           turn == [i \in 1 .. n |-> [acc \in V |-> FitTurn(acc, l, i)]]
<1>1. FitStart(budget) \in V
  BY DEF FitStart, Lines
<1>2. ASSUME NEW i \in 1 .. n, NEW acc \in V PROVE FitTurn(acc, l, i) \in V
  <2>1. l[i] \in Bytes /\ acc.taken \in Lines /\ acc.remaining \in Int
    BY DEF Lines
  <2>2. Len(l[i]) \in Nat
    BY <2>1 DEF Bytes
  <2>3. Append(acc.taken, l[i]) \in Lines
    BY <2>1, AppendProperties, Zenon DEF Lines
  <2>4. acc.remaining - (Len(l[i]) + 1) \in Int
    BY <2>1, <2>2
  <2> QED
    BY <2>3, <2>4, Zenon DEF FitTurn
<1>3. turn \in Turns(V, n)
  BY <1>2, Zenon DEF Turns
<1>4. n \in Nat
  BY DEF Lines
<1> HIDE DEF n, turn, V
<1>5. PICK f : Iterates(f, V, n, FitStart(budget), turn)
  BY <1>1, <1>3, <1>4, LoopHasValues, Zenon
<1>6. ASSUME NEW i \in 0 .. n, i # 0 PROVE f[i] = FitTurn(f[i - 1], l, i)
  <2>1. i \in 1 .. n /\ i - 1 \in 0 .. n
    BY <1>4, <1>6
  <2>2. f[i - 1] \in V /\ f[i] = turn[i][f[i - 1]]
    BY <1>5, <2>1 DEF Iterates
  <2>3. turn[i] = [acc \in V |-> FitTurn(acc, l, i)]
    BY <2>1, Zenon DEF turn
  <2> QED
    BY <2>2, <2>3, Zenon
<1>7. f = [i \in 0 .. n |-> IF i = 0 THEN FitStart(budget) ELSE FitTurn(f[i - 1], l, i)]
  BY <1>5, <1>6, Zenon DEF Iterates
<1> QED
  BY <1>7, Zenon DEF FitLoop, n

(* After i turns the first n lines are taken, and either all that were     *)
(* seen or the next one does not fit.                                      *)
Took(acc, l, budget, n, i) ==
  /\ acc.taken = SubSeq(l, 1, n)
  /\ acc.remaining \in Nat
  /\ acc.remaining = budget - (Joined(SubSeq(l, 1, n)) + 1)
  /\ acc.full \in BOOLEAN
  /\ IF acc.full THEN n < i /\ Len(l[n + 1]) + 1 > acc.remaining ELSE n = i

HasTaken(acc, l, budget, i) ==
  acc \in [taken : Lines, remaining : Int, full : BOOLEAN]
  /\ \E n \in 0 .. i : Took(acc, l, budget, n, i)

LEMMA FitTurnTakes ==
  ASSUME NEW l \in Lines, NEW budget \in Nat, NEW i \in 1 .. Len(l), NEW acc,
         HasTaken(acc, l, budget, i - 1)
  PROVE  HasTaken(FitTurn(acc, l, i), l, budget, i)
<1> DEFINE V == [taken : Lines, remaining : Int, full : BOOLEAN]
           r == FitTurn(acc, l, i)
<1>1. acc \in V
  BY DEF HasTaken
<1>2. PICK n \in 0 .. i - 1 : Took(acc, l, budget, n, i - 1)
  BY DEF HasTaken
<1>3. n \in 0 .. i /\ i \in 0 .. i /\ i \in Nat /\ n \in Nat
  OBVIOUS
<1>4. /\ SubSeq(l, 1, i - 1) \in Lines /\ l[i] \in Bytes
      /\ SubSeq(l, 1, i) = Append(SubSeq(l, 1, i - 1), l[i])
  BY PartGrows, Zenon
<1>5. Len(l[i]) \in Nat
  BY <1>4 DEF Bytes
<1>6. CASE acc.full \/ Len(l[i]) + 1 > acc.remaining
  <2>1. r = [acc EXCEPT !.full = TRUE]
    BY <1>6, Zenon DEF FitTurn
  <2>2. r \in V /\ r.taken = acc.taken /\ r.remaining = acc.remaining /\ r.full = TRUE
    BY <1>1, <2>1, Zenon
  <2>3. n < i /\ Len(l[n + 1]) + 1 > acc.remaining
    <3>1. CASE acc.full
      BY <1>2, <1>3, <3>1 DEF Took
    <3>2. CASE ~acc.full
      <4>1. n = i - 1
        BY <1>2, <3>2 DEF Took
      <4>2. n < i /\ n + 1 = i
        BY <4>1
      <4> QED
        BY <1>6, <3>2, <4>2, Zenon
    <3> QED
      BY <3>1, <3>2
  <2>4. Took(r, l, budget, n, i)
    BY <1>2, <2>2, <2>3 DEF Took
  <2> QED
    BY <1>3, <2>2, <2>4, Zenon DEF HasTaken
<1>7. CASE ~(acc.full \/ Len(l[i]) + 1 > acc.remaining)
  <2>1. r = [acc EXCEPT !.taken = Append(@, l[i]), !.remaining = @ - (Len(l[i]) + 1)]
    BY <1>7, Zenon DEF FitTurn
  <2>2. Append(acc.taken, l[i]) \in Lines
    BY <1>1, <1>4, AppendProperties DEF Lines
  <2>3. /\ r \in V /\ r.taken = Append(acc.taken, l[i]) /\ r.full = acc.full
        /\ r.remaining = acc.remaining - (Len(l[i]) + 1)
    <3>1. acc.remaining - (Len(l[i]) + 1) \in Int
      BY <1>1, <1>5
    <3> DEFINE m == acc.remaining - (Len(l[i]) + 1)
               s == Append(acc.taken, l[i])
    <3>2. r = [acc EXCEPT !.taken = s, !.remaining = m]
      BY <2>1, Zenon
    <3> HIDE DEF m, s, r
    <3>3. m \in Int /\ s \in Lines
      BY <2>2, <3>1, Zenon DEF m, s
    <3>4. r \in V /\ r.taken = s /\ r.full = acc.full /\ r.remaining = m
      BY <1>1, <3>2, <3>3, Zenon
    <3> QED
      BY <3>4, Zenon DEF m, s
  <2>4. n = i - 1 /\ acc.full = FALSE /\ acc.taken = SubSeq(l, 1, i - 1) /\ acc.remaining \in Nat
        /\ acc.remaining = budget - (Joined(SubSeq(l, 1, i - 1)) + 1)
    BY <1>2, <1>7 DEF Took
  <2>5. /\ Joined(SubSeq(l, 1, i - 1)) \in Int
        /\ Joined(SubSeq(l, 1, i)) = Joined(SubSeq(l, 1, i - 1)) + Len(l[i]) + 1
    BY <1>4, JoinedAppend, Zenon
  <2>6. r.remaining \in Nat /\ r.remaining = budget - (Joined(SubSeq(l, 1, i)) + 1)
    <3> DEFINE m == r.remaining
               a == acc.remaining
               y == Len(l[i])
               p == Joined(SubSeq(l, 1, i - 1))
               q == Joined(SubSeq(l, 1, i))
    <3>1. m = a - (y + 1) /\ a = budget - (p + 1) /\ q = p + y + 1
      BY <2>3, <2>4, <2>5, Zenon
    <3>2. y \in Nat /\ a \in Nat /\ p \in Int /\ ~(y + 1 > a)
      BY <1>5, <1>7, <2>4, <2>5, Zenon
    <3> HIDE DEF m, a, y, p, q
    <3>3. m \in Nat /\ m = budget - (q + 1)
      BY <3>1, <3>2
    <3> QED
      BY <3>3, Zenon DEF m, q
  <2>7. r.taken = SubSeq(l, 1, i)
    BY <1>4, <2>3, <2>4, Zenon
  <2>8. Took(r, l, budget, i, i)
    BY <2>3, <2>4, <2>6, <2>7, Zenon DEF Took
  <2> QED
    BY <1>3, <2>3, <2>8, Zenon DEF HasTaken
<1> QED
  BY <1>6, <1>7

\* The loop takes the longest run that fits.
LEMMA FittingTakes ==
  ASSUME NEW l \in Lines, NEW budget \in Nat
  PROVE  \E n \in 0 .. Len(l) : Took(Fitting(l, budget), l, budget, n, Len(l))
<1> DEFINE f == CHOOSE f : FitLoop(f, l, budget)
           n == Len(l)
           Good(i) == HasTaken(f[i], l, budget, i)
           B == { i \in 0 .. n : ~Good(i) }
<1>1. n \in Nat /\ 0 \in 0 .. n /\ budget \in Int
  BY DEF Lines
<1>2. FitLoop(f, l, budget)
  BY <1>1, FitLoopExists, Zenon
<1>3. Fitting(l, budget) = f[n]
  BY FittingIsLoop, Zenon
<1> HIDE DEF f
<1>4. Good(0)
  <2>1. f[0] = FitStart(budget)
    BY <1>1, <1>2, FitLoopTurn
  <2>2. SubSeq(l, 1, 0) = <<>> /\ <<>> \in Lines
    BY SubSeqEmpty DEF Lines
  <2>3. budget - (Joined(<<>>) + 1) = budget /\ 0 \in 0 .. 0
    BY JoinedNone
  <2>4. /\ f[0] \in [taken : Lines, remaining : Int, full : BOOLEAN]
        /\ f[0].taken = <<>> /\ f[0].remaining = budget /\ f[0].full = FALSE
    BY <2>1, <2>2 DEF FitStart
  <2>5. Took(f[0], l, budget, 0, 0)
    BY <2>2, <2>3, <2>4, Zenon DEF Took
  <2> QED
    BY <2>3, <2>4, <2>5, Zenon DEF HasTaken
<1>5. ASSUME NEW i \in 1 .. n, Good(i - 1) PROVE Good(i)
  <2>1. i \in 0 .. Len(l) /\ i # 0
    BY <1>1
  <2>2. f[i] = FitTurn(f[i - 1], l, i)
    BY <1>2, <2>1, FitLoopTurn
  <2> QED
    BY <1>5, <2>2, FitTurnTakes, Zenon
<1> HIDE DEF Good
<1>6. ASSUME B # {} PROVE FALSE
  <2>0. B \subseteq Nat
    OBVIOUS
  <2>1. PICK m \in B : \A k \in B : m <= k
    <3> HIDE DEF B
    <3> QED
      BY <1>6, <2>0, LeastNatural, Zenon
  <2>2. m \in 1 .. n /\ m - 1 \in 0 .. n
    BY <1>1, <1>4
  <2>3. m - 1 \notin B
    BY <2>1, <2>2
  <2> QED
    BY <1>5, <2>2, <2>3
<1>7. Good(n)
  BY <1>1, <1>6
<1> QED
  BY <1>3, <1>7, Zenon DEF Good, HasTaken

(* The last n lines.                                                       *)
Tailing(l, n) == SubSeq(l, Len(l) - n + 1, Len(l))

LEMMA TailingType ==
  ASSUME NEW l \in Lines, NEW n \in 0 .. Len(l)
  PROVE  /\ Tailing(l, n) \in Lines /\ Len(Tailing(l, n)) = n
         /\ \A i \in 1 .. n : Tailing(l, n)[i] = l[Len(l) - n + i]
<1> DEFINE a == Len(l) - n + 1
           b == Len(l)
           u == Tailing(l, n)
<1>1. l \in Seq(Bytes) /\ a \in Nat \ {0} /\ b \in 0 .. Len(l) /\ Len(l) \in Nat
  BY DEF Lines
<1>2. u \in Seq(Bytes) /\ IsStretch(u, l, a, b)
  BY <1>1, PartOf, Zenon DEF Tailing
<1> HIDE DEF u
<1>3. Len(u) = n
  BY <1>1, <1>2 DEF IsStretch
<1>4. ASSUME NEW i \in 1 .. n PROVE u[i] = l[Len(l) - n + i]
  <2>1. i \in 1 .. b - a + 1 /\ a + i - 1 = Len(l) - n + i
    BY <1>1
  <2> QED
    BY <1>2, <2>1 DEF IsStretch
<1> QED
  BY <1>2, <1>3, <1>4 DEF u, Lines

\* One line more at the front.
LEMMA TailingGrows ==
  ASSUME NEW l \in Lines, NEW n \in 1 .. Len(l)
  PROVE  /\ Tailing(l, n - 1) \in Lines /\ l[Len(l) - n + 1] \in Bytes
         /\ Joined(Tailing(l, n - 1)) \in Int /\ Len(l[Len(l) - n + 1]) \in Nat
         /\ Joined(Tailing(l, n)) = Joined(Tailing(l, n - 1)) + Len(l[Len(l) - n + 1]) + 1
<1> DEFINE m == Len(l) - n + 1
           x == l[m]
           s == Tailing(l, n - 1)
<1>1. l \in Seq(Bytes) /\ Len(l) \in Nat /\ m \in 1 .. Len(l) /\ Len(l) \in m .. Len(l)
      /\ m + 1 = Len(l) - (n - 1) + 1 /\ n - 1 \in 0 .. Len(l) /\ x \in Bytes
  BY DEF Lines
<1>2. SubSeq(l, m, Len(l)) = <<l[m]>> \o SubSeq(l, m + 1, Len(l))
  BY <1>1, SubSeqRecursiveFirst
<1>3. s \in Lines
  BY <1>1, TailingType, Zenon
<1>4. Tailing(l, n) = <<x>> \o s
  BY <1>1, <1>2, Zenon DEF Tailing
<1> HIDE DEF x, s, m
<1>5. <<x>> \in Lines /\ Len(x) \in Nat /\ Joined(<<x>>) = Len(x)
  BY <1>1, JoinedOne, Zenon
<1>6. Joined(s) \in Int /\ Joined(<<x>> \o s) = Joined(<<x>>) + Joined(s) + 1
  BY <1>3, <1>5, JoinedConcat, Zenon
<1>7. Joined(Tailing(l, n)) = Joined(s) + Len(x) + 1
  BY <1>4, <1>5, <1>6
<1> QED
  BY <1>1, <1>3, <1>5, <1>6, <1>7, Zenon DEF x, s, m

LEMMA BackwardType ==
  ASSUME NEW l \in Lines
  PROVE  /\ Backward(l) \in Lines /\ Len(Backward(l)) = Len(l)
         /\ \A i \in 1 .. Len(l) : Backward(l)[i] = l[Len(l) - i + 1]
<1>1. l \in Seq(Bytes) /\ Len(l) \in Nat
  BY DEF Lines
<1>2. ASSUME NEW i \in 1 .. Len(l) PROVE l[Len(l) - i + 1] \in Bytes
  BY <1>1
<1> DEFINE b == Backward(l)
           n == Len(l)
<1>3. b \in [1 .. n -> Bytes] /\ \A i \in 1 .. n : b[i] = l[n - i + 1]
  BY <1>2, Zenon DEF Backward
<1> HIDE DEF b, n
<1>4. n \in Nat
  BY <1>1 DEF n
<1>5. b \in Seq(Bytes) /\ Len(b) = n
  BY <1>3, <1>4
<1> QED
  BY <1>3, <1>5, Zenon DEF b, n, Lines

\* The lines taken backwards are, turned round, the last ones, and as long.
LEMMA BackwardTakes ==
  ASSUME NEW l \in Lines, NEW n \in 0 .. Len(l)
  PROVE  /\ Backward(SubSeq(Backward(l), 1, n)) = Tailing(l, n)
         /\ Joined(SubSeq(Backward(l), 1, n)) = Joined(Tailing(l, n))
<1> DEFINE k == Backward(l)
           p(i) == SubSeq(k, 1, i)
           Good(i) == Joined(p(i)) = Joined(Tailing(l, i))
           B == { i \in 0 .. Len(l) : ~Good(i) }
<1>1. /\ k \in Lines /\ Len(k) = Len(l) /\ Len(l) \in Nat
      /\ \A i \in 1 .. Len(l) : k[i] = l[Len(l) - i + 1]
  BY BackwardType DEF Lines
<1> HIDE DEF k
<1>2. Backward(p(n)) = Tailing(l, n)
  <2> DEFINE q == p(n)
             u == Backward(q)
             v == Tailing(l, n)
  <2>1. n \in 0 .. Len(k) /\ 1 \in Nat \ {0} /\ k \in Seq(Bytes) /\ n \in Nat
    BY <1>1 DEF Lines
  <2>2. q \in Seq(Bytes) /\ IsStretch(q, k, 1, n)
    BY <2>1, PartOf, Zenon
  <2> HIDE DEF q
  <2>3. Len(q) = n /\ \A i \in 1 .. n : q[i] = k[i]
    BY <2>1, <2>2 DEF IsStretch
  <2>4. u \in Lines /\ Len(u) = n /\ \A i \in 1 .. n : u[i] = q[n - i + 1]
    BY <2>2, <2>3, BackwardType DEF Lines
  <2>5. v \in Lines /\ Len(v) = n /\ \A i \in 1 .. n : v[i] = l[Len(l) - n + i]
    BY TailingType, Zenon
  <2> HIDE DEF u, v
  <2>6. ASSUME NEW i \in 1 .. n PROVE u[i] = v[i]
    <3>1. n - i + 1 \in 1 .. n /\ n - i + 1 \in 1 .. Len(l) /\ Len(l) - (n - i + 1) + 1 = Len(l) - n + i
      BY <1>1, <2>1
    <3>2. u[i] = q[n - i + 1] /\ q[n - i + 1] = k[n - i + 1]
      BY <2>3, <2>4, <3>1
    <3>3. k[n - i + 1] = l[Len(l) - (n - i + 1) + 1]
      BY <1>1, <3>1, Zenon
    <3> QED
      BY <2>5, <3>1, <3>2, <3>3
  <2>7. u = v
    BY <2>4, <2>5, <2>6, SeqEqual DEF Lines
  <2> QED
    BY <2>7, Zenon DEF u, v, q
<1>3. Good(0)
  <2>1. p(0) = <<>>
    BY SubSeqEmpty
  <2>2. Tailing(l, 0) = <<>>
    BY <1>1, SubSeqEmpty DEF Tailing
  <2> QED
    BY <2>1, <2>2, Zenon
<1>4. ASSUME NEW i \in 1 .. Len(l), Good(i - 1) PROVE Good(i)
  <2>1. i \in 1 .. Len(k)
    BY <1>1
  <2>2. p(i - 1) \in Lines /\ k[i] \in Bytes /\ p(i) = Append(p(i - 1), k[i])
    BY <1>1, <2>1, PartGrows, Zenon
  <2>3. Joined(p(i)) = Joined(p(i - 1)) + Len(k[i]) + 1
    BY <2>2, JoinedAppend, Zenon
  <2>4. k[i] = l[Len(l) - i + 1]
    BY <1>1
  <2>5. Joined(Tailing(l, i)) = Joined(Tailing(l, i - 1)) + Len(l[Len(l) - i + 1]) + 1
    BY TailingGrows, Zenon
  <2> QED
    BY <1>4, <2>3, <2>4, <2>5, Zenon
<1> HIDE DEF Good
<1>5. ASSUME B # {} PROVE FALSE
  <2>0. B \subseteq Nat
    OBVIOUS
  <2>1. PICK m \in B : \A j \in B : m <= j
    <3> HIDE DEF B
    <3> QED
      BY <1>5, <2>0, LeastNatural, Zenon
  <2>2. m \in 1 .. Len(l) /\ m - 1 \in 0 .. Len(l)
    BY <1>1, <1>3
  <2>3. m - 1 \notin B
    BY <2>1, <2>2
  <2> QED
    BY <1>4, <2>2, <2>3
<1>6. Good(n)
  BY <1>1, <1>5
<1> QED
  BY <1>2, <1>6, Zenon DEF Good, k

-----------------------------------------------------------------------------
(* truncateUTF8.                                                           *)

CutsAt(line, maxBytes, k) ==
  /\ k = 0 \/ isUTF8Boundary(line, k)
  /\ \A j \in k + 1 .. maxBytes : ~isUTF8Boundary(line, j)

\* A line that is too long is cut at its last boundary in reach.
LEMMA TruncateCuts ==
  ASSUME NEW line \in Bytes, NEW maxBytes \in Nat, maxBytes < Len(line)
  PROVE  \E k \in 0 .. maxBytes :
           /\ truncateUTF8(line, maxBytes) = SubSeq(line, 1, k)
           /\ k = 0 \/ line[k + 1] = 1
           /\ \A j \in k + 1 .. maxBytes : line[j + 1] = 0
<1> DEFINE B == { d \in 0 .. maxBytes : maxBytes - d = 0 \/ isUTF8Boundary(line, maxBytes - d) }
<1>1. \E k \in 0 .. maxBytes : CutsAt(line, maxBytes, k)
  <2>1. B \subseteq Nat /\ B # {}
    <3>1. maxBytes \in B
      OBVIOUS
    <3> QED
      BY <3>1
  <2>2. PICK d \in B : \A y \in B : d <= y
    <3> HIDE DEF B
    <3> QED
      BY <2>1, LeastNatural, Zenon
  <2>3. maxBytes - d \in 0 .. maxBytes /\ (maxBytes - d = 0 \/ isUTF8Boundary(line, maxBytes - d))
    OBVIOUS
  <2>4. ASSUME NEW j \in maxBytes - d + 1 .. maxBytes, isUTF8Boundary(line, j) PROVE FALSE
    <3>1. maxBytes - j \in 0 .. maxBytes /\ maxBytes - (maxBytes - j) = j /\ maxBytes - j < d
      BY <2>3
    <3>2. maxBytes - j \in B
      BY <2>4, <3>1
    <3> QED
      BY <2>2, <3>1, <3>2
  <2>5. CutsAt(line, maxBytes, maxBytes - d)
    BY <2>3, <2>4 DEF CutsAt
  <2> QED
    BY <2>3, <2>5
<1> DEFINE k == CHOOSE k \in 0 .. maxBytes : CutsAt(line, maxBytes, k)
<1>2. k \in 0 .. maxBytes /\ CutsAt(line, maxBytes, k)
  BY <1>1, Zenon
<1>3. ~(Len(line) <= maxBytes) /\ line \in Seq({0, 1}) /\ Len(line) \in Nat
  BY DEF Bytes
<1>4. truncateUTF8(line, maxBytes) = SubSeq(line, 1, k)
  BY <1>3, Zenon DEF truncateUTF8, CutsAt
<1> HIDE DEF k
<1>5. ASSUME NEW j \in 0 .. maxBytes
      PROVE  j # Len(line) /\ line[j + 1] \in {0, 1}
             /\ (isUTF8Boundary(line, j) <=> line[j + 1] = 1)
  <2>1. j # Len(line) /\ line[j + 1] \in {0, 1}
    BY <1>3
  <2> QED
    BY <2>1 DEF isUTF8Boundary
<1>6. k = 0 \/ line[k + 1] = 1
  BY <1>2, <1>5 DEF CutsAt
<1>7. ASSUME NEW j \in k + 1 .. maxBytes PROVE line[j + 1] = 0
  <2>1. j \in 0 .. maxBytes
    BY <1>2
  <2>2. ~isUTF8Boundary(line, j)
    BY <1>2 DEF CutsAt
  <2> QED
    BY <1>5, <2>1, <2>2
<1> QED
  BY <1>2, <1>4, <1>6, <1>7

-----------------------------------------------------------------------------
(* Capture.Lines.                                                          *)

\* What the two loops leave over is what the lines, joined, leave of the limit.
LEMMA CaptureBudget ==
  ASSUME NEW before \in Lines, NEW trigger \in Bytes, NEW after \in Lines,
         NEW max \in Nat, Len(trigger) < max
  PROVE  \E i \in 0 .. Len(before), j \in 0 .. Len(after) :
           LET out == (Tailing(before, i) \o <<trigger>>) \o SubSeq(after, 1, j)
           IN /\ CaptureLines(before, trigger, after, max) = out
              /\ Joined(out) <= max
              /\ i < Len(before) => Joined(Tailing(before, i + 1) \o <<trigger>>) > max
              /\ j < Len(after) =>
                   Joined((Tailing(before, i) \o <<trigger>>) \o SubSeq(after, 1, j + 1)) > max
<1> DEFINE k == Backward(before)
           t == Len(trigger)
           near == Fitting(k, max - t)
           rest == Fitting(after, near.remaining)
<1>1. /\ before \in Seq(Bytes) /\ Len(before) \in Nat /\ after \in Seq(Bytes) /\ Len(after) \in Nat
      /\ t \in Nat /\ max - t \in Nat /\ 1 \in Nat \ {0}
  BY DEF Lines, Bytes
<1>2. k \in Lines /\ Len(k) = Len(before) /\ \A i \in 1 .. Len(before) : k[i] = before[Len(before) - i + 1]
  BY BackwardType, Zenon
<1>3. CaptureLines(before, trigger, after, max) = Backward(near.taken) \o <<trigger>> \o rest.taken
  <2>1. ~(max <= 0) /\ ~(max > 0 /\ Len(trigger) >= max)
    BY <1>1
  <2> QED
    BY <2>1, Zenon DEF CaptureLines
<1> HIDE DEF k
<1>4. PICK i \in 0 .. Len(before) : Took(near, k, max - t, i, Len(before))
  BY <1>1, <1>2, FittingTakes, Zenon
<1> HIDE DEF near
<1>5. near.remaining \in Nat
  BY <1>4 DEF Took
<1>6. PICK j \in 0 .. Len(after) : Took(rest, after, near.remaining, j, Len(after))
  BY <1>5, FittingTakes, Zenon
<1> HIDE DEF rest
<1> DEFINE b == Tailing(before, i)
           c == b \o <<trigger>>
           a == SubSeq(after, 1, j)
<1>7. b \in Lines /\ near.taken = SubSeq(k, 1, i) /\ Backward(near.taken) = b
      /\ Joined(SubSeq(k, 1, i)) = Joined(b)
  <2>1. near.taken = SubSeq(k, 1, i)
    BY <1>4 DEF Took
  <2>2. Backward(SubSeq(k, 1, i)) = b /\ Joined(SubSeq(k, 1, i)) = Joined(b)
    BY BackwardTakes, Zenon DEF k
  <2>3. b \in Lines
    BY TailingType, Zenon
  <2> QED
    BY <2>1, <2>2, <2>3, Zenon
<1>8. a \in Lines /\ rest.taken = a
  <2>1. a \in Seq(Bytes)
    BY <1>1, PartOf, Zenon
  <2> QED
    BY <1>6, <2>1 DEF Took, Lines
<1> HIDE DEF b, a
<1>9. <<trigger>> \in Lines /\ Joined(<<trigger>>) = t
  BY JoinedOne, Zenon
<1>10. c \in Lines
  BY <1>7, <1>9, LinesJoin, Zenon
<1>11. Joined(b) \in Int /\ Joined(c) = Joined(b) + t + 1
  BY <1>7, <1>9, JoinedConcat, Zenon
<1>12. Joined(a) \in Int /\ Joined(c \o a) = Joined(c) + Joined(a) + 1
  BY <1>8, <1>10, JoinedConcat, Zenon
<1>13. CaptureLines(before, trigger, after, max) = c \o a
  BY <1>3, <1>7, <1>8, Zenon
<1>14. near.remaining = max - t - (Joined(b) + 1)
  BY <1>4, <1>7 DEF Took
<1>15. rest.remaining \in Nat /\ rest.remaining = near.remaining - (Joined(a) + 1)
  BY <1>6, Zenon DEF Took, a
<1> HIDE DEF c, t
<1> DEFINE jb == Joined(b)
           jc == Joined(c)
           ja == Joined(a)
           jca == Joined(c \o a)
           nr == near.remaining
           rr == rest.remaining
<1>n. /\ jb \in Int /\ ja \in Int /\ nr \in Nat /\ rr \in Nat /\ t \in Nat
      /\ jc = jb + t + 1 /\ jca = jc + ja + 1 /\ nr = max - t - (jb + 1) /\ rr = nr - (ja + 1)
  BY <1>1, <1>5, <1>11, <1>12, <1>14, <1>15, Zenon
<1> HIDE DEF jb, jc, ja, jca, nr, rr
<1>16. jca <= max
  BY <1>n
<1>17. ASSUME i < Len(before) PROVE Joined(Tailing(before, i + 1) \o <<trigger>>) > max
  <2> DEFINE x == before[Len(before) - (i + 1) + 1]
             d == Tailing(before, i + 1)
             y == Len(x)
             m == i + 1
             jd == Joined(d)
             jdt == Joined(d \o <<trigger>>)
  <2>1. m \in 1 .. Len(before) /\ m - 1 = i /\ m \in 0 .. Len(before) /\ i # Len(before)
    BY <1>1, <1>17
  <2>0. Len(before[Len(before) - m + 1]) \in Nat
        /\ Joined(Tailing(before, m)) = Joined(b) + Len(before[Len(before) - m + 1]) + 1
    <3> HIDE DEF m
    <3>1. Len(before[Len(before) - m + 1]) \in Nat
          /\ Joined(Tailing(before, m)) = Joined(Tailing(before, m - 1)) + Len(before[Len(before) - m + 1]) + 1
      BY <2>1, TailingGrows, Zenon
    <3> QED
      BY <2>1, <3>1, Zenon DEF b
  <2>2. d \in Lines
    BY <2>1, TailingType, Zenon
  <2>3. y \in Nat /\ jd = jb + y + 1
    BY <2>0, Zenon DEF jb
  <2>4. k[i + 1] = x
    BY <1>2, <2>1, Zenon
  <2>5. near.full /\ Len(k[i + 1]) + 1 > near.remaining
    BY <1>4, <2>1, Zenon DEF Took
  <2>6. y + 1 > nr
    BY <2>4, <2>5, Zenon DEF nr
  <2> HIDE DEF x, d, y
  <2>7. jdt = jd + t + 1
    BY <1>9, <2>2, JoinedConcat, Zenon
  <2> HIDE DEF jd, jdt
  <2>8. jdt > max
    BY <1>n, <2>3, <2>6, <2>7
  <2> QED
    BY <2>8, Zenon DEF d, jdt
<1>18. ASSUME j < Len(after) PROVE Joined(c \o SubSeq(after, 1, j + 1)) > max
  <2> DEFINE x == after[j + 1]
             d == SubSeq(after, 1, j + 1)
             y == Len(x)
             m == j + 1
             jd == Joined(d)
             jcd == Joined(c \o d)
  <2>1. m \in 1 .. Len(after) /\ m - 1 = j /\ m \in 0 .. Len(after) /\ j # Len(after)
    BY <1>1, <1>18
  <2>2. after[m] \in Bytes /\ SubSeq(after, 1, m) = Append(a, after[m])
    <3> HIDE DEF m
    <3>1. after[m] \in Bytes /\ SubSeq(after, 1, m) = Append(SubSeq(after, 1, m - 1), after[m])
      BY <2>1, PartGrows, Zenon
    <3> QED
      BY <2>1, <3>1, Zenon DEF a
  <2>3. rest.full /\ y + 1 > rr
    BY <1>6, <2>1, Zenon DEF Took, rr
  <2>c. x \in Bytes /\ d = Append(a, x)
    BY <2>2, Zenon
  <2> HIDE DEF x, d, y
  <2>4. d \in Lines /\ Len(x) \in Nat /\ Joined(d) = Joined(a) + Len(x) + 1
    BY <1>8, <2>c, JoinedAppend, Zenon
  <2>5. jcd = jc + jd + 1
    BY <1>10, <2>4, JoinedConcat, Zenon DEF jc
  <2>6. y \in Nat /\ jd = ja + y + 1
    BY <2>4, Zenon DEF y, ja
  <2> HIDE DEF jd, jcd
  <2>7. jcd > max
    BY <1>n, <2>3, <2>5, <2>6
  <2> QED
    BY <2>7, Zenon DEF d, jcd
<1> QED
  BY <1>13, <1>16, <1>17, <1>18, Zenon DEF a, b, c, jca

\* Capture.Lines keeps the promise of its comment.
LEMMA CaptureLinesExact ==
  ASSUME NEW before \in Lines, NEW trigger \in Bytes, NEW after \in Lines, NEW max \in Nat \ {0}
  PROVE  Promised(CaptureLines(before, trigger, after, max), before, trigger, after, max)
<1> DEFINE out == CaptureLines(before, trigger, after, max)
<1>1. /\ Len(trigger) \in Nat /\ trigger \in Seq({0, 1}) /\ Len(before) \in Nat /\ Len(after) \in Nat
      /\ max \in Nat /\ 0 < max
  BY DEF Lines, Bytes
<1>2. <<trigger>> \in Lines /\ Joined(<<trigger>>) = Len(trigger)
  BY JoinedOne, Zenon
<1>3. CASE Len(trigger) > max
  <2>1. max < Len(trigger) /\ ~(max <= 0) /\ max > 0 /\ Len(trigger) >= max
    BY <1>1, <1>3
  <2>2. out = <<truncateUTF8(trigger, max)>>
    BY <2>1 DEF CaptureLines
  <2>3. PICK k \in 0 .. max :
          /\ truncateUTF8(trigger, max) = SubSeq(trigger, 1, k)
          /\ k = 0 \/ trigger[k + 1] = 1
          /\ \A j \in k + 1 .. max : trigger[j + 1] = 0
    BY <1>1, <2>1, TruncateCuts, Zenon
  <2> DEFINE s == SubSeq(trigger, 1, k)
  <2>4. 1 \in Nat \ {0} /\ k \in 0 .. Len(trigger)
    BY <1>1, <1>3
  <2>5. s \in Seq({0, 1}) /\ IsStretch(s, trigger, 1, k)
    BY <1>1, <2>4, PartOf, Zenon
  <2> HIDE DEF s
  <2>6. Len(s) <= max
    BY <1>1, <2>5 DEF IsStretch
  <2>7. Joined(<<s>>) = Len(s)
    BY <2>5, JoinedOne, Zenon DEF Bytes
  <2>8. out = <<s>>
    BY <2>2, <2>3, Zenon DEF s
  <2> HIDE DEF out
  <2>9. Joined(out) <= max
    BY <2>6, <2>7, <2>8, Zenon
  <2> QED
    BY <1>3, <2>3, <2>8, <2>9, Zenon DEF Promised, s, out
<1>4. ASSUME ~(Len(trigger) > max),
             NEW i \in 0 .. Len(before), NEW j \in 0 .. Len(after),
             LET l == (Tailing(before, i) \o <<trigger>>) \o SubSeq(after, 1, j)
             IN /\ out = l
                /\ Joined(l) <= max
                /\ i < Len(before) => Joined(Tailing(before, i + 1) \o <<trigger>>) > max
                /\ j < Len(after) =>
                     Joined((Tailing(before, i) \o <<trigger>>) \o SubSeq(after, 1, j + 1)) > max
      PROVE  Promised(out, before, trigger, after, max)
  <2> HIDE DEF out
  <2> QED
    BY <1>4, Zenon DEF Promised, Tailing
<1>5. CASE Len(trigger) < max
  <2>1. ~(Len(trigger) > max)
    BY <1>1, <1>5
  <2> QED
    BY <1>1, <1>4, <1>5, <2>1, CaptureBudget, Zenon
<1>6. CASE Len(trigger) = max
  <2>1. ~(Len(trigger) > max) /\ ~(max <= 0) /\ max > 0 /\ Len(trigger) >= max /\ Len(trigger) <= max
        /\ 0 \in 0 .. Len(before) /\ 0 \in 0 .. Len(after) /\ 0 + 1 = 1 /\ 1 - 1 = 0
    BY <1>1, <1>6
  <2>2. out = <<trigger>>
    BY <2>1 DEF CaptureLines, truncateUTF8
  <2> DEFINE t == <<trigger>>
             l == (Tailing(before, 0) \o t) \o SubSeq(after, 1, 0)
  <2>3. Tailing(before, 0) = <<>> /\ SubSeq(after, 1, 0) = <<>>
    BY <1>1, SubSeqEmpty DEF Tailing
  <2>4. <<>> \o t = t /\ t \o <<>> = t
    BY <1>2, ConcatEmptySeq, Zenon DEF Lines
  <2>5. Tailing(before, 0) \o t = t /\ l = t
    BY <2>3, <2>4, Zenon
  <2>6. ASSUME 0 < Len(before) PROVE Joined(Tailing(before, 1) \o t) > max
    <3> DEFINE d == Tailing(before, 1)
               x == Len(before[Len(before) - 1 + 1])
    <3>1. 1 \in 1 .. Len(before) /\ 1 \in 0 .. Len(before)
      BY <1>1, <2>6
    <3>2. d \in Lines
      BY <3>1, TailingType, Zenon
    <3>3. x \in Nat /\ Joined(d) = Joined(<<>>) + x + 1
      BY <2>1, <2>3, <3>1, TailingGrows, Zenon
    <3> HIDE DEF d, x
    <3>4. Joined(d \o t) = Joined(d) + Joined(t) + 1
      BY <1>2, <3>2, JoinedConcat, Zenon
    <3>5. Joined(d) = x
      BY <3>3, JoinedNone
    <3>6. Joined(d \o t) > max
      BY <1>1, <1>2, <1>6, <3>3, <3>4, <3>5
    <3> QED
      BY <3>6, Zenon DEF d
  <2>7. ASSUME 0 < Len(after) PROVE Joined(t \o SubSeq(after, 1, 1)) > max
    <3> DEFINE d == SubSeq(after, 1, 1)
               x == after[1]
    <3>1. 1 \in 1 .. Len(after)
      BY <1>1, <2>7
    <3>2. x \in Bytes /\ d = Append(<<>>, x) /\ <<>> \in Lines
      BY <2>1, <2>3, <3>1, PartGrows, Zenon
    <3> HIDE DEF d, x
    <3>3. d \in Lines /\ Len(x) \in Nat /\ Joined(d) = Joined(<<>>) + Len(x) + 1
      BY <3>2, JoinedAppend, Zenon
    <3>4. Joined(t \o d) = Joined(t) + Joined(d) + 1
      BY <1>2, <3>3, JoinedConcat, Zenon
    <3>5. Joined(t \o d) > max
      BY <1>1, <1>2, <1>6, <3>3, <3>4, JoinedNone
    <3> QED
      BY <3>5, Zenon DEF d
  <2>8. Joined(t) <= max
    BY <1>1, <1>2, <1>6
  <2> QED
    BY <1>4, <2>1, <2>2, <2>5, <2>6, <2>7, <2>8, Zenon
<1> QED
  BY <1>1, <1>3, <1>5, <1>6

-----------------------------------------------------------------------------
(* What goes to the sink                                                   *)

(* Every kept line has a number that Text knows.                           *)
Numbered == \A k \in Keys : \A i \in 1 .. Len(lines[k]) : lines[k][i].n \in 1 .. MaxLines

(* What was sent is what the collected lines render to, and still is.      *)
Sends(al) == al.sent > 0 => al.context = Rendered(al)

RInv == IInv /\ Numbered /\ \A a \in 1 .. Len(alerts) : Sends(alerts[a])

LEMMA RenderedKept ==
  ASSUME NEW r, NEW al, Kept(r, al), r.sent = al.sent, r.context = al.context, Sends(al)
  PROVE  Sends(r)
BY Zenon DEF Kept, Sends, Rendered

LEMMA SendsFinish ==
  ASSUME NEW E, NEW C, NEW al \in AlertRecord(E, C), Sends(al)
  PROVE  Sends(finish(al))
<1> DEFINE r == finish(al)
<1>1. Kept(r, al) /\ r.sent = al.sent /\ r.context = al.context
  <2>1. /\ r.key = al.key /\ r.rule = al.rule /\ r.trigger = al.trigger
        /\ r.before = al.before /\ r.after = al.after /\ r.at = al.at
        /\ r.base = al.base /\ r.finished = TRUE /\ r.sent = al.sent /\ r.context = al.context
    BY Zenon DEF finish, AlertRecord
  <2> HIDE DEF r
  <2> QED
    BY <2>1, Zenon DEF Kept
<1> QED
  BY <1>1, RenderedKept, Zenon

LEMMA SendsTaken ==
  ASSUME NEW E, NEW C, NEW al \in AlertRecord(E, C), Sends(al), NEW pc
  PROVE  Sends([al EXCEPT !.pc = pc])
<1> DEFINE r == [al EXCEPT !.pc = pc]
<1>1. Kept(r, al) /\ r.sent = al.sent /\ r.context = al.context
  <2>1. /\ r.key = al.key /\ r.rule = al.rule /\ r.trigger = al.trigger
        /\ r.before = al.before /\ r.after = al.after /\ r.at = al.at
        /\ r.base = al.base /\ r.finished = al.finished /\ r.sent = al.sent
        /\ r.context = al.context
    BY Zenon DEF AlertRecord
  <2> HIDE DEF r
  <2> QED
    BY <2>1, Zenon DEF Kept
<1> QED
  BY <1>1, RenderedKept, Zenon

LEMMA SendsDiscarded ==
  ASSUME NEW E, NEW C, NEW al \in AlertRecord(E, C), Sends(al)
  PROVE  Sends(finish([al EXCEPT !.discard = TRUE]))
<1> DEFINE r == [al EXCEPT !.discard = TRUE]
<1>1. Kept(r, al) /\ r.sent = al.sent /\ r.context = al.context
  <2>1. /\ r.key = al.key /\ r.rule = al.rule /\ r.trigger = al.trigger
        /\ r.before = al.before /\ r.after = al.after /\ r.at = al.at
        /\ r.base = al.base /\ r.finished = al.finished /\ r.sent = al.sent
        /\ r.context = al.context
    BY Zenon DEF AlertRecord
  <2> HIDE DEF r
  <2> QED
    BY <2>1, Zenon DEF Kept
<1>2. r \in AlertRecord(E, C)
  BY Zenon DEF AlertRecord
<1> QED
  BY <1>1, <1>2, RenderedKept, SendsFinish, Zenon

LEMMA SendsEmitted ==
  ASSUME NEW E, NEW C, NEW al \in AlertRecord(E, C)
  PROVE  Sends(emit(al))
<1> DEFINE r == emit(al)
<1>1. /\ r.rule = al.rule /\ r.trigger = al.trigger /\ r.before = al.before /\ r.after = al.after
      /\ r.context = Rendered(al)
  BY Zenon DEF emit, AlertRecord
<1> HIDE DEF r
<1>2. Rendered(r) = Rendered(al)
  BY <1>1, Zenon DEF Rendered
<1> QED
  BY <1>1, <1>2, Zenon DEF Sends, r

\* An alert in pending has not been sent, so a line may still be added to it.
LEMMA SendsAdded ==
  ASSUME NEW E, NEW C, PInv(E, C), NEW a \in 1 .. Len(alerts), NEW key \in Keys,
         a \in pending[key], Sends(alerts[a]), NEW entry
  PROVE  Sends(Add(alerts[a], entry))
<1> DEFINE al == alerts[a]
           r == Add(al, entry)
<1>1. al \in AlertRecord(E, C) /\ Sane(al) /\ Waits(al, key)
  BY AlertTyped, Zenon
<1>2. al.sent = 0
  BY <1>1, Zenon DEF Sane, Waits
<1>3. r.sent = al.sent
  BY <1>1, Zenon DEF Add, AlertRecord
<1>4. ~(r.sent > 0)
  BY <1>2, <1>3
<1> QED
  BY <1>4, Zenon DEF Sends

\* queueAlert sends the alert it has just made, or nothing.
LEMMA SendsOpened ==
  ASSUME NEW E, NEW C, PInv(E, C), NEW key \in Keys, NEW rule \in Rules, NEW entry
  PROVE  Sends(queueAlert(key, rule, entry))
<1> DEFINE al == NewAfterCollector(key, rule, entry)
<1>1. CASE After[rule] = 0
  <2>1. queueAlert(key, rule, entry) = emit(al)
    BY <1>1, Zenon DEF queueAlert
  <2> DEFINE r == emit(al)
  <2>2. /\ r.rule = al.rule /\ r.trigger = al.trigger /\ r.before = al.before
        /\ r.after = al.after /\ r.context = Rendered(al)
    BY Zenon DEF emit, NewAfterCollector
  <2> HIDE DEF r, al
  <2>3. Rendered(r) = Rendered(al)
    BY <2>2, Zenon DEF Rendered
  <2> QED
    BY <2>1, <2>2, <2>3, Zenon DEF Sends, r, al
<1>2. CASE After[rule] # 0
  <2>1. queueAlert(key, rule, entry).sent = 0
    BY <1>2, Zenon DEF queueAlert, NewAfterCollector
  <2>2. ~(queueAlert(key, rule, entry).sent > 0)
    BY <2>1
  <2> QED
    BY <2>2, Zenon DEF Sends
<1> QED
  BY <1>1, <1>2

LEMMA LineCounted ==
  ASSUME NEW E, NEW C, PInv(E, C)
  PROVE  LineCount \in Nat
<1> DEFINE S(k) == { <<k, i>> : i \in 1 .. Len(lines[k]) }
           U == { S(k) : k \in Keys }
<1>1. ASSUME NEW k \in Keys PROVE IsFiniteSet(S(k))
  <2> DEFINE n == Len(lines[k])
             f == [i \in 1 .. n |-> <<k, i>>]
  <2>1. n \in Nat
    BY Steady
  <2>2. IsFiniteSet(1 .. n)
    BY <2>1, FS_Interval
  <2>3. f \in Surjection(1 .. n, S(k))
    BY Zenon DEF Surjection
  <2> HIDE DEF f, n, S
  <2> QED
    BY <2>2, <2>3, FS_Surjection, Zenon
<1>2. IsFiniteSet(U)
  <2> DEFINE f == [k \in Keys |-> S(k)]
  <2>1. f \in Surjection(Keys, U)
    BY Zenon DEF Surjection
  <2> QED
    BY <2>1, FS_Surjection, KeysAssumption, Zenon
<1>3. \A T \in U : IsFiniteSet(T)
  BY <1>1, Zenon
<1> HIDE DEF U
<1>4. IsFiniteSet(UNION U)
  BY <1>2, <1>3, FS_UNION, Zenon
<1>5. Cardinality(UNION U) \in Nat
  BY <1>4, FS_CardinalityType, Zenon
<1> QED
  BY <1>5, Zenon DEF LineCount, U

\* A line gets the next number.
LEMMA ProcessNumbers ==
  ASSUME NEW E, NEW C, PInv(E, C), Numbered, NEW key \in Keys, NEW raised, NEW id,
         Process(key, id, raised, TRUE)
  PROVE  Numbered'
<1> DEFINE entry == [id |-> id, n |-> LineCount + 1]
           all == lines[key]
           more == Append(all, entry)
<1>1. LineCount \in Nat /\ LineCount < MaxLines /\ MaxLines \in Nat
  BY LineCounted, BoundsAssumption DEF Process
<1>2. entry.n \in 1 .. MaxLines
  BY <1>1
<1>3. lines \in [Keys -> Seq(E)] /\ lines' = [lines EXCEPT ![key] = more]
  BY Steady, Zenon DEF Process
<1>4. all \in Seq(E)
  BY <1>3
<1> HIDE DEF entry
<1>5. Len(more) = Len(all) + 1 /\ more[Len(all) + 1] = entry /\ Len(all) \in Nat
      /\ \A i \in 1 .. Len(all) : more[i] = all[i]
  BY <1>4, AppendProperties
<1> HIDE DEF more
<1>6. ASSUME NEW i \in 1 .. Len(more) PROVE more[i].n \in 1 .. MaxLines
  <2>1. CASE i = Len(all) + 1
    BY <1>2, <1>5, <2>1, Zenon
  <2>2. CASE i # Len(all) + 1
    <3>1. i \in 1 .. Len(all)
      BY <1>5, <2>2
    <3> QED
      BY <1>5, <3>1, Zenon DEF Numbered
  <2> QED
    BY <2>1, <2>2
<1>7. \A k \in Keys : lines'[k] = IF k = key THEN more ELSE lines[k]
  BY <1>3, Zenon
<1>8. ASSUME NEW k \in Keys, NEW i \in 1 .. Len(lines'[k]) PROVE lines'[k][i].n \in 1 .. MaxLines
  <2>1. CASE k = key
    BY <1>6, <1>7, <2>1, Zenon
  <2>2. CASE k # key
    BY <1>7, <2>2, Zenon DEF Numbered
  <2> QED
    BY <2>1, <2>2
<1> QED
  BY <1>8, Zenon DEF Numbered

LEMMA ProcessSends ==
  ASSUME NEW E, NEW C, PInv(E, C), \A a \in 1 .. Len(alerts) : Sends(alerts[a]),
         NEW key \in Keys, NEW raised \in Raisable, NEW id, Process(key, id, raised, TRUE)
  PROVE  \A a \in 1 .. Len(alerts') : Sends(alerts'[a])
<1>1. PICK entry : entry = [id |-> id, n |-> LineCount + 1]
  BY Zenon
<1>2. PICK F : F = E \cup {entry}
  BY Zenon
<1>3. PICK D : D = C \cup { Rendered(NewAfterCollector(key, raised[i], entry)) :
                              i \in 1 .. Len(raised) }
  BY Zenon
<1>4. Line(E, C, F, D, key, entry)
  BY <1>2, <1>3, Zenon DEF Line
<1>5. Raises(D, key, entry, raised)
  BY <1>3, ZenonT(40) DEF Raises
<1> DEFINE n == Len(alerts)
           m == Len(raised)
           added == addAfterContext(key, entry)
           queued == Queued(key, entry, raised)
           S == AlertRecord(F, D)
<1>6. n \in Nat /\ m \in Nat /\ \A i \in 1 .. m : raised[i] \in Rules
  BY Steady, RulesAssumption DEF Rules
<1>7. added \in Seq(S) /\ Len(added) = n
  BY <1>4, LineAdded, Zenon
<1>8. queued \in Seq(S) /\ Len(queued) = m
  <2>1. QueuedWell(queued, raised, F, D, key, entry)
    BY <1>4, <1>5, AlertsQueued, Zenon
  <2> QED
    BY <2>1, Zenon DEF QueuedWell
<1>9. ASSUME NEW a \in 1 .. n PROVE Sends(added[a])
  <2>1. added[a] = IF a \in pending[key] THEN Add(alerts[a], entry) ELSE alerts[a]
    BY Zenon DEF addAfterContext
  <2>2. a \in pending[key] => Sends(Add(alerts[a], entry))
    BY SendsAdded, Zenon
  <2> QED
    BY <2>1, <2>2, Zenon
<1>10. ASSUME NEW i \in 1 .. m PROVE Sends(queued[i])
  <2>1. queued[i] = queueAlert(key, raised[i], entry)
    BY Zenon DEF Queued
  <2> QED
    BY <1>6, <2>1, SendsOpened, Zenon
<1>11. alerts' = added \o queued
  BY <1>1, Zenon DEF Process, Queued
<1> HIDE DEF added, queued, S, n, m
<1>12. Concatenation(alerts', added, queued, S)
  BY <1>7, <1>8, <1>11, Joining, Zenon
<1>13. \A a \in 1 .. n + m : a \in 1 .. n \/ \E i \in 1 .. m : a = n + i
  BY <1>6, Splitting, Zenon
<1>14. /\ Len(alerts') = n + m /\ \A a \in 1 .. n : alerts'[a] = added[a]
       /\ \A i \in 1 .. m : alerts'[n + i] = queued[i]
  BY <1>7, <1>8, <1>12, Zenon DEF Concatenation
<1>15. ASSUME NEW a \in 1 .. n + m PROVE Sends(alerts'[a])
  <2>1. CASE a \in 1 .. n
    BY <1>9, <1>14, <2>1, Zenon
  <2>2. CASE \E i \in 1 .. m : a = n + i
    <3>1. PICK i \in 1 .. m : a = n + i
      BY <2>2
    <3>2. alerts'[a] = queued[i] /\ Sends(queued[i])
      BY <1>10, <1>14, <3>1, Zenon
    <3> QED
      BY <3>2, ZenonT(40)
  <2> QED
    BY <1>13, <2>1, <2>2, Zenon
<1> QED
  BY <1>14, <1>15, Zenon

\* Steps that change no line.
LEMMA AlertsSend ==
  ASSUME NEW E, NEW C, PInv(E, C), \A a \in 1 .. Len(alerts) : Sends(alerts[a]),
         \/ \E a \in 1 .. Len(alerts) : TimerFires(a) \/ TakeCapture(a) \/ AwaitContext(a)
         \/ \E key \in Keys : ContainerAttached(key)
         \/ Close \/ CloseEnds
  PROVE  lines' = lines /\ \A a \in 1 .. Len(alerts') : Sends(alerts'[a])
<1>1. alerts \in Seq(AlertRecord(E, C)) /\ Len(alerts) \in Nat
  BY Steady, ZenonT(40)
<1>2. ASSUME NEW a \in 1 .. Len(alerts) PROVE alerts[a] \in AlertRecord(E, C)
  BY AlertTyped, Zenon
<1>3. lines' = lines
  BY Zenon DEF TimerFires, TakeCapture, AwaitContext, ContainerAttached, Close, CloseEnds
<1>4. ASSUME NEW a \in 1 .. Len(alerts), NEW r, alerts' = [alerts EXCEPT ![a] = r], Sends(r)
      PROVE  \A b \in 1 .. Len(alerts') : Sends(alerts'[b])
  <2>1. Len(alerts') = Len(alerts)
    BY <1>1, <1>4
  <2>2. \A b \in 1 .. Len(alerts) : alerts'[b] = IF b = a THEN r ELSE alerts[b]
    BY <1>1, <1>4
  <2> QED
    BY <1>4, <2>1, <2>2, Zenon
<1>5. ASSUME NEW f, alerts' = [a \in 1 .. Len(alerts) |-> f[a]],
             \A a \in 1 .. Len(alerts) : Sends(f[a])
      PROVE  \A b \in 1 .. Len(alerts') : Sends(alerts'[b])
  <2>1. Len(alerts') = Len(alerts)
    BY <1>1, <1>5
  <2> QED
    BY <1>5, <2>1, Zenon
<1>6. ASSUME NEW a \in 1 .. Len(alerts), TimerFires(a)
      PROVE  \A b \in 1 .. Len(alerts') : Sends(alerts'[b])
  <2>1. alerts' = [alerts EXCEPT ![a] = finish(alerts[a])]
    BY <1>6, Zenon DEF TimerFires
  <2> QED
    BY <1>2, <1>4, <2>1, SendsFinish, Zenon
<1>7. ASSUME NEW a \in 1 .. Len(alerts), TakeCapture(a)
      PROVE  \A b \in 1 .. Len(alerts') : Sends(alerts'[b])
  <2>1. alerts' = [alerts EXCEPT ![a] = [alerts[a] EXCEPT !.pc = "lock"]]
    BY <1>7, Zenon DEF TakeCapture
  <2> QED
    BY <1>2, <1>4, <2>1, SendsTaken, Zenon
<1>8. ASSUME NEW a \in 1 .. Len(alerts), AwaitContext(a)
      PROVE  \A b \in 1 .. Len(alerts') : Sends(alerts'[b])
  <2>1. \/ alerts' = [alerts EXCEPT ![a] = [alerts[a] EXCEPT !.pc = "done"]]
        \/ alerts' = [alerts EXCEPT ![a] = emit(alerts[a])]
    BY <1>8, Zenon DEF AwaitContext
  <2> QED
    BY <1>2, <1>4, <2>1, SendsTaken, SendsEmitted, Zenon
<1>9. ASSUME NEW key \in Keys, ContainerAttached(key)
      PROVE  \A b \in 1 .. Len(alerts') : Sends(alerts'[b])
  <2> DEFINE f == [a \in 1 .. Len(alerts) |-> IF a \in pending[key]
                                             THEN finish([alerts[a] EXCEPT !.discard = TRUE])
                                             ELSE alerts[a]]
  <2>1. alerts' = f
    BY <1>9, Zenon DEF ContainerAttached, RemoveContainer
  <2>2. ASSUME NEW a \in 1 .. Len(alerts) PROVE Sends(f[a])
    <3>1. Sends(finish([alerts[a] EXCEPT !.discard = TRUE])) /\ Sends(alerts[a])
      BY <1>2, SendsDiscarded, Zenon
    <3> QED
      BY <3>1, Zenon
  <2>3. f = [a \in 1 .. Len(alerts) |-> f[a]]
    BY Zenon
  <2> HIDE DEF f
  <2> QED
    BY <1>5, <2>1, <2>2, <2>3, Zenon
<1>10. ASSUME Close
       PROVE  \A b \in 1 .. Len(alerts') : Sends(alerts'[b])
  <2> DEFINE f == [a \in 1 .. Len(alerts) |-> IF \E k \in Keys : a \in pending[k]
                                             THEN finish(alerts[a])
                                             ELSE alerts[a]]
  <2>1. alerts' = f
    BY <1>10, Zenon DEF Close
  <2>2. ASSUME NEW a \in 1 .. Len(alerts) PROVE Sends(f[a])
    <3>1. Sends(finish(alerts[a])) /\ Sends(alerts[a])
      BY <1>2, SendsFinish, Zenon
    <3> QED
      BY <3>1, Zenon
  <2>3. f = [a \in 1 .. Len(alerts) |-> f[a]]
    BY Zenon
  <2> HIDE DEF f
  <2> QED
    BY <1>5, <2>1, <2>2, <2>3, Zenon
<1>11. ASSUME CloseEnds
       PROVE  \A b \in 1 .. Len(alerts') : Sends(alerts'[b])
  BY <1>11, Zenon DEF CloseEnds
<1> QED
  BY <1>3, <1>6, <1>7, <1>8, <1>9, <1>10, <1>11, Zenon

LEMMA RInvNext == ASSUME RInv, [Next]_vars PROVE RInv'
<1> DEFINE Sending == \A a \in 1 .. Len(alerts) : Sends(alerts[a])
<1>1. IInv' /\ IInv /\ Numbered /\ Sending
  BY IInvNext, Zenon DEF RInv
<1>2. PICK E, C : PInv(E, C)
  BY <1>1, Zenon DEF IInv
<1> SUFFICES Numbered' /\ Sending'
  BY <1>1, Zenon DEF RInv
<1>3. ASSUME UNCHANGED vars PROVE Numbered' /\ Sending'
  BY <1>1, <1>3, Zenon DEF vars, Numbered
<1>4. ASSUME NEW key \in Keys, NEW raised \in Raisable, NEW keepsContext \in BOOLEAN, NEW id,
             Process(key, id, raised, keepsContext)
      PROVE  Numbered' /\ Sending'
  <2>1. CASE keepsContext
    <3>1. Process(key, id, raised, TRUE)
      BY <1>4, <2>1, Zenon
    <3> QED
      BY <1>1, <1>2, <3>1, ProcessNumbers, ProcessSends, Zenon
  <2>2. CASE ~keepsContext
    <3>1. UNCHANGED vars
      BY <1>4, <2>2, Zenon DEF Process, vars
    <3> QED
      BY <1>3, <3>1, Zenon
  <2> QED
    BY <2>1, <2>2
<1>5. ASSUME \/ \E a \in 1 .. Len(alerts) : TimerFires(a) \/ TakeCapture(a) \/ AwaitContext(a)
             \/ \E key \in Keys : ContainerAttached(key)
             \/ Close \/ CloseEnds
      PROVE  Numbered' /\ Sending'
  <2>1. lines' = lines /\ Sending'
    BY <1>1, <1>2, <1>5, AlertsSend, Zenon
  <2> QED
    BY <1>1, <2>1, Zenon DEF Numbered
<1> QED
  BY <1>3, <1>4, <1>5, Zenon DEF Next

LEMMA AlwaysRInv == Spec => []RInv
<1>1. Init => RInv
  <2> SUFFICES ASSUME Init PROVE RInv
    OBVIOUS
  <2>1. IInv
    BY PInvInit, Zenon DEF IInv
  <2>2. Len(alerts) = 0 /\ \A k \in Keys : Len(lines[k]) = 0
    BY DEF Init
  <2>3. 1 .. 0 = {}
    OBVIOUS
  <2> QED
    BY <2>1, <2>2, <2>3, Zenon DEF RInv, Numbered
<1> QED
  BY <1>1, RInvNext, PTL DEF Spec

LEMMA TextsTyped ==
  ASSUME NEW E, NEW part \in Seq(E), \A i \in 1 .. Len(part) : part[i].n \in 1 .. MaxLines
  PROVE  Texts(part) \in Lines
<1> DEFINE n == Len(part)
<1>1. n \in Nat
  OBVIOUS
<1>2. \A i \in 1 .. n : Text[part[i].n] \in Bytes
  BY TextAssumption, Zenon DEF Bytes
<1>3. Texts(part) \in [1 .. n -> Bytes]
  BY <1>2, Zenon DEF Texts
<1> QED
  BY <1>1, <1>3, FunctionSequence, Zenon DEF Lines

\* What an alert carries to the sink is what Capture.Lines promises of the lines around
\* its trigger, for lines of any bytes and any max_bytes: the limit is respected, the
\* trigger is there, and no line that would still have fitted is left out.
THEOREM ProcessorRenderedExact == Spec => []RenderedExact
<1>1. RInv => RenderedExact
  <2> SUFFICES ASSUME RInv, NEW E, NEW C, PInv(E, C), NEW a \in 1 .. Len(alerts),
                      NEW al, al = alerts[a], al.sent > 0
               PROVE  Promised(al.context, Texts(al.before), Text[al.trigger.n], Texts(al.after),
                               MaxBytes[al.rule])
    BY Zenon DEF RInv, IInv, RenderedExact, Alerts
  <2> DEFINE all == lines[al.key]
  <2>1. al \in AlertRecord(E, C) /\ Window(al, all)
    BY AlertTyped, Zenon
  <2>2. /\ al.key \in Keys /\ al.rule \in Rules /\ al.before \in Seq(E) /\ al.after \in Seq(E)
        /\ al.at \in Nat /\ al.base \in Nat
    BY <2>1, AlertFields, ZenonT(40)
  <2>3. all \in Seq(E) /\ \A i \in 1 .. Len(all) : all[i].n \in 1 .. MaxLines
    BY <2>2, Steady, Zenon DEF RInv, Numbered
  <2> HIDE DEF all
  <2>4. /\ Before[al.rule] \in Nat /\ Capacity \in Nat /\ Len(all) \in Nat
        /\ Len(al.before) \in Nat /\ Len(al.after) \in Nat
    BY <2>2, <2>3, RuleNumbers, CapacityAssumption
  <2>5. /\ al.base <= al.at /\ al.at + 1 + Len(al.after) <= Len(all)
        /\ Len(al.before) = Least(al.at - al.base, Least(Before[al.rule], Capacity))
        /\ al.trigger = all[al.at + 1]
        /\ \A i \in 1 .. Len(al.before) : al.before[i] = all[al.at - Len(al.before) + i]
        /\ \A i \in 1 .. Len(al.after) : al.after[i] = all[al.at + 1 + i]
    BY <2>1, Zenon DEF Window
  <2>6. Len(al.before) <= al.at
    <3>1. /\ Len(al.before) = Least(al.at - al.base, Least(Before[al.rule], Capacity))
          /\ al.base <= al.at
      BY <2>5, Zenon
    <3> QED
      BY <2>2, <2>4, <3>1, SMTT(30) DEF Least
  <2>7. /\ al.at + 1 \in 1 .. Len(all)
        /\ \A i \in 1 .. Len(al.before) : al.at - Len(al.before) + i \in 1 .. Len(all)
        /\ \A i \in 1 .. Len(al.after) : al.at + 1 + i \in 1 .. Len(all)
    BY <2>2, <2>4, <2>5, <2>6, Positions, Zenon
  <2>8. Texts(al.before) \in Lines
    <3>1. \A i \in 1 .. Len(al.before) : al.before[i].n \in 1 .. MaxLines
      BY <2>3, <2>5, <2>7, Zenon
    <3> QED
      BY <2>2, <3>1, TextsTyped, Zenon
  <2>9. Texts(al.after) \in Lines
    <3>1. \A i \in 1 .. Len(al.after) : al.after[i].n \in 1 .. MaxLines
      BY <2>3, <2>5, <2>7, Zenon
    <3> QED
      BY <2>2, <3>1, TextsTyped, Zenon
  <2>10. Text[al.trigger.n] \in Bytes
    BY <2>3, <2>5, <2>7, TextAssumption, Zenon DEF Bytes
  <2>11. MaxBytes[al.rule] \in Nat \ {0}
    BY <2>2, RuleNumbers, Zenon
  <2>12. al.context = CaptureLines(Texts(al.before), Text[al.trigger.n], Texts(al.after),
                                   MaxBytes[al.rule])
    BY Zenon DEF RInv, Sends, Rendered
  <2> QED
    BY <2>8, <2>9, <2>10, <2>11, <2>12, CaptureLinesExact, ZenonT(40)
<1> QED
  BY <1>1, AlwaysRInv, PTL
=============================================================================
