----------------------- MODULE CheckpointStoreProofs -----------------------
(***************************************************************************)
(* For every set of names, every batch limit and any number of saves: the  *)
(* invariants of CheckpointStore, and that it implements DurableMap.       *)
(***************************************************************************)
EXTENDS CheckpointStore, TLAPS

(* Where the goroutines stand while the store closes: the loop leaves only *)
(* after stop, and bbolt is closed only at the very end of Run.            *)
Lifecycle ==
  /\ loop = "exited" => closing
  /\ closing <=> cons \in {"closing", "returned"}
  /\ closed => cons = "returned"

IInv == TypeOK /\ BatchBounded /\ FailureHoldsData /\ CleanClose /\ Lifecycle

USE LimitAssumption, MaxDirtyAssumption, NoneAssumption

\* A saved checkpoint is never None, so a batch it was put into is not empty.
LEMMA SaveFillsBatch ==
  ASSUME TypeOK, NEW n \in Names, NEW cp \in Checkpoints
  PROVE  /\ [pending EXCEPT ![n] = cp] \in [Names -> Checkpoints \cup {None}]
         /\ [pending EXCEPT ![n] = cp] # NoPending
<1>1. [pending EXCEPT ![n] = cp][n] = cp
  BY DEF TypeOK
<1>2. NoPending[n] = None
  BY DEF NoPending
<1> QED
  BY <1>1, <1>2 DEF TypeOK

\* flushLocked keeps the store's part of the invariant, whatever batch it is
\* given: the batch is written whole or kept whole.
LEMMA FlushKeepsBatch ==
  ASSUME NEW p \in [Names -> Checkpoints \cup {None}], NEW d \in Nat,
         TypeOK, FailureHoldsData,
         d = 0 <=> p = NoPending,
         pending # NoPending => p # NoPending,
         flushLocked(p, d)
  PROVE  /\ db' \in [Names -> Checkpoints \cup {None}]
         /\ pending' \in [Names -> Checkpoints \cup {None}]
         /\ dirty' \in Nat
         /\ lastErr' \in BOOLEAN
         /\ BatchBounded'
         /\ FailureHoldsData'
         /\ ~FlushFails(p) => pending' = NoPending
<1>1. NoPending \in [Names -> Checkpoints \cup {None}]
  BY DEF NoPending
<1>2. NoPending' = NoPending
  BY DEF NoPending
<1>3. CASE p = NoPending
  BY <1>1, <1>2, <1>3 DEF flushLocked, FlushFails, TypeOK, BatchBounded, FailureHoldsData
<1>4. CASE p # NoPending /\ ~diskUp
  BY <1>1, <1>2, <1>4, Zenon DEF flushLocked, FlushFails, TypeOK, BatchBounded, FailureHoldsData
<1>5. CASE p # NoPending /\ diskUp
  <2>1. Merge(p) \in [Names -> Checkpoints \cup {None}]
    BY DEF Merge, TypeOK
  <2>2. db' = Merge(p) /\ pending' = NoPending /\ dirty' = 0 /\ lastErr' = FALSE
    BY <1>5 DEF flushLocked
  <2>3. BatchBounded' /\ FailureHoldsData'
    BY <1>2, <2>2 DEF BatchBounded, FailureHoldsData
  <2> QED
    BY <1>1, <2>1, <2>2, <2>3, Zenon
<1> QED
  BY <1>3, <1>4, <1>5 DEF TypeOK

LEMMA InitIInv == Init => IInv
<1> SUFFICES ASSUME Init PROVE IInv
  OBVIOUS
<1>1. NoPending \in [Names -> Checkpoints \cup {None}]
  BY DEF NoPending
<1>2. TypeOK
  BY <1>1, Zenon DEF Init, TypeOK
<1>3. BatchBounded /\ FailureHoldsData
  BY DEF Init, BatchBounded, FailureHoldsData
<1> QED
  BY <1>2, <1>3 DEF Init, IInv, CleanClose, Lifecycle

\* Save takes a checkpoint only after validate has accepted it.
LEMMA SaveValidates ==
  ASSUME NEW n, NEW cp \in Checkpoints \cup {Invalid}, Save(n, cp)
  PROVE  cp \in Checkpoints
BY DEF Save, validate

\* Every critical section keeps the invariant.
LEMMA NextIInv == IInv /\ [Next]_vars => IInv'
<1> SUFFICES ASSUME IInv, [Next]_vars PROVE IInv'
  OBVIOUS
<1> USE DEF IInv
<1>0. NoPending' = NoPending /\ NoPending \in [Names -> Checkpoints \cup {None}]
  BY DEF NoPending
<1>1. ASSUME NEW cp \in Checkpoints \cup {Invalid}, SaveRejected(cp) PROVE IInv'
  BY <1>0, <1>1 DEF SaveRejected, storeVars, TypeOK, BatchBounded, FailureHoldsData, CleanClose, Lifecycle
<1>2. ASSUME NEW n \in Names, NEW cp \in Checkpoints, Save(n, cp) PROVE IInv'
  <2> DEFINE p == [pending EXCEPT ![n] = cp]
             d == dirty + 1
  <2>1. p \in [Names -> Checkpoints \cup {None}] /\ p # NoPending /\ d \in Nat \ {0}
    BY SaveFillsBatch DEF TypeOK
  <2>2. /\ db' \in [Names -> Checkpoints \cup {None}]
        /\ pending' \in [Names -> Checkpoints \cup {None}]
        /\ dirty' \in Nat
        /\ lastErr' \in BOOLEAN
        /\ BatchBounded' /\ FailureHoldsData'
    <3> HIDE DEF p, d
    <3>1. CASE d >= Limit /\ flushLocked(p, d)
      BY <2>1, <3>1, FlushKeepsBatch
    <3>2. CASE d < Limit /\ pending' = p /\ dirty' = d /\ UNCHANGED <<db, lastErr>>
      BY <1>0, <2>1, <3>2 DEF TypeOK, BatchBounded, FailureHoldsData
    <3> QED
      BY <1>2, <3>1, <3>2 DEF Save, p, d
  <2> QED
    BY <1>2, <2>2 DEF Save, TypeOK, CleanClose, Lifecycle
<1>3. CASE ConsumerErr
  BY <1>0, <1>3 DEF ConsumerErr, storeVars, TypeOK, BatchBounded, FailureHoldsData, CleanClose, Lifecycle
<1>4. CASE ConsumerReport
  BY <1>0, <1>4 DEF ConsumerReport, storeVars, TypeOK, BatchBounded, FailureHoldsData, CleanClose, Lifecycle
<1>5. CASE TimedFlush
  <2>1. flushLocked(pending, dirty)
    BY <1>5 DEF TimedFlush
  <2>2. /\ db' \in [Names -> Checkpoints \cup {None}]
        /\ pending' \in [Names -> Checkpoints \cup {None}]
        /\ dirty' \in Nat
        /\ lastErr' \in BOOLEAN
        /\ BatchBounded' /\ FailureHoldsData'
    BY <2>1, FlushKeepsBatch DEF TypeOK, BatchBounded
  <2>3. FlushFails(pending) \in BOOLEAN
    BY DEF FlushFails
  <2> QED
    BY <1>5, <2>2, <2>3 DEF TimedFlush, TypeOK, CleanClose, Lifecycle
<1>6. CASE LoopErr
  BY <1>0, <1>6 DEF LoopErr, storeVars, TypeOK, BatchBounded, FailureHoldsData, CleanClose, Lifecycle
<1>7. CASE OnFlushStatus
  BY <1>0, <1>7 DEF OnFlushStatus, storeVars, TypeOK, BatchBounded, FailureHoldsData, CleanClose, Lifecycle
<1>8. CASE LoopStop
  BY <1>0, <1>8 DEF LoopStop, storeVars, TypeOK, BatchBounded, FailureHoldsData, CleanClose, Lifecycle
<1>9. CASE ShutdownFlush
  <2>1. flushLocked(pending, dirty)
    BY <1>9 DEF ShutdownFlush
  <2>2. /\ db' \in [Names -> Checkpoints \cup {None}]
        /\ pending' \in [Names -> Checkpoints \cup {None}]
        /\ dirty' \in Nat
        /\ lastErr' \in BOOLEAN
        /\ BatchBounded' /\ FailureHoldsData'
    BY <2>1, FlushKeepsBatch DEF TypeOK, BatchBounded
  <2>3. FlushFails(pending) \in BOOLEAN
    BY DEF FlushFails
  <2> QED
    BY <1>9, <2>2, <2>3 DEF ShutdownFlush, TypeOK, CleanClose, Lifecycle
<1>10. CASE ShutdownReport
  BY <1>0, <1>10 DEF ShutdownReport, storeVars, TypeOK, BatchBounded, FailureHoldsData, CleanClose, Lifecycle
<1>11. CASE CloseBegin
  BY <1>0, <1>11 DEF CloseBegin, storeVars, TypeOK, BatchBounded, FailureHoldsData, CleanClose, Lifecycle
<1>12. CASE CloseEnd
  <2>1. flushLocked(pending, dirty)
    BY <1>12 DEF CloseEnd
  <2>2. /\ db' \in [Names -> Checkpoints \cup {None}]
        /\ pending' \in [Names -> Checkpoints \cup {None}]
        /\ dirty' \in Nat
        /\ lastErr' \in BOOLEAN
        /\ BatchBounded' /\ FailureHoldsData'
        /\ ~FlushFails(pending) => pending' = NoPending
    BY <2>1, FlushKeepsBatch DEF TypeOK, BatchBounded
  <2>3. FlushFails(pending) \in BOOLEAN
    BY DEF FlushFails
  <2> QED
    BY <1>0, <1>12, <2>2, <2>3 DEF CloseEnd, TypeOK, CleanClose, Lifecycle
<1>13. ASSUME NEW n \in Names, LoadFails(n) PROVE IInv'
  BY <1>0, <1>13 DEF LoadFails, storeVars, TypeOK, BatchBounded, FailureHoldsData, CleanClose, Lifecycle
<1>14. CASE LoadReport
  BY <1>0, <1>14 DEF LoadReport, storeVars, TypeOK, BatchBounded, FailureHoldsData, CleanClose, Lifecycle
<1>15. CASE DiskFlips
  BY <1>0, <1>15 DEF DiskFlips, storeVars, TypeOK, BatchBounded, FailureHoldsData, CleanClose, Lifecycle
<1>16. CASE Restart
  <2>1. TypeOK'
    BY <1>0, <1>16, Zenon DEF Restart, TypeOK
  <2>2. BatchBounded' /\ FailureHoldsData'
    BY <1>0, <1>16 DEF Restart, BatchBounded, FailureHoldsData
  <2> QED
    BY <1>16, <2>1, <2>2 DEF Restart, CleanClose, Lifecycle
<1>17. CASE UNCHANGED vars
  BY <1>0, <1>17 DEF vars, TypeOK, BatchBounded, FailureHoldsData, CleanClose, Lifecycle
<1> QED
  BY <1>1, <1>2, <1>3, <1>4, <1>5, <1>6, <1>7, <1>8, <1>9, <1>10, <1>11, <1>12, <1>13,
     <1>14, <1>15, <1>16, <1>17, SaveValidates DEF Next

LEMMA AlwaysIInv == Spec => []IInv
<1> QED
  BY InitIInv, NextIInv, PTL DEF Spec

\* The store's variables keep their types in every reachable state.
THEOREM StoreTypeCorrect == Spec => []TypeOK
<1>1. IInv => TypeOK
  BY DEF IInv
<1> QED
  BY <1>1, AlwaysIInv, PTL

\* Save, Flush and Close together never let a healthy batch grow to Limit.
THEOREM StoreBatchBounded == Spec => []BatchBounded
<1>1. IInv => BatchBounded
  BY DEF IInv
<1> QED
  BY <1>1, AlwaysIInv, PTL

\* Store.Err names a failure only while its data is still held for a retry.
THEOREM StoreFailureHoldsData == Spec => []FailureHoldsData
<1>1. IInv => FailureHoldsData
  BY DEF IInv
<1> QED
  BY <1>1, AlwaysIInv, PTL

\* After Store.Close nothing uses bbolt, and a Close without error is complete.
THEOREM StoreCleanClose == Spec => []CleanClose
<1>1. IInv => CleanClose
  BY DEF IInv
<1> QED
  BY <1>1, AlwaysIInv, PTL

-----------------------------------------------------------------------------
(* Refinement: the callers' view of the store is the abstract memory.      *)
View == [n \in Names |-> Load(n)]

\* A flush of the batch as it stands changes no answer of Load, and the bucket
\* is either untouched or brought up to that answer for every name at once.
LEMMA FlushIsSync ==
  ASSUME TypeOK, flushLocked(pending, dirty)
  PROVE  Abstract!Sync \/ (UNCHANGED <<View, db>>)
<1>1. CASE pending = NoPending \/ ~diskUp
  <2>1. pending' = pending /\ db' = db
    BY <1>1 DEF flushLocked
  <2> QED
    BY <2>1 DEF View, Load
<1>2. CASE ~(pending = NoPending \/ ~diskUp)
  <2>1. db' = Merge(pending) /\ pending' = NoPending
    BY <1>2 DEF flushLocked
  <2>2. Merge(pending) = View
    BY DEF Merge, View, Load
  <2>3. View' = db'
    <3>1. \A n \in Names : Load(n)' = db'[n]
      BY <2>1 DEF Load, NoPending
    <3>2. db' = [n \in Names |-> db'[n]]
      BY <2>1 DEF Merge
    <3> QED
      BY <3>1, <3>2 DEF View
  <2> QED
    BY <2>1, <2>2, <2>3 DEF View, Abstract!Sync
<1> QED
  BY <1>1, <1>2

\* A Save is a Put: below the limit in memory only, at the limit in memory and
\* on disk together, and with a failing disk in memory only.
LEMMA SaveIsPut ==
  ASSUME TypeOK, NEW n \in Names, NEW cp \in Checkpoints, Save(n, cp)
  PROVE  Abstract!Put(n, cp)
<1> DEFINE p == [pending EXCEPT ![n] = cp]
<1>1. Merge(p) = [View EXCEPT ![n] = cp]
  BY Zenon DEF Merge, View, Load, TypeOK
<1>2. \/ pending' = p /\ db' = db
      \/ pending' = NoPending /\ db' = Merge(p)
  <2>1. \/ flushLocked(p, dirty + 1)
        \/ pending' = p /\ db' = db
    BY DEF Save
  <2> QED
    BY <2>1 DEF flushLocked
<1>3. CASE pending' = p /\ db' = db
  <2>1. View' = Merge(p)
    BY <1>3 DEF View, Load, Merge
  <2> QED
    BY <1>1, <1>3, <2>1 DEF View, Abstract!Put
<1>4. CASE pending' = NoPending /\ db' = Merge(p)
  <2>1. \A m \in Names : Load(m)' = db'[m]
    BY <1>4 DEF Load, NoPending
  <2>2. db' = [m \in Names |-> db'[m]]
    BY <1>4 DEF Merge
  <2>3. View' = db'
    BY <2>1, <2>2 DEF View
  <2> QED
    BY <1>1, <1>4, <2>3 DEF View, Abstract!Put
<1> QED
  BY <1>2, <1>3, <1>4

\* Every step of the store is a step of DurableMap or leaves it unchanged.
LEMMA StepRefines ==
  TypeOK /\ [Next]_vars => [Abstract!Next]_<<View, db>>
<1> SUFFICES ASSUME TypeOK, [Next]_vars
             PROVE  Abstract!Next \/ UNCHANGED <<View, db>>
  OBVIOUS
<1>1. ASSUME UNCHANGED <<pending, db>> PROVE UNCHANGED <<View, db>>
  BY <1>1 DEF View, Load
<1>2. ASSUME NEW n \in Names, NEW cp \in Checkpoints, Save(n, cp) PROVE Abstract!Next
  BY <1>2, SaveIsPut DEF Abstract!Next
<1>3. CASE TimedFlush \/ ShutdownFlush \/ CloseEnd
  BY <1>3, FlushIsSync DEF TimedFlush, ShutdownFlush, CloseEnd, Abstract!Next
<1>4. CASE Restart
  <2>1. pending' = NoPending /\ db' = db
    BY <1>4 DEF Restart
  <2>2. \A n \in Names : Load(n)' = db[n]
    BY <2>1 DEF Load, NoPending
  <2>3. db = [n \in Names |-> db[n]]
    BY DEF TypeOK
  <2>4. View' = db
    BY <2>2, <2>3 DEF View
  <2> QED
    BY <2>1, <2>4 DEF View, Abstract!Reopen, Abstract!Next
<1>5. CASE \/ \E cp \in Checkpoints \cup {Invalid} : SaveRejected(cp)
           \/ ConsumerErr \/ ConsumerReport \/ LoopErr \/ OnFlushStatus \/ LoopStop
           \/ ShutdownReport \/ CloseBegin \/ LoadReport \/ DiskFlips
           \/ \E n \in Names : LoadFails(n)
           \/ UNCHANGED vars
  BY <1>1, <1>5 DEF SaveRejected, ConsumerErr, ConsumerReport, LoopErr, OnFlushStatus,
     LoopStop, ShutdownReport, CloseBegin, LoadReport, DiskFlips, LoadFails, vars, storeVars
<1> QED
  BY <1>2, <1>3, <1>4, <1>5, SaveValidates DEF Next

\* Load, Save, Flush, Close and a crash behave as the atomic map DurableMap.
THEOREM StoreImplementsDurableMap == Spec => ImplementsDurableMap
<1>1. Init => Abstract!Init
  <2> SUFFICES ASSUME Init PROVE Abstract!Init
    OBVIOUS
  <2>1. \A n \in Names : Load(n) = db[n]
    BY Zenon DEF Init, Load, NoPending
  <2>2. db = [n \in Names |-> db[n]]
    BY DEF Init
  <2> QED
    BY <2>1, <2>2 DEF Init, Abstract!Init
<1>2. TypeOK /\ [Next]_vars => [Abstract!Next]_<<[n \in Names |-> Load(n)], db>>
  BY StepRefines DEF View
<1> QED
  BY <1>1, <1>2, StoreTypeCorrect, PTL DEF Spec, ImplementsDurableMap, Abstract!Spec
=============================================================================
