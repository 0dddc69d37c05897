----------------------------- MODULE VacuumProofs ------------------------------
(***************************************************************************)
(* Proofs about the vacuum task, for any page size, limits, budget and     *)
(* clock: rows go only when no free page is left to give back, and         *)
(* remove_excessive_logs takes the oldest rows and never the newest one,   *)
(* whatever the gaps between the ids and the rounding of the share.        *)
(***************************************************************************)
EXTENDS Vacuum, WellFoundedInduction, FiniteSetTheorems, TLAPS

-----------------------------------------------------------------------------
(* Facts about sets of naturals *)

\* A set of naturals that is not empty has a least element.
LEMMA MinExists ==
    ASSUME NEW S, S \subseteq Nat, S # {}
    PROVE  \E m \in S : \A i \in S : m <= i
  <1> DEFINE R == OpToRel(<, Nat)
  <1>1. IsWellFoundedOn(R, Nat)
    BY NatLessThanWellFounded
  <1>2. \A y, x \in Nat : y < x => <<y, x>> \in R
    BY DEF OpToRel
  <1> HIDE DEF R
  <1>3. PICK m \in S : \A y \in S : ~(<<y, m>> \in R)
    BY <1>1, WFMin
  <1>4. ASSUME NEW i \in S PROVE m <= i
    <2>1. ~(i < m)
      BY <1>2, <1>3
    <2>2. i \in Nat /\ m \in Nat
      OBVIOUS
    <2>3. QED
      BY <2>1, <2>2
  <1>5. QED
    BY <1>4

\* A bounded set of naturals that is not empty has a largest element.
LEMMA MaxExists ==
    ASSUME NEW S, S \subseteq Nat, S # {}, NEW n \in Nat, \A i \in S : i <= n
    PROVE  \E m \in S : \A i \in S : i <= m
  <1> DEFINE D == {n - i : i \in S}
  <1>1. D \subseteq Nat
    BY SMT
  <1>2. D # {}
    OBVIOUS
  <1>3. PICK x \in D : \A y \in D : x <= y
    <2> HIDE DEF D
    <2>1. QED
      BY <1>1, <1>2, MinExists
  <1>4. PICK m \in S : x = n - m
    OBVIOUS
  <1>5. ASSUME NEW i \in S PROVE i <= m
    <2>1. n - i \in D
      OBVIOUS
    <2>2. n - m <= n - i
      BY <2>1, <1>3, <1>4
    <2>3. i \in Nat /\ m \in Nat
      OBVIOUS
    <2>4. QED
      BY <2>2, <2>3
  <1>6. QED
    BY <1>5

-----------------------------------------------------------------------------
(* The inductive invariant *)

\* Ids are at most the number of inserts.
LogInv ==
    /\ log \subseteq [id : Nat \ {0}, ts : 1..MaxTime] /\ IsFiniteSet(log)
    /\ \A row \in log : row.id <= inserts

FreeInv == inserts \in 0..MaxInserts /\ free \in Nat

\* What the pass's place says of the mode and of the free list.
TaskInv ==
    /\ mode \in 0..2 /\ now \in 1..MaxTime /\ stops \in 0..MaxStops
    /\ pc \in {"down", "idle", "stale", "excess", "full"}
    /\ mode = 2 /\ pc = AfterIncremental => free = 0
    /\ (pc = "full" => mode = 1) /\ (pc = "stale" => HasTimestamp)

Inv == LogInv /\ FreeInv /\ TaskInv

-----------------------------------------------------------------------------
(* What the database reports about itself *)

\* SELECT MAX(id), MIN(id): the ids of rows, and every id lies between them.
LEMMA MinMaxLogId ==
    ASSUME Inv
    PROVE  /\ GetMaxLogId \in 0..inserts /\ GetMinLogId \in Nat
           /\ \A row \in log : /\ row.id \in Nat
                               /\ GetMinLogId <= row.id /\ row.id <= GetMaxLogId
           /\ log # {} => GetMinLogId \in Nat \ {0} /\ GetMinLogId <= GetMaxLogId
  <1>1. inserts \in Nat
    BY DEF Inv, FreeInv
  <1>2. /\ Ids \subseteq Nat \ {0} /\ \A i \in Ids : i <= inserts
        /\ \A row \in log : row.id \in Ids /\ row.id \in Nat
    BY DEF Inv, LogInv, Ids
  <1>3. CASE log = {}
    BY <1>1, <1>3 DEF GetMaxLogId, GetMinLogId
  <1>4. CASE log # {}
    <2>1. Ids # {} /\ Ids \subseteq Nat
      BY <1>2, <1>4
    <2>2. \E m \in Ids : \A i \in Ids : m >= i
      <3>1. \E m \in Ids : \A i \in Ids : i <= m
        BY <1>1, <1>2, <2>1, MaxExists
      <3>2. QED
        BY <2>1, <3>1
    <2>3. \E m \in Ids : \A i \in Ids : m <= i
      BY <2>1, MinExists
    <2>4. Max(Ids) \in Ids /\ \A i \in Ids : Max(Ids) >= i
      BY <2>2 DEF Max
    <2>5. Min(Ids) \in Ids /\ \A i \in Ids : Min(Ids) <= i
      BY <2>3 DEF Min
    <2>6. GetMaxLogId = Max(Ids) /\ GetMinLogId = Min(Ids)
      BY <1>4 DEF GetMaxLogId, GetMinLogId
    <2>7. /\ GetMaxLogId \in 0..inserts /\ GetMinLogId \in Nat \ {0}
          /\ GetMinLogId <= GetMaxLogId
      <3>1. Max(Ids) \in Nat /\ Max(Ids) <= inserts /\ Min(Ids) \in Nat \ {0}
        BY <1>2, <2>4, <2>5
      <3>2. Max(Ids) >= Min(Ids)
        BY <2>4, <2>5
      <3>3. QED
        BY <1>1, <2>6, <3>1, <3>2
    <2>8. \A row \in log : GetMinLogId <= row.id /\ row.id <= GetMaxLogId
      BY <1>2, <2>1, <2>4, <2>5, <2>6, <2>7
    <2>9. QED
      BY <1>2, <2>7, <2>8
  <1>5. QED
    BY <1>3, <1>4

\* A quotient of naturals is a natural.
LEMMA DivNat ==
    ASSUME NEW a \in Nat, NEW b \in Nat \ {0}
    PROVE  a \div b \in Nat
  OBVIOUS

\* A product of naturals is a natural.
LEMMA TimesNat ==
    ASSUME NEW a \in Nat, NEW b \in Nat
    PROVE  a * b \in Nat
  OBVIOUS

\* The share of the rows that corresponds to the pages above the target is less
\* than all of them.
LEMMA ShareLess ==
    ASSUME NEW rowcnt \in Nat \ {0}, NEW used \in Nat, NEW over \in Nat, over < used
    PROVE  (rowcnt * over) \div used < rowcnt
  <1>1. rowcnt * over < rowcnt * used
    OBVIOUS
  <1>2. PICK p \in Nat : p = rowcnt * over
    BY TimesNat
  <1>3. PICK q \in Nat : q = p \div used
    BY <1>2, DivNat
  <1>4. q * used <= p
    BY <1>3
  <1>5. ASSUME q >= rowcnt PROVE FALSE
    <2>1. q * used >= rowcnt * used
      BY <1>5
    <2>2. QED
      BY <1>1, <1>2, <1>4, <2>1
  <1>6. QED
    BY <1>2, <1>3, <1>5

\* The estimates of the row count and of the bytes of a row, and the rows worth
\* the budget of a pass.
LEMMA Estimates ==
    ASSUME Inv
    PROVE  /\ MaxRows \in Nat /\ UsedPages \in Nat \ {0}
           /\ EstimateAvgRowBytes \in Nat \ {0}
  <1>1. BasePages \in Nat \ {0} /\ PageSize \in Nat /\ Budget \in Nat
    BY VacuumAssumption
  <1>2. Cardinality(log) \in Nat
    BY FS_CardinalityType DEF Inv, LogInv
  <1>3. UsedPages \in Nat \ {0}
    BY <1>1, <1>2 DEF UsedPages
  <1>4. GetSizeBytes \in Nat
    BY <1>1, <1>3, TimesNat DEF GetSizeBytes
  <1>5. EstimateLogRowCount \in Nat
    <2>1. log # {} => GetMinLogId \in Nat /\ GetMaxLogId \in Nat
                      /\ GetMinLogId <= GetMaxLogId
      <3>1. inserts \in Nat
        BY DEF Inv, FreeInv
      <3>2. QED
        BY <3>1, MinMaxLogId
    <2>2. QED
      BY <2>1 DEF EstimateLogRowCount
  <1>6. EstimateAvgRowBytes \in Nat \ {0}
    <2>1. PICK d \in Nat \ {0} :
              d = IF EstimateLogRowCount = 0 THEN 1 ELSE EstimateLogRowCount
      BY <1>5
    <2>2. PICK a \in Nat : a = GetSizeBytes \div d
      BY <1>4, <2>1, DivNat
    <2>3. EstimateAvgRowBytes = IF a = 0 THEN 1 ELSE a
      BY <2>1, <2>2 DEF EstimateAvgRowBytes
    <2>4. QED
      BY <2>2, <2>3
  <1>7. MaxRows \in Nat
    <2>1. Budget * PageSize \in Nat
      BY <1>1, TimesNat
    <2>2. QED
      BY <1>6, <2>1, DivNat DEF MaxRows
  <1>8. QED
    BY <1>3, <1>6, <1>7

\* What the truncated product can be: less than all rows, unless the target is 0.
LEMMA SharesBound ==
    ASSUME Inv, log # {}, NEW share \in Shares
    PROVE  /\ share \in Nat
           /\ TargetSize > 0 => share <= GetMaxLogId - GetMinLogId
  <1>1. PICK rowcnt \in Nat \ {0} : rowcnt = GetMaxLogId - GetMinLogId + 1
    <2>1. GetMinLogId \in Nat /\ GetMaxLogId \in Nat /\ GetMinLogId <= GetMaxLogId
      <3>1. inserts \in Nat
        BY DEF Inv, FreeInv
      <3>2. QED
        BY <3>1, MinMaxLogId
    <2>2. QED
      BY <2>1
  <1>2. TargetSize \in Nat /\ UsedPages \in Nat \ {0}
    BY VacuumAssumption, Estimates
  <1>3. GetMaxLogId - GetMinLogId = rowcnt - 1
    <2>1. GetMinLogId \in Nat /\ GetMaxLogId \in Nat
      <3>1. inserts \in Nat
        BY DEF Inv, FreeInv
      <3>2. QED
        BY <3>1, MinMaxLogId
    <2>2. QED
      BY <1>1, <2>1
  <1>4. CASE UsedPages <= TargetSize
    <2>1. share = 0
      BY <1>4 DEF Shares
    <2>2. QED
      BY <1>3, <2>1
  <1>5. CASE ~(UsedPages <= TargetSize)
    <2>1. PICK over \in Nat : over = UsedPages - TargetSize
      BY <1>2, <1>5
    <2>2. rowcnt * over \in Nat
      BY <2>1, TimesNat
    <2>3. PICK whole \in Nat : whole = (rowcnt * over) \div UsedPages
      BY <1>2, <2>2, DivNat
    <2>4. \/ share = whole
          \/ whole > 0 /\ share = whole - 1
      BY <1>1, <1>5, <2>1, <2>3 DEF Shares
    <2>5. TargetSize > 0 => whole < rowcnt
      <3>1. TargetSize > 0 => over < UsedPages
        BY <1>2, <2>1
      <3>2. QED
        BY <1>2, <2>1, <2>3, <3>1, ShareLess
    <2>6. QED
      BY <1>3, <2>3, <2>4, <2>5
  <1>6. QED
    BY <1>4, <1>5

\* The largest id that remove_excessive_logs deletes lies below the newest row.
LEMMA ExcessBelowMax ==
    ASSUME Inv, log # {}, NEW share \in Shares
    PROVE  /\ ExcessMaxId(share) \in Int
           /\ TargetSize > 0 => ExcessMaxId(share) < GetMaxLogId
  <1>1. GetMinLogId \in Nat /\ GetMaxLogId \in Nat
    <2>1. inserts \in Nat
      BY DEF Inv, FreeInv
    <2>2. QED
      BY <2>1, MinMaxLogId
  <1>2. share \in Nat /\ (TargetSize > 0 => share <= GetMaxLogId - GetMinLogId)
    BY SharesBound
  <1>3. MaxRows \in Nat
    BY Estimates
  <1>4. /\ ExcessMaxId(share) \in Int
        /\ ExcessMaxId(share) <= GetMinLogId + share - 1
    BY <1>1, <1>2, <1>3 DEF ExcessMaxId
  <1>5. QED
    BY <1>1, <1>2, <1>4

-----------------------------------------------------------------------------
(* Statements *)

\* DELETE keeps what is known of the rows.
LEMMA DeleteKeepsInv ==
    ASSUME Inv, NEW rows, rows \subseteq log, DeleteLogs(rows), UNCHANGED inserts
    PROVE  LogInv' /\ FreeInv'
  <1>1. log' = log \ rows /\ free' = IF mode = 1 THEN 0 ELSE free + Cardinality(rows)
    BY DEF DeleteLogs
  <1>2. IsFiniteSet(log) /\ IsFiniteSet(rows) /\ log \cap rows = rows
    BY FS_Subset DEF Inv, LogInv
  <1>3. /\ IsFiniteSet(log') /\ Cardinality(log') = Cardinality(log) - Cardinality(rows)
        /\ Cardinality(log') \in Nat /\ Cardinality(log) \in Nat
        /\ Cardinality(rows) \in Nat
    <2>1. /\ IsFiniteSet(log \ rows)
          /\ Cardinality(log \ rows) = Cardinality(log) - Cardinality(log \cap rows)
      BY <1>2, FS_Difference
    <2>2. IsFiniteSet(log') /\ Cardinality(log') = Cardinality(log) - Cardinality(rows)
      BY <1>1, <1>2, <2>1
    <2>3. /\ Cardinality(log') \in Nat /\ Cardinality(log) \in Nat
          /\ Cardinality(rows) \in Nat
      BY <1>2, <2>2, FS_CardinalityType
    <2>4. QED
      BY <2>2, <2>3
  <1>4. LogInv'
    BY <1>1, <1>3 DEF Inv, LogInv
  <1>5. FreeInv'
    BY <1>1, <1>3 DEF Inv, FreeInv
  <1>6. QED
    BY <1>4, <1>5

\* remove_stale_logs.
LEMMA InvRemoveStaleLogs ==
    ASSUME Inv, RemoveStaleLogs
    PROVE  Inv'
  <1>1. TaskInv'
    BY DEF Inv, TaskInv, RemoveStaleLogs, AfterIncremental
  <1>2. UNCHANGED <<mode, now, inserts, stops>>
    BY DEF RemoveStaleLogs
  <1>3. CASE DeleteLogs(StaleRows)
    <2>1. PICK rows : rows = StaleRows
      OBVIOUS
    <2>2. rows \subseteq log
      BY <2>1 DEF StaleRows
    <2>3. DeleteLogs(rows)
      BY <1>3, <2>1
    <2>4. QED
      BY <1>1, <1>2, <2>2, <2>3, DeleteKeepsInv DEF Inv
  <1>4. CASE UNCHANGED <<log, free>>
    BY <1>1, <1>2, <1>4 DEF Inv, LogInv, FreeInv
  <1>5. QED
    BY <1>3, <1>4 DEF RemoveStaleLogs

\* remove_excessive_logs.
LEMMA InvRemoveExcessiveLogs ==
    ASSUME Inv, RemoveExcessiveLogs
    PROVE  Inv'
  <1>1. TaskInv'
    BY DEF Inv, TaskInv, RemoveExcessiveLogs, AfterIncremental
  <1>2. UNCHANGED <<mode, now, inserts, stops>>
    BY DEF RemoveExcessiveLogs
  <1>3. ASSUME NEW share \in Shares,
               DeleteLogs({row \in log : row.id <= ExcessMaxId(share)})
        PROVE  Inv'
    <2>1. PICK rows : rows = {row \in log : row.id <= ExcessMaxId(share)}
      OBVIOUS
    <2>2. rows \subseteq log
      BY <2>1
    <2>3. DeleteLogs(rows)
      BY <1>3, <2>1
    <2>4. QED
      BY <1>1, <1>2, <2>2, <2>3, DeleteKeepsInv DEF Inv
  <1>4. CASE UNCHANGED <<log, free>>
    BY <1>1, <1>2, <1>4 DEF Inv, LogInv, FreeInv
  <1>5. QED
    BY <1>3, <1>4 DEF RemoveExcessiveLogs

\* An insert gets an id above all others, and a free page if there is one.
LEMMA InvInsert ==
    ASSUME Inv, NEW ts \in 1..MaxTime, Insert(ts)
    PROVE  Inv'
  <1>1. PICK new : new = [id |-> GetMaxLogId + 1, ts |-> ts]
    OBVIOUS
  <1>2. /\ inserts < MaxInserts /\ log' = log \cup {new}
        /\ free' = IF free > 0 THEN free - 1 ELSE 0
        /\ inserts' = inserts + 1 /\ UNCHANGED <<mode, now, pc, stops>>
    BY <1>1 DEF Insert
  <1>3. inserts \in 0..MaxInserts /\ MaxInserts \in Nat
    BY VacuumAssumption DEF Inv, FreeInv
  <1>4. /\ GetMaxLogId \in 0..inserts
        /\ \A row \in log : row.id \in Nat /\ row.id <= GetMaxLogId
    BY MinMaxLogId
  <1>5. /\ new.id = GetMaxLogId + 1 /\ new \in [id : Nat \ {0}, ts : 1..MaxTime]
        /\ new.id <= inserts'
    BY <1>1, <1>2, <1>3, <1>4
  <1>6. \A row \in log : row.id # new.id
    BY <1>3, <1>4, <1>5
  <1>7. /\ IsFiniteSet(log') /\ Cardinality(log') = Cardinality(log) + 1
        /\ Cardinality(log) \in Nat
    <2>1. new \notin log /\ IsFiniteSet(log)
      BY <1>6 DEF Inv, LogInv
    <2>2. QED
      BY <1>2, <2>1, FS_AddElement, FS_CardinalityType
  <1>8. LogInv'
    <2>1. log' \subseteq [id : Nat \ {0}, ts : 1..MaxTime]
      BY <1>2, <1>5 DEF Inv, LogInv
    <2>2. \A row \in log' : row.id <= inserts'
      <3>1. \A row \in log : row.id <= inserts + 1
        BY <1>3, <1>4 DEF Inv, LogInv
      <3>2. QED
        BY <1>2, <1>5, <3>1
    <2>3. QED
      BY <1>7, <2>1, <2>2 DEF LogInv
  <1>9. FreeInv'
    BY <1>2, <1>3, <1>7 DEF Inv, FreeInv
  <1>10. TaskInv'
    <2>1. pc = "idle"
      BY DEF Insert
    <2>2. QED
      BY <1>2, <2>1 DEF Inv, TaskInv, AfterIncremental
  <1>11. QED
    BY <1>8, <1>9, <1>10 DEF Inv

-----------------------------------------------------------------------------
(* The theorems *)

\* An empty database satisfies the invariant.
LEMMA InvInit == Init => Inv
  <1>1. SUFFICES ASSUME Init PROVE Inv
    OBVIOUS
  <1>2. IsFiniteSet({}) /\ Cardinality({}) = 0
    BY FS_EmptySet
  <1>3. MaxInserts \in Nat /\ MaxStops \in Nat /\ MaxTime \in Nat \ {0}
    BY VacuumAssumption
  <1>4. LogInv
    BY <1>1, <1>2 DEF Init, LogInv
  <1>5. FreeInv
    BY <1>1, <1>2, <1>3 DEF Init, FreeInv
  <1>6. TaskInv
    BY <1>1, <1>3 DEF Init, TaskInv, AfterIncremental
  <1>7. QED
    BY <1>4, <1>5, <1>6 DEF Inv

\* Every statement of a pass, insert, stop and start keeps it.
LEMMA InvNext == Inv /\ [Next]_vars => Inv'
  <1>1. SUFFICES ASSUME Inv, [Next]_vars PROVE Inv'
    OBVIOUS
  <1>2. Budget \in Nat /\ MaxTime \in Nat /\ MaxStops \in Nat
    BY VacuumAssumption
  <1>3. IsFiniteSet(log) /\ Cardinality(log) \in Nat
    BY <1>1, FS_CardinalityType DEF Inv, LogInv
  <1>4. ASSUME UNCHANGED <<log, inserts>>, free' \in 0..free PROVE LogInv' /\ FreeInv'
    BY <1>1, <1>3, <1>4 DEF Inv, LogInv, FreeInv
  <1>5. free \in Nat
    BY <1>1 DEF Inv, FreeInv
  <1>6. CASE VacuumWake
    <2>1. free' \in 0..free
      BY <1>2, <1>5, <1>6 DEF VacuumWake, Remain
    <2>2. TaskInv' /\ UNCHANGED <<log, inserts>>
      BY <1>1, <1>2, <1>5, <1>6 DEF Inv, TaskInv, VacuumWake, AfterIncremental, Remain
    <2>3. QED
      BY <1>4, <2>1, <2>2 DEF Inv
  <1>7. CASE RemoveStaleLogs
    BY <1>1, <1>7, InvRemoveStaleLogs
  <1>8. CASE RemoveExcessiveLogs
    BY <1>1, <1>8, InvRemoveExcessiveLogs
  <1>9. CASE FullVacuum
    <2>1. free' \in 0..free /\ UNCHANGED <<log, inserts>>
      BY <1>5, <1>9 DEF FullVacuum
    <2>2. TaskInv'
      BY <1>1, <1>9 DEF Inv, TaskInv, FullVacuum, AfterIncremental
    <2>3. QED
      BY <1>4, <2>1, <2>2 DEF Inv
  <1>10. ASSUME NEW ts \in 1..MaxTime, Insert(ts) PROVE Inv'
    BY <1>1, <1>10, InvInsert
  <1>11. CASE Tick
    <2>1. free' \in 0..free /\ UNCHANGED <<log, inserts>>
      BY <1>5, <1>11 DEF Tick
    <2>2. TaskInv'
      BY <1>1, <1>2, <1>11 DEF Inv, TaskInv, Tick, AfterIncremental
    <2>3. QED
      BY <1>4, <2>1, <2>2 DEF Inv
  <1>12. CASE Stop
    <2>1. free' \in 0..free /\ UNCHANGED <<log, inserts>>
      BY <1>5, <1>12 DEF Stop
    <2>2. TaskInv'
      BY <1>1, <1>2, <1>12 DEF Inv, TaskInv, Stop, AfterIncremental
    <2>3. QED
      BY <1>4, <2>1, <2>2 DEF Inv
  <1>13. ASSUME NEW value \in 0..2, Open(value) PROVE Inv'
    <2>1. free' \in 0..free /\ UNCHANGED <<log, inserts>>
      BY <1>5, <1>13 DEF Open
    <2>2. TaskInv'
      BY <1>1, <1>13 DEF Inv, TaskInv, Open, AfterIncremental
    <2>3. QED
      BY <1>4, <2>1, <2>2 DEF Inv
  <1>14. CASE UNCHANGED vars
    BY <1>1, <1>14 DEF vars, Inv, LogInv, FreeInv, TaskInv, AfterIncremental
  <1>15. QED
    BY <1>1, <1>6, <1>7, <1>8, <1>9, <1>10, <1>11, <1>12, <1>13, <1>14
       DEF Next, Pass

\* The invariant holds in every reachable state.
LEMMA Invariance == Spec => []Inv
  BY InvInit, InvNext, PTL DEF Spec

\* Types; in incremental mode rows are deleted only when no free page is left to
\* give back, and only a database in full mode is rebuilt (VacuumTask,
\* vacuum.hpp:133, 144), whatever statement a crash or a changed mode falls between.
THEOREM TypeCorrect == Spec => []TypeOK
  <1>1. ASSUME Inv PROVE TypeOK
    <2>1. MaxInserts \in Nat /\ inserts \in 0..MaxInserts
      BY <1>1, VacuumAssumption DEF Inv, FreeInv
    <2>2. log \subseteq Row
      BY <1>1, <2>1 DEF Inv, LogInv, Row
    <2>3. QED
      BY <1>1, <2>2 DEF Inv, FreeInv, TaskInv, TypeOK
  <1>2. QED
    BY <1>1, Invariance, PTL

\* A row that is deleted before its age, by a step of the pass: only by
\* remove_excessive_logs, with all that is older, and without the newest row.
LEMMA FreshStep ==
    ASSUME Inv, [Next]_vars, NEW row \in log \ log', row.ts > Cutoff
    PROVE  /\ UsedPages > MaxSize
           /\ \A kept \in log' : kept.id > row.id
           /\ TargetSize > 0 => row.id # GetMaxLogId
  <1>1. row.ts \in Nat /\ row.id \in Nat /\ \A other \in log : other.id \in Nat
    BY VacuumAssumption DEF Inv, LogInv
  <1>2. Cutoff \in Int
    BY VacuumAssumption DEF Cutoff, Inv, TaskInv
  <1>3. CASE RemoveStaleLogs
    <2>1. log' = log \ StaleRows
      BY <1>3 DEF RemoveStaleLogs, DeleteLogs
    <2>2. row.ts <= Cutoff
      BY <2>1 DEF StaleRows
    <2>3. QED
      BY <1>1, <1>2, <2>2
  <1>4. CASE RemoveExcessiveLogs
    <2>1. UsedPages > MaxSize
      BY <1>4 DEF RemoveExcessiveLogs
    <2>2. PICK share \in Shares :
              log' = log \ {old \in log : old.id <= ExcessMaxId(share)}
      BY <1>4 DEF RemoveExcessiveLogs, DeleteLogs
    <2>3. /\ ExcessMaxId(share) \in Int
          /\ TargetSize > 0 => ExcessMaxId(share) < GetMaxLogId
      BY ExcessBelowMax
    <2>4. row.id <= ExcessMaxId(share)
      BY <2>2
    <2>5. \A kept \in log' : kept \in log /\ ~(kept.id <= ExcessMaxId(share))
      BY <2>2
    <2>6. \A kept \in log' : kept.id > row.id
      BY <1>1, <2>3, <2>4, <2>5
    <2>7. TargetSize > 0 => row.id # GetMaxLogId
      <3>1. GetMaxLogId \in 0..inserts /\ inserts \in Nat
        BY MinMaxLogId DEF Inv, FreeInv
      <3>2. QED
        BY <1>1, <2>3, <2>4, <3>1
    <2>8. QED
      BY <2>1, <2>6, <2>7
  <1>5. CASE ~(RemoveStaleLogs \/ RemoveExcessiveLogs)
    <2>1. log \subseteq log'
      BY <1>5 DEF Next, Pass, VacuumWake, FullVacuum, Insert, Tick, Stop, Open, vars
    <2>2. QED
      BY <2>1
  <1>6. QED
    BY <1>3, <1>4, <1>5

\* A row that has not reached its age goes only when the database is too large,
\* oldest first and never the newest one (remove_excessive_logs, vacuum.hpp), for
\* every ratio, rounding and gap in the ids.
THEOREM SafeFreshOnlyWhenOver == Spec => FreshOnlyWhenOver
  <1>1. Inv /\ [Next]_vars
            => [\A row \in log \ log' :
                    row.ts > Cutoff => /\ UsedPages > MaxSize
                                       /\ \A kept \in log' : kept.id > row.id
                                       /\ TargetSize > 0 => row.id # GetMaxLogId]_vars
    BY FreshStep
  <1>2. QED
    BY <1>1, Invariance, PTL DEF Spec, FreshOnlyWhenOver

-----------------------------------------------------------------------------
(* Progress: what Trimmed and ExpiredGone need of a single statement *)

\* There is a row with the smallest id.
LEMMA OldestRow ==
    ASSUME Inv, log # {}
    PROVE  \E row \in log : row.id = GetMinLogId
  <1>1. Ids # {} /\ Ids \subseteq Nat
    BY DEF Inv, LogInv, Ids
  <1>2. \E m \in Ids : \A i \in Ids : m <= i
    BY <1>1, MinExists
  <1>3. GetMinLogId \in Ids
    BY <1>2 DEF GetMinLogId, Min
  <1>4. QED
    BY <1>3 DEF Ids

\* A budget of an average row or more is worth a row.
LEMMA BudgetWorthRow ==
    ASSUME Inv, ~(Budget * PageSize < EstimateAvgRowBytes)
    PROVE  MaxRows \in Nat \ {0}
  <1>1. PICK bytes \in Nat : bytes = Budget * PageSize
    BY VacuumAssumption, TimesNat
  <1>2. PICK avg \in Nat \ {0} : avg = EstimateAvgRowBytes
    BY Estimates
  <1>3. bytes >= avg
    BY <1>1, <1>2
  <1>4. bytes \div avg >= 1
    BY <1>3
  <1>5. MaxRows = bytes \div avg
    BY <1>1, <1>2 DEF MaxRows
  <1>6. QED
    BY <1>4, <1>5, Estimates

\* Without rows the task is stuck: the share of no rows rounds to none.
LEMMA EmptyStuck ==
    ASSUME Inv, log = {}
    PROVE  Stuck
  <1>1. GetMaxLogId - GetMinLogId + 1 = 1
    BY DEF GetMaxLogId, GetMinLogId
  <1>2. TargetSize \in Nat /\ UsedPages \in Nat \ {0}
    BY VacuumAssumption, Estimates
  <1>3. CASE UsedPages <= TargetSize
    BY <1>3 DEF Stuck, Shares
  <1>4. CASE ~(UsedPages <= TargetSize)
    <2>1. PICK over \in 1..UsedPages : over = UsedPages - TargetSize
      BY <1>2, <1>4
    <2>2. 1 * over = over
      BY <1>2, <2>1
    <2>3. CASE over = UsedPages
      <3>1. over \div UsedPages = 1 /\ over % UsedPages = 0
        BY <1>2, <2>3
      <3>2. Shares = {0, 1}
        BY <1>1, <1>4, <2>1, <2>2, <3>1 DEF Shares
      <3>3. QED
        BY <3>2 DEF Stuck
    <2>4. CASE over # UsedPages
      <3>1. over \div UsedPages = 0
        BY <1>2, <2>1, <2>4
      <3>2. Shares = {0}
        BY <1>1, <1>4, <2>1, <2>2, <3>1 DEF Shares
      <3>3. QED
        BY <3>2 DEF Stuck
    <2>5. QED
      BY <2>3, <2>4
  <1>5. QED
    BY <1>3, <1>4

\* remove_excessive_logs of a database that is too large deletes the oldest row.
LEMMA ExcessStep ==
    ASSUME Inv, RemoveExcessiveLogs, UsedPages > MaxSize, ~Stuck
    PROVE  \E row \in log \ log' : row.id = GetMinLogId
  <1>1. log # {}
    BY EmptyStuck
  <1>2. PICK share \in Shares :
            log' = log \ {row \in log : row.id <= ExcessMaxId(share)}
    BY DEF RemoveExcessiveLogs, DeleteLogs
  <1>3. share \in Nat \ {0}
    BY <1>1, <1>2, SharesBound DEF Stuck
  <1>4. MaxRows \in Nat /\ (Limited => MaxRows # 0)
    BY Estimates, BudgetWorthRow DEF Stuck
  <1>5. GetMinLogId \in Nat
    BY MinMaxLogId
  <1>6. GetMinLogId <= ExcessMaxId(share)
    BY <1>3, <1>4, <1>5 DEF ExcessMaxId
  <1>7. PICK row \in log : row.id = GetMinLogId
    BY <1>1, OldestRow
  <1>8. QED
    BY <1>2, <1>6, <1>7

\* remove_stale_logs leaves an expired row only above the cap, and then the row
\* with the smallest id has gone, so that the cap rises, or the cap stays.
LEMMA StaleStep ==
    ASSUME Inv, RemoveStaleLogs, NEW row \in log \cap log', row.ts < Cutoff
    PROVE  /\ AboveCap(row)
           /\ CapStays \/ \E old \in log \ log' : old.id = GetMinLogId
  <1>1. log # {} /\ row.id \in Nat /\ \A other \in log : other.ts \in Nat
    BY VacuumAssumption DEF Inv, LogInv
  <1>2. Cutoff \in Int
    BY VacuumAssumption DEF Cutoff, Inv, TaskInv
  <1>3. GetMinTimestamp < Cutoff
    <2>1. PICK T : T = {other.ts : other \in log}
      OBVIOUS
    <2>2. T \subseteq Nat /\ T # {} /\ row.ts \in T
      BY <1>1, <2>1
    <2>3. \E m \in T : \A t \in T : m <= t
      BY <2>2, MinExists
    <2>4. Min(T) \in T /\ Min(T) <= row.ts
      BY <2>2, <2>3 DEF Min
    <2>5. GetMinTimestamp = Min(T)
      BY <2>1 DEF GetMinTimestamp
    <2>6. PICK least \in Nat : least = Min(T) /\ least <= row.ts
      BY <2>2, <2>4
    <2>7. least < Cutoff
      BY <1>1, <1>2, <2>6
    <2>8. QED
      BY <2>5, <2>6, <2>7
  <1>4. log' = log \ StaleRows
    BY <1>1, <1>3 DEF RemoveStaleLogs, DeleteLogs
  <1>5. /\ MaxRows \in Nat /\ GetMinLogId \in Nat /\ GetMaxLogId \in Nat
        /\ row.id <= GetMaxLogId
        /\ GetMinLogId <= GetMaxLogId
    <2>1. inserts \in Nat
      BY DEF Inv, FreeInv
    <2>2. QED
      BY <1>1, <2>1, MinMaxLogId, Estimates
  <1>6. PICK cap \in Int :
            cap = IF GetMinLogId + MaxRows - 1 < GetMaxLogId
                  THEN GetMinLogId + MaxRows - 1 ELSE GetMaxLogId
    BY <1>5
  <1>7. StaleRows = {other \in log : /\ other.ts <= Cutoff
                                     /\ Limited => other.id <= cap}
    BY <1>6 DEF StaleRows
  <1>8. Limited /\ ~(row.id <= cap)
    <2>1. row.ts <= Cutoff
      BY <1>1, <1>2
    <2>2. QED
      BY <1>4, <1>7, <2>1
  <1>9. AboveCap(row)
    BY <1>1, <1>5, <1>6, <1>8 DEF AboveCap
  <1>10. PICK old \in log : old.id = GetMinLogId
    BY <1>1, OldestRow
  <1>11. CASE MaxRows = 0 \/ old.ts > Cutoff
    BY <1>9, <1>10, <1>11 DEF CapStays
  <1>12. CASE MaxRows # 0 /\ ~(old.ts > Cutoff)
    <2>1. old.ts <= Cutoff /\ old.id <= cap
      BY <1>1, <1>2, <1>5, <1>6, <1>10, <1>12
    <2>2. old \notin log'
      BY <1>4, <1>7, <2>1
    <2>3. QED
      BY <1>9, <1>10, <2>2
  <1>13. QED
    BY <1>11, <1>12

\* The step behind Trimmed: whatever the gaps, the ratio and its rounding, each
\* remove_excessive_logs of a database above its maximal size deletes the row with
\* the smallest id, unless the task is stuck in one of the two named ways.
THEOREM ExcessMakesRoom ==
    Spec => [][(RemoveExcessiveLogs /\ UsedPages > MaxSize /\ ~Stuck)
                  => \E row \in log \ log' : row.id = GetMinLogId]_vars
  <1>1. Inv /\ [Next]_vars
            => [(RemoveExcessiveLogs /\ UsedPages > MaxSize /\ ~Stuck)
                   => \E row \in log \ log' : row.id = GetMinLogId]_vars
    BY ExcessStep
  <1>2. QED
    BY <1>1, Invariance, PTL DEF Spec

\* The step behind ExpiredGone: remove_stale_logs leaves a row past its age only
\* above the cap of an incremental pass, and either deletes the row that the cap
\* is counted from, so that the cap rises, or the cap stays where it is for one of
\* the two named reasons.
THEOREM StaleMakesRoom ==
    Spec => [][RemoveStaleLogs
                  => \A row \in log \cap log' :
                        row.ts < Cutoff =>
                            /\ AboveCap(row)
                            /\ \/ CapStays
                               \/ \E old \in log \ log' : old.id = GetMinLogId]_vars
  <1>1. Inv /\ [Next]_vars
            => [RemoveStaleLogs
                  => \A row \in log \cap log' :
                        row.ts < Cutoff =>
                            /\ AboveCap(row)
                            /\ \/ CapStays
                               \/ \E old \in log \ log' : old.id = GetMinLogId]_vars
    BY StaleStep
  <1>2. QED
    BY <1>1, Invariance, PTL DEF Spec

=============================================================================
