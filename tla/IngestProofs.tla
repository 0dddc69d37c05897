----------------------------- MODULE IngestProofs -----------------------------
(***************************************************************************)
(* Proofs about the write path, for every MaxSize > 0 and every value of   *)
(* the other constants.  The sequence operators of Ingest are first given  *)
(* their laws; after that the proofs treat Elems, Increasing and Before as *)
(* opaque and reason about sets and orders only.                           *)
(***************************************************************************)
EXTENDS Ingest, TLAPS

-----------------------------------------------------------------------------
(* Laws of Elems, Increasing and Before *)

\* An empty sequence has no elements, and is ordered with everything.
LEMMA EmptyLaws ==
    ASSUME NEW s \in Seq(Nat)
    PROVE  /\ Elems(<<>>) = {}
           /\ Increasing(<<>>)
           /\ Before(<<>>, s)
           /\ Before(s, <<>>)
  BY DEF Elems, Increasing, Before

\* The elements of a sequence of numbers are numbers.
LEMMA ElemsType ==
    ASSUME NEW s \in Seq(Nat)
    PROVE  Elems(s) \subseteq Nat
  BY DEF Elems

\* Appending a number, and concatenating, give sequences of numbers.
LEMMA SeqTypes ==
    ASSUME NEW s \in Seq(Nat), NEW t \in Seq(Nat), NEW e \in Nat
    PROVE  /\ Append(s, e) \in Seq(Nat)
           /\ Len(Append(s, e)) = Len(s) + 1
           /\ s \o t \in Seq(Nat)
           /\ Len(s \o t) = Len(s) + Len(t)
           /\ Len(s) \in Nat
           /\ <<>> \in Seq(Nat)
           /\ Len(<<>>) = 0
  OBVIOUS

\* Appending adds one element.
LEMMA ElemsAppend ==
    ASSUME NEW s \in Seq(Nat), NEW e \in Nat
    PROVE  Elems(Append(s, e)) = Elems(s) \cup {e}
  <1>1. Len(Append(s, e)) = Len(s) + 1
    OBVIOUS
  <1>2. \A i \in 1..Len(s) : Append(s, e)[i] = s[i]
    OBVIOUS
  <1>3. Append(s, e)[Len(s) + 1] = e
    OBVIOUS
  <1>4. Len(s) \in Nat
    OBVIOUS
  <1>5. Elems(Append(s, e)) \subseteq Elems(s) \cup {e}
    <2>1. SUFFICES ASSUME NEW i \in 1..(Len(s) + 1)
                   PROVE  Append(s, e)[i] \in Elems(s) \cup {e}
      BY <1>1 DEF Elems
    <2>2. CASE i = Len(s) + 1
      BY <2>2, <1>3
    <2>3. CASE i # Len(s) + 1
      <3>1. i \in 1..Len(s)
        BY <2>3, <1>4
      <3>2. QED
        BY <3>1, <1>2 DEF Elems
    <2>4. QED
      BY <2>2, <2>3
  <1>6. Elems(s) \subseteq Elems(Append(s, e))
    <2>1. SUFFICES ASSUME NEW i \in 1..Len(s)
                   PROVE  s[i] \in Elems(Append(s, e))
      BY DEF Elems
    <2>2. i \in 1..Len(Append(s, e)) /\ Append(s, e)[i] = s[i]
      BY <1>1, <1>2, <1>4
    <2>3. QED
      BY <2>2 DEF Elems
  <1>7. e \in Elems(Append(s, e))
    <2>1. Len(s) + 1 \in 1..Len(Append(s, e))
      BY <1>1, <1>4
    <2>2. QED
      BY <2>1, <1>3 DEF Elems
  <1>8. QED
    BY <1>5, <1>6, <1>7

\* The head and the tail of a sequence hold its elements between them.
LEMMA ElemsHeadTail ==
    ASSUME NEW s \in Seq(Nat), s # <<>>
    PROVE  /\ Head(s) \in Nat
           /\ Tail(s) \in Seq(Nat)
           /\ Len(Tail(s)) = Len(s) - 1
           /\ Elems(s) = {Head(s)} \cup Elems(Tail(s))
  <1>1. /\ Len(s) \in Nat \ {0}
        /\ Tail(s) \in Seq(Nat)
        /\ Len(Tail(s)) = Len(s) - 1
        /\ Head(s) = s[1]
        /\ Head(s) \in Nat
    OBVIOUS
  <1>2. \A i \in 1..(Len(s) - 1) : Tail(s)[i] = s[i + 1]
    OBVIOUS
  <1>3. Elems(s) \subseteq {Head(s)} \cup Elems(Tail(s))
    <2>1. SUFFICES ASSUME NEW i \in 1..Len(s)
                   PROVE  s[i] \in {Head(s)} \cup Elems(Tail(s))
      BY DEF Elems
    <2>2. CASE i = 1
      BY <2>2, <1>1
    <2>3. CASE i # 1
      <3>1. i - 1 \in 1..Len(Tail(s)) /\ Tail(s)[i - 1] = s[i]
        BY <2>3, <1>1, <1>2
      <3>2. QED
        BY <3>1 DEF Elems
    <2>4. QED
      BY <2>2, <2>3
  <1>4. Elems(Tail(s)) \subseteq Elems(s)
    <2>1. SUFFICES ASSUME NEW i \in 1..Len(Tail(s))
                   PROVE  Tail(s)[i] \in Elems(s)
      BY DEF Elems
    <2>2. i + 1 \in 1..Len(s) /\ s[i + 1] = Tail(s)[i]
      BY <1>1, <1>2
    <2>3. QED
      BY <2>2 DEF Elems
  <1>5. Head(s) \in Elems(s)
    BY <1>1 DEF Elems
  <1>6. QED
    BY <1>1, <1>3, <1>4, <1>5

\* Concatenation unites the elements.
LEMMA ElemsConcat ==
    ASSUME NEW s \in Seq(Nat), NEW t \in Seq(Nat)
    PROVE  Elems(s \o t) = Elems(s) \cup Elems(t)
  <1>1. /\ Len(s) \in Nat /\ Len(t) \in Nat
        /\ Len(s \o t) = Len(s) + Len(t)
        /\ \A i \in 1..Len(s) : (s \o t)[i] = s[i]
        /\ \A i \in 1..Len(t) : (s \o t)[Len(s) + i] = t[i]
    OBVIOUS
  <1>2. Elems(s \o t) \subseteq Elems(s) \cup Elems(t)
    <2>1. SUFFICES ASSUME NEW i \in 1..Len(s \o t)
                   PROVE  (s \o t)[i] \in Elems(s) \cup Elems(t)
      BY DEF Elems
    <2>2. CASE i <= Len(s)
      <3>1. i \in 1..Len(s)
        BY <2>2, <1>1
      <3>2. QED
        BY <3>1, <1>1 DEF Elems
    <2>3. CASE ~(i <= Len(s))
      <3>1. i - Len(s) \in 1..Len(t) /\ (s \o t)[i] = t[i - Len(s)]
        BY <2>3, <1>1
      <3>2. QED
        BY <3>1 DEF Elems
    <2>4. QED
      BY <2>2, <2>3
  <1>3. Elems(s) \subseteq Elems(s \o t)
    <2>1. SUFFICES ASSUME NEW i \in 1..Len(s)
                   PROVE  s[i] \in Elems(s \o t)
      BY DEF Elems
    <2>2. i \in 1..Len(s \o t) /\ (s \o t)[i] = s[i]
      BY <1>1
    <2>3. QED
      BY <2>2 DEF Elems
  <1>4. Elems(t) \subseteq Elems(s \o t)
    <2>1. SUFFICES ASSUME NEW i \in 1..Len(t)
                   PROVE  t[i] \in Elems(s \o t)
      BY DEF Elems
    <2>2. Len(s) + i \in 1..Len(s \o t) /\ (s \o t)[Len(s) + i] = t[i]
      BY <1>1
    <2>3. QED
      BY <2>2 DEF Elems
  <1>5. QED
    BY <1>2, <1>3, <1>4

\* Before, in terms of elements.
LEMMA BeforeElems ==
    ASSUME NEW s \in Seq(Nat), NEW t \in Seq(Nat)
    PROVE  Before(s, t) <=> \A x \in Elems(s) : \A y \in Elems(t) : x < y
  BY DEF Before, Elems

\* A sequence stays increasing when a larger element is appended.
LEMMA IncreasingAppend ==
    ASSUME NEW s \in Seq(Nat), NEW e \in Nat, Increasing(s),
           \A x \in Elems(s) : x < e
    PROVE  Increasing(Append(s, e))
  <1>1. /\ Len(s) \in Nat
        /\ Len(Append(s, e)) = Len(s) + 1
        /\ \A i \in 1..Len(s) : Append(s, e)[i] = s[i]
        /\ Append(s, e)[Len(s) + 1] = e
    OBVIOUS
  <1>2. SUFFICES ASSUME NEW i \in 1..(Len(s) + 1), NEW j \in 1..(Len(s) + 1),
                        i < j
                 PROVE  Append(s, e)[i] < Append(s, e)[j]
    BY <1>1 DEF Increasing
  <1>3. i \in 1..Len(s)
    BY <1>1, <1>2
  <1>4. s[i] < e
    BY <1>3 DEF Elems
  <1>5. QED
    BY <1>1, <1>2, <1>3, <1>4 DEF Increasing

\* The head of an increasing sequence is smaller than its tail, which is
\* increasing.
LEMMA IncreasingTail ==
    ASSUME NEW s \in Seq(Nat), s # <<>>, Increasing(s)
    PROVE  /\ Increasing(Tail(s))
           /\ \A x \in Elems(Tail(s)) : Head(s) < x
  <1>1. /\ Len(s) \in Nat \ {0}
        /\ Tail(s) \in Seq(Nat)
        /\ Len(Tail(s)) = Len(s) - 1
        /\ Head(s) = s[1]
        /\ \A i \in 1..(Len(s) - 1) : Tail(s)[i] = s[i + 1]
    OBVIOUS
  <1>2. Increasing(Tail(s))
    <2>1. SUFFICES ASSUME NEW i \in 1..(Len(s) - 1), NEW j \in 1..(Len(s) - 1),
                          i < j
                   PROVE  Tail(s)[i] < Tail(s)[j]
      BY <1>1 DEF Increasing
    <2>2. i + 1 \in 1..Len(s) /\ j + 1 \in 1..Len(s) /\ i + 1 < j + 1
      BY <1>1, <2>1
    <2>3. s[i + 1] < s[j + 1]
      BY <2>2 DEF Increasing
    <2>4. QED
      BY <2>3, <1>1
  <1>3. ASSUME NEW i \in 1..Len(Tail(s))
        PROVE  Head(s) < Tail(s)[i]
    <2>1. 1 \in 1..Len(s) /\ i + 1 \in 1..Len(s) /\ 1 < i + 1
      BY <1>1
    <2>2. s[1] < s[i + 1]
      BY <2>1 DEF Increasing
    <2>3. QED
      BY <2>2, <1>1
  <1>4. QED
    BY <1>2, <1>3 DEF Elems

\* Two increasing sequences, one before the other, form an increasing one.
LEMMA IncreasingConcat ==
    ASSUME NEW s \in Seq(Nat), NEW t \in Seq(Nat),
           Increasing(s), Increasing(t), Before(s, t)
    PROVE  Increasing(s \o t)
  <1>1. /\ Len(s) \in Nat /\ Len(t) \in Nat
        /\ Len(s \o t) = Len(s) + Len(t)
        /\ \A i \in 1..Len(s) : (s \o t)[i] = s[i]
        /\ \A i \in 1..Len(t) : (s \o t)[Len(s) + i] = t[i]
    OBVIOUS
  <1>2. SUFFICES ASSUME NEW i \in 1..(Len(s) + Len(t)),
                        NEW j \in 1..(Len(s) + Len(t)), i < j
                 PROVE  (s \o t)[i] < (s \o t)[j]
    BY <1>1 DEF Increasing
  <1>3. CASE j <= Len(s)
    <2>1. i \in 1..Len(s) /\ j \in 1..Len(s)
      BY <1>1, <1>2, <1>3
    <2>2. QED
      BY <2>1, <1>1, <1>2 DEF Increasing
  <1>4. CASE ~(j <= Len(s)) /\ i <= Len(s)
    <2>1. i \in 1..Len(s) /\ j - Len(s) \in 1..Len(t)
          /\ (s \o t)[j] = t[j - Len(s)]
      BY <1>1, <1>2, <1>4
    <2>2. QED
      BY <2>1, <1>1 DEF Before
  <1>5. CASE ~(j <= Len(s)) /\ ~(i <= Len(s))
    <2>1. /\ i - Len(s) \in 1..Len(t) /\ j - Len(s) \in 1..Len(t)
          /\ i - Len(s) < j - Len(s)
          /\ (s \o t)[i] = t[i - Len(s)] /\ (s \o t)[j] = t[j - Len(s)]
      BY <1>1, <1>2, <1>5
    <2>2. QED
      BY <2>1 DEF Increasing
  <1>6. QED
    BY <1>3, <1>4, <1>5

-----------------------------------------------------------------------------
(* The inductive invariant *)

\* Where the flush task is determines which buffers can hold anything.
Shape ==
    /\ flush_pc \in {"poll", "notify", "stopped", "crashed"} => logs = <<>>
    /\ flush_pc # "rows" => txn = <<>>
    /\ phase = "closed" => flush_pc = "stopped"

\* The backlog holds exactly the latest Len(queue) entries received.
Consecutive ==
    /\ Len(queue) <= accepted
    /\ \A i \in 1..Len(queue) : queue[i] = (accepted - Len(queue)) + i

\* What the flush task has announced, at each of its points.
AnnouncedAt ==
    /\ last_id <= Len(stored)
    /\ flush_pc \in {"poll", "insert", "rows"} => last_id = Len(stored)
    /\ flush_pc = "notify" => max_id = Len(stored)

\* The order and the whereabouts of the entries.
Entries == InOrder /\ Accounted /\ GoneForGood

\* The backlog's own part.
BacklogInv == Consecutive /\ DropOldest /\ WatermarkExact

IInv == TypeOK /\ Shape /\ Entries /\ BacklogInv /\ AnnouncedAt

-----------------------------------------------------------------------------
(* Types *)

\* Backlog::Add keeps the types of the backlog's state.
LEMMA AddType ==
    ASSUME TypeOK, NEW e \in Nat, Add(e)
    PROVE  /\ queue' \in Seq(Nat) /\ is_full' \in BOOLEAN
           /\ evicted' \subseteq Nat
  <1>1. queue \in Seq(Nat) /\ evicted \subseteq Nat
    BY DEF TypeOK
  <1>2. is_full' \in BOOLEAN
    BY DEF Add, AtWatermark
  <1>3. CASE Len(queue) >= MaxSize
    <2>1. queue # <<>>
      BY <1>3, <1>1, MaxSizeAssumption
    <2>2. Head(queue) \in Nat /\ Tail(queue) \in Seq(Nat)
      BY <2>1, <1>1, ElemsHeadTail
    <2>3. queue' = Append(Tail(queue), e) /\ evicted' = evicted \cup {Head(queue)}
      BY <1>3 DEF Add
    <2>4. Append(Tail(queue), e) \in Seq(Nat)
      BY <2>2, SeqTypes
    <2>5. QED
      BY <1>1, <1>2, <2>2, <2>3, <2>4
  <1>4. CASE ~(Len(queue) >= MaxSize)
    <2>1. queue' = Append(queue, e) /\ evicted' = evicted
      BY <1>4 DEF Add
    <2>2. Append(queue, e) \in Seq(Nat)
      BY <1>1, SeqTypes
    <2>3. QED
      BY <1>1, <1>2, <2>1, <2>2
  <1>5. QED
    BY <1>3, <1>4

\* The end of the process keeps the types.
LEMMA LoseMemoryType ==
    ASSUME TypeOK, LoseMemory, clean' \in BOOLEAN
    PROVE  TypeOK'
  <1>1. lost' \subseteq Nat
    BY ElemsType DEF TypeOK, LoseMemory
  <1>2. is_full' \in BOOLEAN
    BY DEF LoseMemory
  <1>3. queue' \in Seq(Nat) /\ logs' \in Seq(Nat) /\ txn' \in Seq(Nat)
    BY DEF LoseMemory
  <1>4. /\ evicted' = evicted /\ rejected' = rejected /\ stored' = stored
        /\ accepted' = accepted /\ body' = 0 /\ ticks' = 0
        /\ max_id' = max_id /\ last_id' = last_id /\ restarts' = restarts
        /\ at_stop' = at_stop /\ phase' = "closed" /\ flush_pc' = "stopped"
    BY DEF LoseMemory, idVars
  <1>5. QED
    BY <1>1, <1>2, <1>3, <1>4 DEF TypeOK, FlushPCs

\* Each step keeps the type invariant.
LEMMA TypeStep ==
    ASSUME TypeOK, [Next]_vars
    PROVE  TypeOK'
  <1>a. USE DEF FlushPCs, backlogVars, dropVars, idVars, lifeVars
  <1>1. ASSUME NEW n \in 1..MaxBody, HandleInsert(n) PROVE TypeOK'
    BY <1>1, IngestAssumption DEF TypeOK, HandleInsert
  <1>2. CASE HandlerAdd
    <2>1. accepted + 1 \in Nat /\ body - 1 \in Nat
      BY <1>2 DEF TypeOK, HandlerAdd
    <2>2. queue' \in Seq(Nat) /\ is_full' \in BOOLEAN /\ evicted' \subseteq Nat
      BY <1>2, <2>1, AddType DEF HandlerAdd
    <2>3. QED
      BY <1>2, <2>1, <2>2 DEF TypeOK, HandlerAdd
  <1>3. CASE HarvesterIngest
    <2>1. accepted + 1 \in Nat
      BY DEF TypeOK
    <2>2. queue' \in Seq(Nat) /\ is_full' \in BOOLEAN /\ evicted' \subseteq Nat
      BY <1>3, <2>1, AddType DEF HarvesterIngest
    <2>3. QED
      BY <1>3, <2>1, <2>2 DEF TypeOK, HarvesterIngest
  <1>4. CASE PollTick
    BY <1>4 DEF TypeOK, PollTick
  <1>5. CASE FlushWake
    <2>1. logs' \in Seq(Nat)
      <3>1. logs' = logs \/ logs' = queue
        BY <1>5 DEF FlushWake
      <3>2. QED
        BY <3>1 DEF TypeOK
    <2>2. queue' \in Seq(Nat)
      <3>1. queue' = queue \/ queue' = <<>>
        BY <1>5 DEF FlushWake, Flush
      <3>2. <<>> \in Seq(Nat) /\ queue \in Seq(Nat)
        BY DEF TypeOK
      <3>3. QED
        BY <3>1, <3>2
    <2>3. is_full' \in BOOLEAN
      BY <1>5 DEF TypeOK, FlushWake, Flush
    <2>4. flush_pc' \in FlushPCs /\ evicted' = evicted
      BY <1>5 DEF FlushWake, Flush
    <2>5. ticks' \in Nat
      BY <1>5 DEF TypeOK, FlushWake
    <2>6. QED
      BY <1>5, <2>1, <2>2, <2>3, <2>4, <2>5 DEF TypeOK, FlushWake
  <1>6. CASE InsertBegin
    BY <1>6 DEF TypeOK, InsertBegin
  <1>7. CASE InsertRow
    <2>1. logs # <<>> /\ logs \in Seq(Nat) /\ txn \in Seq(Nat)
      BY <1>7 DEF TypeOK, InsertRow
    <2>2. PICK h \in Nat : h = Head(logs)
      BY <2>1, ElemsHeadTail
    <2>3. logs' \in Seq(Nat)
      BY <1>7, <2>1, ElemsHeadTail DEF InsertRow
    <2>4. txn' \in Seq(Nat) /\ rejected' \subseteq Nat
      <3>1. Append(txn, h) \in Seq(Nat)
        BY <2>1, SeqTypes
      <3>2. QED
        BY <1>7, <2>1, <2>2, <3>1 DEF TypeOK, InsertRow
    <2>5. QED
      BY <1>7, <2>3, <2>4 DEF TypeOK, InsertRow
  <1>8. CASE InsertCommit
    <2>1. stored' \in Seq(Nat) /\ txn' \in Seq(Nat) /\ max_id' \in Nat
      BY <1>8 DEF TypeOK, InsertCommit
    <2>2. QED
      BY <1>8, <2>1 DEF TypeOK, InsertCommit
  <1>9. CASE GetMaxIdThrow
    <2>1. stored' \in Seq(Nat) /\ txn' \in Seq(Nat)
      BY <1>9 DEF TypeOK, GetMaxIdThrow
    <2>2. clean' \in BOOLEAN
      BY <1>9 DEF GetMaxIdThrow
    <2>3. QED
      BY <1>9, <2>1, <2>2 DEF TypeOK, GetMaxIdThrow
  <1>10. CASE InsertThrow
    <2>1. logs' \in Seq(Nat) /\ txn' \in Seq(Nat)
      BY <1>10 DEF InsertThrow
    <2>2. clean' \in BOOLEAN
      BY <1>10 DEF InsertThrow
    <2>3. lost' \subseteq Nat
      BY <1>10, ElemsType DEF TypeOK, InsertThrow
    <2>4. QED
      BY <1>10, <2>1, <2>2, <2>3 DEF TypeOK, InsertThrow
  <1>11. CASE NotifyStep
    BY <1>11 DEF TypeOK, NotifyStep
  <1>12. CASE Stop
    BY <1>12 DEF TypeOK, Stop
  <1>13. CASE TaskError
    BY <1>13 DEF TypeOK, TaskError
  <1>14. CASE AcceptLoopExit
    BY <1>14 DEF TypeOK, AcceptLoopExit
  <1>15. CASE TearDown
    <2>1. clean' \in BOOLEAN
      BY <1>15 DEF TypeOK, TearDown
    <2>2. QED
      BY <1>15, <2>1, LoseMemoryType DEF TearDown
  <1>16. CASE Crash
    <2>1. clean' \in BOOLEAN
      BY <1>16 DEF Crash
    <2>2. QED
      BY <1>16, <2>1, LoseMemoryType DEF Crash
  <1>17. CASE Restart
    <2>1. Len(stored) \in Nat
      BY DEF TypeOK
    <2>2. QED
      BY <1>17, <2>1 DEF TypeOK, Restart
  <1>18. CASE StepEndsTransaction
    <2>1. logs # <<>> /\ logs \in Seq(Nat)
      BY <1>18 DEF TypeOK, StepEndsTransaction
    <2>2. logs' \in Seq(Nat) /\ Head(logs) \in Nat
      BY <1>18, <2>1, ElemsHeadTail DEF StepEndsTransaction
    <2>3. txn' \in Seq(Nat) /\ lost' \subseteq Nat /\ clean' \in BOOLEAN
      <3>1. txn' = <<>> /\ clean' = FALSE /\ lost' = lost \cup Elems(txn)
        BY <1>18 DEF StepEndsTransaction
      <3>2. lost' \subseteq Nat
        BY <3>1, ElemsType DEF TypeOK
      <3>3. clean' \in BOOLEAN
        BY <3>1
      <3>4. QED
        BY <3>1, <3>2, <3>3
    <2>4. rejected' \subseteq Nat
      BY <1>18, <2>2 DEF TypeOK, StepEndsTransaction
    <2>5. QED
      BY <1>18, <2>2, <2>3, <2>4 DEF TypeOK, StepEndsTransaction
  <1>19. CASE AutocommitRow
    <2>1. logs # <<>> /\ logs \in Seq(Nat) /\ stored \in Seq(Nat)
      BY <1>19 DEF TypeOK, AutocommitRow
    <2>2. PICK h \in Nat : h = Head(logs)
      BY <2>1, ElemsHeadTail
    <2>3. logs' \in Seq(Nat)
      BY <1>19, <2>1, ElemsHeadTail DEF AutocommitRow
    <2>4. stored' \in Seq(Nat) /\ rejected' \subseteq Nat
      <3>1. Append(stored, h) \in Seq(Nat)
        BY <2>1, SeqTypes
      <3>2. QED
        BY <1>19, <2>1, <2>2, <3>1 DEF TypeOK, AutocommitRow
    <2>5. QED
      BY <1>19, <2>3, <2>4 DEF TypeOK, AutocommitRow
  <1>20. CASE CommitThrow
    BY <1>20 DEF TypeOK, CommitThrow
  <1>21. CASE UNCHANGED vars
    BY <1>21 DEF TypeOK, vars
  <1>22. QED
    BY <1>1, <1>2, <1>3, <1>4, <1>5, <1>6, <1>7, <1>8, <1>9, <1>10, <1>11,
       <1>12, <1>13, <1>14, <1>15, <1>16, <1>17, <1>18, <1>19, <1>20,
       <1>21 DEF Next, FlushStep

-----------------------------------------------------------------------------
(* The order and the whereabouts of the entries *)

\* Backlog::Add, when the queue is full: the head, and only the head, makes
\* room for the new entry.
LEMMA AddFullEntries ==
    ASSUME TypeOK, Entries, Add(accepted + 1), Len(queue) >= MaxSize,
           accepted' = accepted + 1,
           UNCHANGED <<logs, txn, stored, rejected, lost>>
    PROVE  Entries'
  <1> DEFINE h == Head(queue)
             r == Tail(queue)
             e == accepted + 1
  <1>1. queue \in Seq(Nat) /\ queue # <<>> /\ e \in Nat /\ accepted \in Nat
    BY MaxSizeAssumption DEF TypeOK
  <1>2. /\ h \in Nat /\ r \in Seq(Nat)
        /\ Elems(queue) = {h} \cup Elems(r)
    BY <1>1, ElemsHeadTail
  <1>3. queue' = Append(r, e) /\ evicted' = evicted \cup {h}
    BY DEF Add
  <1>4. queue' \in Seq(Nat) /\ Elems(queue') = Elems(r) \cup {e}
    BY <1>1, <1>2, <1>3, ElemsAppend, SeqTypes
  <1>5. Increasing(r) /\ \A x \in Elems(r) : h < x
    BY <1>1, IncreasingTail DEF Entries, InOrder
  <1>6. /\ Elems(queue) \subseteq 1..accepted /\ Elems(logs) \subseteq 1..accepted
        /\ Elems(txn) \subseteq 1..accepted /\ Elems(stored) \subseteq 1..accepted
        /\ Gone \subseteq 1..accepted
    BY DEF Entries, Accounted, InMemory
  <1>7. \A x \in 1..accepted : x < e /\ x # e
    BY <1>1
  <1>8. Increasing(queue')
    BY <1>1, <1>2, <1>3, <1>5, <1>6, <1>7, IncreasingAppend
  <1>9. /\ logs \in Seq(Nat) /\ txn \in Seq(Nat) /\ stored \in Seq(Nat)
        /\ logs' \in Seq(Nat) /\ txn' \in Seq(Nat) /\ stored' \in Seq(Nat)
    BY DEF TypeOK
  <1>10. InOrder'
    <2>1. /\ Increasing(stored) /\ Increasing(txn) /\ Increasing(logs)
          /\ Before(stored, txn) /\ Before(stored, logs) /\ Before(txn, logs)
      BY DEF Entries, InOrder
    <2>2. ASSUME NEW s \in Seq(Nat), Before(s, queue), Elems(s) \subseteq 1..accepted
          PROVE  Before(s, queue')
      <3>1. \A x \in Elems(s) : \A y \in Elems(r) : x < y
        BY <2>2, <1>1, <1>2, BeforeElems
      <3>2. \A x \in Elems(s) : x < e
        BY <2>2, <1>7
      <3>3. QED
        BY <3>1, <3>2, <1>4, BeforeElems
    <2>3. Before(stored, queue') /\ Before(txn, queue') /\ Before(logs, queue')
      BY <2>2, <1>6, <1>9 DEF Entries, InOrder
    <2>4. QED
      BY <2>1, <2>3, <1>8 DEF InOrder
  <1>11. Accounted'
    <2>1. 1..(accepted + 1) = (1..accepted) \cup {e}
      BY <1>1
    <2>2. QED
      BY <2>1, <1>2, <1>3, <1>4 DEF Entries, Accounted, InMemory, Gone
  <1>12. h \notin Elems(r) \cup Elems(logs) \cup Elems(txn) \cup Elems(stored)
    <2>1. h \notin Elems(r)
      BY <1>2, <1>5
    <2>2. \A x \in Elems(logs) \cup Elems(txn) \cup Elems(stored) : x < h
      BY <1>1, <1>2, <1>9, BeforeElems DEF Entries, InOrder
    <2>3. QED
      BY <1>2, <2>1, <2>2
  <1>13. h \notin Gone
    BY <1>2 DEF Entries, GoneForGood, InMemory
  <1>14. e \notin Gone \cup {h}
    BY <1>2, <1>6, <1>7
  <1>15. GoneForGood'
    BY <1>2, <1>3, <1>4, <1>12, <1>13, <1>14
       DEF Entries, GoneForGood, InMemory, Gone
  <1>16. QED
    BY <1>10, <1>11, <1>15 DEF Entries

\* Backlog::Add, when there is room.
LEMMA AddRoomEntries ==
    ASSUME TypeOK, Entries, Add(accepted + 1), ~(Len(queue) >= MaxSize),
           accepted' = accepted + 1,
           UNCHANGED <<logs, txn, stored, rejected, lost>>
    PROVE  Entries'
  <1> DEFINE e == accepted + 1
  <1>1. queue \in Seq(Nat) /\ e \in Nat /\ accepted \in Nat
    BY DEF TypeOK
  <1>2. queue' = Append(queue, e) /\ evicted' = evicted
    BY DEF Add
  <1>3. queue' \in Seq(Nat) /\ Elems(queue') = Elems(queue) \cup {e}
    BY <1>1, <1>2, ElemsAppend, SeqTypes
  <1>4. /\ Elems(queue) \subseteq 1..accepted /\ Elems(logs) \subseteq 1..accepted
        /\ Elems(txn) \subseteq 1..accepted /\ Elems(stored) \subseteq 1..accepted
        /\ Gone \subseteq 1..accepted
    BY DEF Entries, Accounted, InMemory
  <1>5. \A x \in 1..accepted : x < e /\ x # e
    BY <1>1
  <1>6. Increasing(queue')
    BY <1>1, <1>2, <1>4, <1>5, IncreasingAppend DEF Entries, InOrder
  <1>7. /\ logs \in Seq(Nat) /\ txn \in Seq(Nat) /\ stored \in Seq(Nat)
    BY DEF TypeOK
  <1>8. InOrder'
    <2>1. /\ Increasing(stored) /\ Increasing(txn) /\ Increasing(logs)
          /\ Before(stored, txn) /\ Before(stored, logs) /\ Before(txn, logs)
      BY DEF Entries, InOrder
    <2>2. ASSUME NEW s \in Seq(Nat), Before(s, queue), Elems(s) \subseteq 1..accepted
          PROVE  Before(s, queue')
      <3>1. \A x \in Elems(s) : \A y \in Elems(queue) : x < y
        BY <2>2, <1>1, BeforeElems
      <3>2. \A x \in Elems(s) : x < e
        BY <2>2, <1>5
      <3>3. QED
        BY <3>1, <3>2, <1>3, BeforeElems
    <2>3. Before(stored, queue') /\ Before(txn, queue') /\ Before(logs, queue')
      BY <2>2, <1>4, <1>7 DEF Entries, InOrder
    <2>4. QED
      BY <2>1, <2>3, <1>6 DEF InOrder
  <1>9. Accounted'
    <2>1. 1..(accepted + 1) = (1..accepted) \cup {e}
      BY <1>1
    <2>2. QED
      BY <2>1, <1>2, <1>3 DEF Entries, Accounted, InMemory, Gone
  <1>10. e \notin Gone
    BY <1>4, <1>5
  <1>11. GoneForGood'
    BY <1>2, <1>3, <1>10 DEF Entries, GoneForGood, InMemory, Gone
  <1>12. QED
    BY <1>8, <1>9, <1>11 DEF Entries

\* Backlog::Add keeps the backlog bounded, contiguous and flagged.
LEMMA AddBacklogInv ==
    ASSUME TypeOK, BacklogInv, Add(accepted + 1), accepted' = accepted + 1
    PROVE  BacklogInv'
  <1>1. /\ queue \in Seq(Nat) /\ accepted \in Nat /\ MaxSize \in Nat \ {0}
        /\ evicted \subseteq Nat /\ Len(queue) \in Nat /\ accepted + 1 \in Nat
    BY MaxSizeAssumption DEF TypeOK
  <1>2. /\ Len(queue) <= MaxSize /\ Len(queue) <= accepted
        /\ \A i \in 1..Len(queue) : queue[i] = (accepted - Len(queue)) + i
        /\ \A x \in evicted : x + MaxSize <= accepted
    BY DEF BacklogInv, Consecutive, DropOldest
  <1>3. CASE Len(queue) >= MaxSize
    <2>1. queue # <<>> /\ Len(queue) = MaxSize
      BY <1>1, <1>2, <1>3
    <2>2. queue' = Append(Tail(queue), accepted + 1)
          /\ evicted' = evicted \cup {Head(queue)}
      BY <1>3 DEF Add
    <2>3. /\ Tail(queue) \in Seq(Nat) /\ Len(Tail(queue)) = MaxSize - 1
          /\ \A i \in 1..(MaxSize - 1) : Tail(queue)[i] = queue[i + 1]
          /\ Head(queue) = queue[1]
      BY <1>1, <2>1
    <2>4. Len(queue') = MaxSize
      BY <1>1, <2>2, <2>3, SeqTypes
    <2>5. Consecutive'
      <3>1. SUFFICES ASSUME NEW i \in 1..MaxSize
                     PROVE  queue'[i] = ((accepted + 1) - MaxSize) + i
        BY <1>1, <1>2, <2>1, <2>4 DEF Consecutive
      <3>2. CASE i = MaxSize
        BY <3>2, <1>1, <2>2, <2>3
      <3>3. CASE i # MaxSize
        <4>1. i \in 1..(MaxSize - 1) /\ i + 1 \in 1..Len(queue)
          BY <3>3, <1>1, <2>1
        <4>2. queue'[i] = queue[i + 1]
          BY <4>1, <1>1, <2>2, <2>3
        <4>3. queue[i + 1] = (accepted - MaxSize) + (i + 1)
          BY <4>1, <1>2, <2>1
        <4>4. QED
          BY <4>1, <4>2, <4>3, <1>1
      <3>4. QED
        BY <3>2, <3>3
    <2>6. Head(queue) + MaxSize <= accepted + 1
      <3>1. queue[1] = (accepted - MaxSize) + 1
        BY <1>1, <1>2, <2>1
      <3>2. QED
        BY <3>1, <2>3, <1>1
    <2>7. DropOldest'
      BY <1>1, <1>2, <2>2, <2>4, <2>6 DEF DropOldest
    <2>8. AtWatermark(queue)' /\ AtWatermark(queue)
      BY <1>1, <2>1, <2>4 DEF AtWatermark
    <2>9. WatermarkExact'
      BY <2>8 DEF Add, WatermarkExact
    <2>10. QED
      BY <2>5, <2>7, <2>9 DEF BacklogInv
  <1>4. CASE ~(Len(queue) >= MaxSize)
    <2>1. queue' = Append(queue, accepted + 1) /\ evicted' = evicted
      BY <1>4 DEF Add
    <2>2. Len(queue') = Len(queue) + 1 /\ Len(queue') <= MaxSize
      BY <1>1, <1>4, <2>1, SeqTypes
    <2>3. Consecutive'
      <3>1. SUFFICES ASSUME NEW i \in 1..(Len(queue) + 1)
                     PROVE  queue'[i] = ((accepted + 1) - (Len(queue) + 1)) + i
        BY <1>1, <1>2, <2>2 DEF Consecutive
      <3>2. CASE i = Len(queue) + 1
        BY <3>2, <1>1, <2>1
      <3>3. CASE i # Len(queue) + 1
        <4>1. i \in 1..Len(queue)
          BY <3>3, <1>1
        <4>2. queue'[i] = queue[i]
          BY <4>1, <1>1, <2>1
        <4>3. QED
          BY <4>1, <4>2, <1>1, <1>2
      <3>4. QED
        BY <3>2, <3>3
    <2>4. DropOldest'
      BY <1>1, <1>2, <2>1, <2>2 DEF DropOldest
    <2>5. AtWatermark(queue) => AtWatermark(queue)'
      BY <1>1, <2>2 DEF AtWatermark
    <2>6. WatermarkExact'
      BY <2>5 DEF Add, WatermarkExact, BacklogInv
    <2>7. QED
      BY <2>3, <2>4, <2>6 DEF BacklogInv
  <1>5. QED
    BY <1>3, <1>4

\* An emptied backlog satisfies its invariant.
LEMMA EmptyBacklogInv ==
    ASSUME TypeOK, BacklogInv, queue' = <<>>, is_full' = FALSE,
           UNCHANGED <<evicted, accepted>>
    PROVE  BacklogInv'
  <1>1. Len(queue') = 0 /\ accepted \in Nat /\ MaxSize \in Nat \ {0}
    BY MaxSizeAssumption DEF TypeOK
  <1>2. Consecutive' /\ DropOldest'
    BY <1>1 DEF BacklogInv, Consecutive, DropOldest
  <1>3. ~AtWatermark(queue)'
    BY <1>1 DEF AtWatermark
  <1>4. QED
    BY <1>2, <1>3 DEF BacklogInv, WatermarkExact

\* The flush task takes the whole queue as its batch.
LEMMA FlushEntries ==
    ASSUME TypeOK, Entries, logs = <<>>, logs' = queue, queue' = <<>>,
           UNCHANGED <<accepted, txn, stored, evicted, rejected, lost>>
    PROVE  Entries'
  <1>1. /\ queue \in Seq(Nat) /\ txn \in Seq(Nat) /\ stored \in Seq(Nat)
    BY DEF TypeOK
  <1>2. Elems(queue') = {} /\ Elems(logs) = {}
    BY <1>1, EmptyLaws
  <1>3. InOrder'
    BY <1>1, EmptyLaws DEF Entries, InOrder
  <1>4. Accounted' /\ GoneForGood'
    BY <1>2 DEF Entries, Accounted, GoneForGood, InMemory, Gone
  <1>5. QED
    BY <1>3, <1>4 DEF Entries

\* The row loop of Insert moves the head of the batch into the transaction,
\* or rejects it.
LEMMA InsertRowEntries ==
    ASSUME TypeOK, Entries, InsertRow
    PROVE  Entries'
  <1> DEFINE h == Head(logs)
             r == Tail(logs)
  <1>1. /\ queue \in Seq(Nat) /\ logs \in Seq(Nat) /\ txn \in Seq(Nat)
        /\ stored \in Seq(Nat) /\ logs # <<>>
    BY DEF TypeOK, InsertRow
  <1>2. /\ h \in Nat /\ r \in Seq(Nat)
        /\ Elems(logs) = {h} \cup Elems(r)
    BY <1>1, ElemsHeadTail
  <1>3. /\ queue' = queue /\ stored' = stored /\ logs' = r
        /\ accepted' = accepted /\ evicted' = evicted /\ lost' = lost
    BY DEF InsertRow, backlogVars
  <1>4. Increasing(r) /\ \A x \in Elems(r) : h < x
    BY <1>1, IncreasingTail DEF Entries, InOrder
  <1>5. /\ Increasing(stored) /\ Increasing(txn) /\ Increasing(queue)
        /\ Before(stored, txn) /\ Before(stored, queue) /\ Before(txn, queue)
    BY DEF Entries, InOrder
  <1>6. /\ \A x \in Elems(stored) : \A y \in Elems(logs) : x < y
        /\ \A x \in Elems(txn) : \A y \in Elems(logs) : x < y
        /\ \A x \in Elems(logs) : \A y \in Elems(queue) : x < y
    BY <1>1, BeforeElems DEF Entries, InOrder
  <1>7. Before(stored, r) /\ Before(txn, r) /\ Before(r, queue)
    BY <1>1, <1>2, <1>6, BeforeElems
  <1>8. CASE txn' = Append(txn, h) /\ rejected' = rejected
    <2>1. txn' \in Seq(Nat) /\ Elems(txn') = Elems(txn) \cup {h}
      BY <1>1, <1>2, <1>8, ElemsAppend, SeqTypes
    <2>2. Increasing(txn')
      BY <1>1, <1>2, <1>5, <1>6, <1>8, IncreasingAppend
    <2>3. /\ \A x \in Elems(stored) : \A y \in Elems(txn') : x < y
          /\ \A x \in Elems(txn') : \A y \in Elems(r) : x < y
          /\ \A x \in Elems(txn') : \A y \in Elems(queue) : x < y
      BY <1>1, <1>2, <1>4, <1>5, <1>6, <2>1, BeforeElems
    <2>4. Before(stored, txn') /\ Before(txn', r) /\ Before(txn', queue)
      BY <1>1, <1>2, <2>1, <2>3, BeforeElems
    <2>5. InOrder'
      BY <1>3, <1>4, <1>5, <1>7, <2>2, <2>4 DEF InOrder
    <2>6. Accounted' /\ GoneForGood'
      BY <1>2, <1>3, <1>8, <2>1
         DEF Entries, Accounted, GoneForGood, InMemory, Gone
    <2>7. QED
      BY <2>5, <2>6 DEF Entries
  <1>9. CASE rejected' = rejected \cup {h} /\ txn' = txn
    <2>1. InOrder'
      BY <1>3, <1>4, <1>5, <1>7, <1>9 DEF InOrder
    <2>2. h \notin Elems(r) \cup Elems(queue) \cup Elems(txn) \cup Elems(stored)
      <3>1. h \in Elems(logs)
        BY <1>2
      <3>2. \A x \in Elems(queue) : h < x
        BY <1>6, <3>1
      <3>3. \A x \in Elems(txn) \cup Elems(stored) : x < h
        BY <1>6, <3>1
      <3>4. QED
        BY <1>2, <1>4, <3>2, <3>3
    <2>3. h \notin Gone
      BY <1>2 DEF Entries, GoneForGood, InMemory
    <2>4. Accounted'
      BY <1>2, <1>3, <1>9 DEF Entries, Accounted, InMemory, Gone
    <2>5. GoneForGood'
      BY <1>2, <1>3, <1>9, <2>2, <2>3 DEF Entries, GoneForGood, InMemory, Gone
    <2>6. QED
      BY <2>1, <2>4, <2>5 DEF Entries
  <1>10. QED
    BY <1>8, <1>9 DEF InsertRow

\* COMMIT moves the transaction's rows to the end of the table.
LEMMA CommitEntries ==
    ASSUME TypeOK, Entries, stored' = stored \o txn, txn' = <<>>,
           UNCHANGED <<queue, logs, accepted, evicted, rejected, lost>>
    PROVE  Entries'
  <1>1. /\ queue \in Seq(Nat) /\ logs \in Seq(Nat) /\ txn \in Seq(Nat)
        /\ stored \in Seq(Nat)
    BY DEF TypeOK
  <1>2. /\ stored' \in Seq(Nat)
        /\ Elems(stored') = Elems(stored) \cup Elems(txn)
        /\ Elems(txn') = {}
    BY <1>1, ElemsConcat, EmptyLaws, SeqTypes
  <1>3. Increasing(stored')
    BY <1>1, IncreasingConcat DEF Entries, InOrder
  <1>4. ASSUME NEW t \in Seq(Nat), Before(stored, t), Before(txn, t)
        PROVE  Before(stored', t)
    BY <1>1, <1>2, <1>4, BeforeElems
  <1>5. InOrder'
    BY <1>1, <1>2, <1>3, <1>4, EmptyLaws DEF Entries, InOrder
  <1>6. Accounted' /\ GoneForGood'
    BY <1>2 DEF Entries, Accounted, GoneForGood, InMemory, Gone
  <1>7. QED
    BY <1>5, <1>6 DEF Entries

\* SQLite ends the transaction: its rows are lost, the failed one is rejected.
LEMMA StepEndsEntries ==
    ASSUME TypeOK, Entries, StepEndsTransaction
    PROVE  Entries'
  <1> DEFINE h == Head(logs)
             r == Tail(logs)
  <1>1. /\ queue \in Seq(Nat) /\ logs \in Seq(Nat) /\ txn \in Seq(Nat)
        /\ stored \in Seq(Nat) /\ logs # <<>>
    BY DEF TypeOK, StepEndsTransaction
  <1>2. /\ h \in Nat /\ r \in Seq(Nat)
        /\ Elems(logs) = {h} \cup Elems(r)
    BY <1>1, ElemsHeadTail
  <1>3. /\ queue' = queue /\ stored' = stored /\ logs' = r /\ txn' = <<>>
        /\ accepted' = accepted /\ evicted' = evicted
        /\ lost' = lost \cup Elems(txn) /\ rejected' = rejected \cup {h}
    BY DEF StepEndsTransaction, backlogVars
  <1>4. Increasing(r) /\ \A x \in Elems(r) : h < x
    BY <1>1, IncreasingTail DEF Entries, InOrder
  <1>5. /\ \A x \in Elems(stored) : \A y \in Elems(logs) \cup Elems(txn) : x < y
        /\ \A x \in Elems(txn) : \A y \in Elems(logs) \cup Elems(queue) : x < y
        /\ \A x \in Elems(logs) : \A y \in Elems(queue) : x < y
    BY <1>1, BeforeElems DEF Entries, InOrder
  <1>6. Before(stored, r) /\ Before(r, queue)
    BY <1>1, <1>2, <1>5, BeforeElems
  <1>7. InOrder'
    <2>1. Increasing(stored) /\ Increasing(queue) /\ Before(stored, queue)
      BY DEF Entries, InOrder
    <2>2. /\ Increasing(<<>>) /\ Before(stored, <<>>) /\ Before(<<>>, r)
          /\ Before(<<>>, queue)
      BY <1>1, <1>2, EmptyLaws
    <2>3. QED
      BY <1>3, <1>4, <1>6, <2>1, <2>2 DEF InOrder
  <1>8. Elems(txn') = {}
    BY <1>1, <1>3, EmptyLaws
  <1>9. Accounted'
    BY <1>2, <1>3, <1>8 DEF Entries, Accounted, InMemory, Gone
  <1>10. h \notin Elems(r) \cup Elems(queue) \cup Elems(txn) \cup Elems(stored)
    <2>1. h \in Elems(logs)
      BY <1>2
    <2>2. \A x \in Elems(queue) : h < x
      BY <1>5, <2>1
    <2>3. \A x \in Elems(txn) \cup Elems(stored) : x < h
      BY <1>5, <2>1
    <2>4. QED
      BY <1>2, <1>4, <2>2, <2>3
  <1>11. Elems(txn) \cap (Elems(r) \cup Elems(queue) \cup Elems(stored)) = {}
    <2>1. Elems(txn) \subseteq Nat
      BY <1>1, ElemsType
    <2>2. QED
      BY <1>2, <1>5, <2>1
  <1>12. /\ h \notin Gone /\ Gone \cap Elems(txn) = {}
         /\ Gone \cap (Elems(r) \cup Elems(queue) \cup Elems(stored)) = {}
    BY <1>2 DEF Entries, GoneForGood, InMemory
  <1>13. GoneForGood'
    BY <1>3, <1>8, <1>10, <1>11, <1>12 DEF Entries, GoneForGood, InMemory, Gone
  <1>14. QED
    BY <1>7, <1>9, <1>13 DEF Entries

\* A row inserted in autocommit mode goes to the end of the table at once, or is
\* rejected.
LEMMA AutocommitEntries ==
    ASSUME TypeOK, Entries, AutocommitRow, txn = <<>>
    PROVE  Entries'
  <1> DEFINE h == Head(logs)
             r == Tail(logs)
  <1>1. /\ queue \in Seq(Nat) /\ logs \in Seq(Nat) /\ txn \in Seq(Nat)
        /\ stored \in Seq(Nat) /\ logs # <<>>
    BY DEF TypeOK, AutocommitRow
  <1>2. /\ h \in Nat /\ r \in Seq(Nat)
        /\ Elems(logs) = {h} \cup Elems(r) /\ Elems(txn) = {}
    BY <1>1, ElemsHeadTail, EmptyLaws
  <1>3. /\ queue' = queue /\ txn' = txn /\ logs' = r
        /\ accepted' = accepted /\ evicted' = evicted /\ lost' = lost
    BY DEF AutocommitRow, backlogVars
  <1>4. Increasing(r) /\ \A x \in Elems(r) : h < x
    BY <1>1, IncreasingTail DEF Entries, InOrder
  <1>5. /\ Increasing(stored) /\ Increasing(txn) /\ Increasing(queue)
        /\ Before(stored, queue) /\ Before(txn, queue)
    BY DEF Entries, InOrder
  <1>6. /\ \A x \in Elems(stored) : \A y \in Elems(logs) : x < y
        /\ \A x \in Elems(stored) : \A y \in Elems(queue) : x < y
        /\ \A x \in Elems(logs) : \A y \in Elems(queue) : x < y
    BY <1>1, BeforeElems DEF Entries, InOrder
  <1>7. Before(stored, r) /\ Before(r, queue)
    BY <1>1, <1>2, <1>6, BeforeElems
  <1>8. CASE stored' = Append(stored, h) /\ rejected' = rejected
    <2>1. stored' \in Seq(Nat) /\ Elems(stored') = Elems(stored) \cup {h}
      BY <1>1, <1>2, <1>8, ElemsAppend, SeqTypes
    <2>2. Increasing(stored')
      BY <1>1, <1>2, <1>5, <1>6, <1>8, IncreasingAppend
    <2>3. /\ \A x \in Elems(stored') : \A y \in Elems(r) : x < y
          /\ \A x \in Elems(stored') : \A y \in Elems(queue) : x < y
      BY <1>2, <1>4, <1>6, <2>1
    <2>4. Before(stored', r) /\ Before(stored', queue)
      BY <1>1, <1>2, <2>1, <2>3, BeforeElems
    <2>5. Before(stored', txn) /\ Before(txn, r)
      BY <1>1, <1>2, <2>1, EmptyLaws
    <2>6. InOrder'
      BY <1>3, <1>4, <1>5, <1>7, <2>2, <2>4, <2>5 DEF InOrder
    <2>7. Accounted' /\ GoneForGood'
      BY <1>2, <1>3, <1>8, <2>1
         DEF Entries, Accounted, GoneForGood, InMemory, Gone
    <2>8. QED
      BY <2>6, <2>7 DEF Entries
  <1>9. CASE rejected' = rejected \cup {h} /\ stored' = stored
    <2>1. Before(stored, txn) /\ Before(txn, r)
      BY <1>1, <1>2, EmptyLaws
    <2>2. InOrder'
      BY <1>3, <1>4, <1>5, <1>7, <1>9, <2>1 DEF InOrder
    <2>3. h \notin Elems(r) \cup Elems(queue) \cup Elems(stored)
      <3>1. h \in Elems(logs)
        BY <1>2
      <3>2. (\A x \in Elems(queue) : h < x) /\ (\A x \in Elems(stored) : x < h)
        BY <1>6, <3>1
      <3>3. QED
        BY <1>2, <1>4, <3>2
    <2>4. h \notin Gone
      BY <1>2 DEF Entries, GoneForGood, InMemory
    <2>5. Accounted'
      BY <1>2, <1>3, <1>9 DEF Entries, Accounted, InMemory, Gone
    <2>6. GoneForGood'
      BY <1>2, <1>3, <1>9, <2>3, <2>4 DEF Entries, GoneForGood, InMemory, Gone
    <2>7. QED
      BY <2>2, <2>5, <2>6 DEF Entries
  <1>10. QED
    BY <1>8, <1>9 DEF AutocommitRow

\* Entries that are destroyed in memory are recorded as lost, and the rest
\* keep their order.
LEMMA LoseEntries ==
    ASSUME TypeOK, Entries, logs' = <<>>, txn' = <<>>,
           \/ /\ queue' = queue
              /\ lost' = lost \cup Elems(txn) \cup Elems(logs)
           \/ /\ queue' = <<>>
              /\ lost' = lost \cup Elems(queue) \cup Elems(logs) \cup Elems(txn),
           UNCHANGED <<accepted, stored, evicted, rejected>>
    PROVE  Entries'
  <1>1. /\ queue \in Seq(Nat) /\ logs \in Seq(Nat) /\ txn \in Seq(Nat)
        /\ stored \in Seq(Nat)
    BY DEF TypeOK
  <1>2. Elems(logs') = {} /\ Elems(txn') = {} /\ Elems(<<>>) = {}
    BY <1>1, EmptyLaws
  <1>3. InOrder'
    <2>1. Increasing(stored) /\ Increasing(queue) /\ Before(stored, queue)
      BY DEF Entries, InOrder
    <2>2. Increasing(queue') /\ Before(stored, queue') /\ queue' \in Seq(Nat)
      <3>1. CASE queue' = queue
        BY <3>1, <2>1, <1>1
      <3>2. CASE queue' = <<>>
        BY <3>2, <1>1, EmptyLaws
      <3>3. QED
        BY <3>1, <3>2
    <2>3. <<>> \in Seq(Nat) /\ logs' = <<>> /\ txn' = <<>> /\ stored' = stored
      OBVIOUS
    <2>4. /\ Increasing(<<>>) /\ Before(<<>>, <<>>) /\ Before(stored, <<>>)
          /\ Before(<<>>, queue')
      BY <1>1, <2>2, <2>3, EmptyLaws
    <2>5. QED
      BY <2>1, <2>2, <2>3, <2>4 DEF InOrder
  <1>4. /\ Elems(queue) \cap (Elems(logs) \cup Elems(txn)) = {}
        /\ Elems(stored) \cap (Elems(queue) \cup Elems(logs) \cup Elems(txn)) = {}
    <2>1. ASSUME NEW s \in Seq(Nat), NEW t \in Seq(Nat), Before(s, t)
          PROVE  Elems(s) \cap Elems(t) = {}
      <3>1. \A x \in Elems(s) : \A y \in Elems(t) : x < y /\ x \in Nat
        BY <2>1, BeforeElems, ElemsType
      <3>2. QED
        BY <3>1
    <2>2. /\ Elems(txn) \cap Elems(queue) = {} /\ Elems(logs) \cap Elems(queue) = {}
          /\ Elems(stored) \cap Elems(queue) = {}
          /\ Elems(stored) \cap Elems(logs) = {}
          /\ Elems(stored) \cap Elems(txn) = {}
      BY <1>1, <2>1 DEF Entries, InOrder
    <2>3. QED
      BY <2>2
  <1>5. Accounted'
    BY <1>2 DEF Entries, Accounted, InMemory, Gone
  <1>6. GoneForGood'
    BY <1>2, <1>4 DEF Entries, GoneForGood, InMemory, Gone
  <1>7. QED
    BY <1>3, <1>5, <1>6 DEF Entries

-----------------------------------------------------------------------------
(* The invariant is inductive *)

\* The initial state satisfies the invariant.
LEMMA InitIInv == Init => IInv
  <1> SUFFICES ASSUME Init PROVE IInv
    OBVIOUS
  <1>1. /\ queue = <<>> /\ logs = <<>> /\ txn = <<>> /\ stored = <<>>
        /\ evicted = {} /\ rejected = {} /\ lost = {} /\ accepted = 0
    BY DEF Init, BacklogInit
  <1>2. is_full \in BOOLEAN /\ clean \in BOOLEAN
    BY DEF Init, BacklogInit
  <1>3. TypeOK
    BY <1>1, <1>2 DEF TypeOK, Init, FlushPCs
  <1>4. Shape
    BY <1>1 DEF Shape, Init
  <1>e. <<>> \in Seq(Nat)
    OBVIOUS
  <1>5. InOrder
    <2>1. Increasing(<<>>) /\ Before(<<>>, <<>>)
      BY <1>e, EmptyLaws
    <2>2. QED
      BY <1>1, <2>1 DEF InOrder
  <1>6. Accounted /\ GoneForGood
    <2>1. Elems(<<>>) = {}
      BY <1>e, EmptyLaws
    <2>2. 1..0 = {}
      OBVIOUS
    <2>3. QED
      BY <1>1, <2>1, <2>2 DEF Accounted, GoneForGood, InMemory, Gone
  <1>7. Consecutive /\ DropOldest
    BY <1>1, MaxSizeAssumption DEF Consecutive, DropOldest
  <1>8. ~AtWatermark(queue)
    BY <1>1, MaxSizeAssumption DEF AtWatermark
  <1>9. WatermarkExact
    BY <1>8 DEF WatermarkExact, Init, BacklogInit
  <1>10. AnnouncedAt
    BY <1>1 DEF AnnouncedAt, Init
  <1>11. QED
    BY <1>3, <1>4, <1>5, <1>6, <1>7, <1>9, <1>10 DEF IInv, Entries, BacklogInv

\* A step that moves no entry keeps the entries' and the backlog's parts.
LEMMA SameEntries ==
    ASSUME Entries, BacklogInv,
           UNCHANGED <<queue, is_full, evicted, logs, txn, stored, rejected,
                       lost, accepted>>
    PROVE  Entries' /\ BacklogInv'
  BY DEF Entries, InOrder, Accounted, GoneForGood, InMemory, Gone, BacklogInv,
         Consecutive, DropOldest, WatermarkExact, AtWatermark

\* Each step keeps the entries' part of the invariant.
LEMMA EntriesStep ==
    ASSUME IInv, [Next]_vars
    PROVE  Entries' /\ BacklogInv'
  <1>a. TypeOK /\ Shape /\ Entries /\ BacklogInv
    BY DEF IInv
  <1>b. USE DEF backlogVars, dropVars, idVars, lifeVars
  <1>1. ASSUME NEW n \in 1..MaxBody, HandleInsert(n)
        PROVE  Entries' /\ BacklogInv'
    BY <1>1, <1>a, SameEntries DEF HandleInsert
  <1>2. CASE HandlerAdd \/ HarvesterIngest
    BY <1>2, <1>a, AddFullEntries, AddRoomEntries, AddBacklogInv
       DEF HandlerAdd, HarvesterIngest
  <1>3. CASE PollTick
    BY <1>3, <1>a, SameEntries DEF PollTick
  <1>4. CASE FlushWake
    <2>1. CASE UNCHANGED <<queue, is_full, evicted, logs>>
      BY <1>4, <2>1, <1>a, SameEntries DEF FlushWake
    <2>2. CASE logs' = queue /\ Flush
      BY <1>4, <2>2, <1>a, FlushEntries, EmptyBacklogInv
         DEF FlushWake, Flush, Shape
    <2>3. QED
      BY <1>4, <2>1, <2>2 DEF FlushWake
  <1>5. CASE InsertBegin
    BY <1>5, <1>a, SameEntries DEF InsertBegin
  <1>6. CASE InsertRow
    <2>1. BacklogInv'
      BY <1>6, <1>a DEF InsertRow, BacklogInv, Consecutive, DropOldest,
                        WatermarkExact, AtWatermark
    <2>2. QED
      BY <1>6, <1>a, <2>1, InsertRowEntries
  <1>7. CASE InsertCommit \/ GetMaxIdThrow
    <2>1. /\ stored' = stored \o txn /\ txn' = <<>>
          /\ UNCHANGED <<queue, logs, accepted, evicted, rejected, lost>>
          /\ UNCHANGED is_full
      BY <1>7 DEF InsertCommit, GetMaxIdThrow
    <2>2. BacklogInv'
      BY <1>a, <2>1 DEF BacklogInv, Consecutive, DropOldest, WatermarkExact,
                        AtWatermark
    <2>3. QED
      BY <1>a, <2>1, <2>2, CommitEntries
  <1>8. CASE InsertThrow
    <2>1. BacklogInv'
      BY <1>8, <1>a DEF InsertThrow, BacklogInv, Consecutive, DropOldest,
                        WatermarkExact, AtWatermark
    <2>2. QED
      BY <1>8, <1>a, <2>1, LoseEntries DEF InsertThrow
  <1>9. CASE NotifyStep
    BY <1>9, <1>a, SameEntries DEF NotifyStep
  <1>10. CASE Stop \/ TaskError \/ AcceptLoopExit
    BY <1>10, <1>a, SameEntries DEF Stop, TaskError, AcceptLoopExit
  <1>11. CASE TearDown \/ Crash
    <2>1. LoseMemory
      BY <1>11 DEF TearDown, Crash
    <2>2. QED
      BY <1>a, <2>1, LoseEntries, EmptyBacklogInv DEF LoseMemory
  <1>12. CASE Restart
    BY <1>12, <1>a, SameEntries DEF Restart
  <1>13. CASE StepEndsTransaction
    <2>1. BacklogInv'
      BY <1>13, <1>a DEF StepEndsTransaction, BacklogInv, Consecutive, DropOldest,
                         WatermarkExact, AtWatermark
    <2>2. QED
      BY <1>13, <1>a, <2>1, StepEndsEntries
  <1>14. CASE AutocommitRow
    <2>1. BacklogInv'
      BY <1>14, <1>a DEF AutocommitRow, BacklogInv, Consecutive, DropOldest,
                         WatermarkExact, AtWatermark
    <2>2. txn = <<>>
      BY <1>14, <1>a DEF AutocommitRow, Shape
    <2>3. QED
      BY <1>14, <1>a, <2>1, <2>2, AutocommitEntries
  <1>15. CASE CommitThrow
    BY <1>15, <1>a, SameEntries DEF CommitThrow
  <1>16. CASE UNCHANGED vars
    BY <1>16, <1>a, SameEntries DEF vars
  <1>17. QED
    BY <1>1, <1>2, <1>3, <1>4, <1>5, <1>6, <1>7, <1>8, <1>9, <1>10, <1>11,
       <1>12, <1>13, <1>14, <1>15, <1>16 DEF Next, FlushStep

\* Each step keeps the flush task's part of the invariant.
LEMMA ControlStep ==
    ASSUME IInv, [Next]_vars
    PROVE  Shape' /\ AnnouncedAt'
  <1>a. TypeOK /\ Shape /\ AnnouncedAt
    BY DEF IInv
  <1>b. /\ Len(stored) \in Nat /\ last_id \in Nat /\ Len(stored \o txn) \in Nat
        /\ Len(stored) <= Len(stored \o txn)
        /\ flush_pc \in FlushPCs
    BY <1>a DEF TypeOK
  <1>c. USE DEF backlogVars, dropVars, idVars, lifeVars
  <1>1. ASSUME NEW n \in 1..MaxBody, HandleInsert(n)
        PROVE  Shape' /\ AnnouncedAt'
    BY <1>1, <1>a DEF HandleInsert, Shape, AnnouncedAt
  <1>2. CASE HandlerAdd \/ HarvesterIngest
    BY <1>2, <1>a DEF HandlerAdd, HarvesterIngest, Shape, AnnouncedAt
  <1>3. CASE PollTick
    BY <1>3, <1>a DEF PollTick, Shape, AnnouncedAt
  <1>4. CASE FlushWake
    BY <1>4, <1>a DEF FlushWake, Shape, AnnouncedAt, ServerThreadFree
  <1>5. CASE InsertBegin
    BY <1>5, <1>a DEF InsertBegin, Shape, AnnouncedAt
  <1>6. CASE InsertRow
    BY <1>6, <1>a DEF InsertRow, Shape, AnnouncedAt
  <1>7. CASE InsertCommit
    BY <1>7, <1>a, <1>b DEF InsertCommit, Shape, AnnouncedAt
  <1>8. CASE GetMaxIdThrow
    BY <1>8, <1>a, <1>b DEF GetMaxIdThrow, Shape, AnnouncedAt
  <1>9. CASE InsertThrow
    BY <1>9, <1>a DEF InsertThrow, Shape, AnnouncedAt
  <1>10. CASE NotifyStep
    BY <1>10, <1>a, <1>b DEF NotifyStep, Shape, AnnouncedAt, ServerThreadFree
  <1>11. CASE Stop \/ TaskError \/ AcceptLoopExit
    BY <1>11, <1>a DEF Stop, TaskError, AcceptLoopExit, Shape, AnnouncedAt
  <1>12. CASE TearDown \/ Crash
    <2>1. LoseMemory
      BY <1>12 DEF TearDown, Crash
    <2>2. QED
      BY <2>1, <1>a DEF LoseMemory, Shape, AnnouncedAt
  <1>13. CASE Restart
    BY <1>13, <1>a, <1>b DEF Restart, Shape, AnnouncedAt
  <1>14. CASE StepEndsTransaction
    BY <1>14, <1>a DEF StepEndsTransaction, Shape, AnnouncedAt
  <1>15. CASE AutocommitRow
    <2>1. Len(stored') >= Len(stored) /\ Len(stored') \in Nat
      <3>1. CASE stored' = stored
        BY <3>1, <1>b
      <3>2. CASE stored' = Append(stored, Head(logs))
        BY <3>2, <1>b, <1>a DEF TypeOK
      <3>3. QED
        BY <1>15, <3>1, <3>2 DEF AutocommitRow
    <2>2. /\ flush_pc = "autocommit" /\ UNCHANGED <<flush_pc, phase, txn, last_id>>
      BY <1>15 DEF AutocommitRow
    <2>3. QED
      BY <2>1, <2>2, <1>a, <1>b DEF Shape, AnnouncedAt
  <1>16. CASE CommitThrow
    BY <1>16, <1>a DEF CommitThrow, Shape, AnnouncedAt
  <1>17. CASE UNCHANGED vars
    BY <1>17, <1>a DEF vars, Shape, AnnouncedAt
  <1>18. QED
    BY <1>1, <1>2, <1>3, <1>4, <1>5, <1>6, <1>7, <1>8, <1>9, <1>10, <1>11,
       <1>12, <1>13, <1>14, <1>15, <1>16, <1>17 DEF Next, FlushStep

\* The invariant holds of every reachable state.
THEOREM IngestInvariant == Spec => []IInv
  <1>1. IInv /\ [Next]_vars => IInv'
    <2>1. SUFFICES ASSUME IInv, [Next]_vars PROVE IInv'
      OBVIOUS
    <2>2. TypeOK'
      BY <2>1, TypeStep DEF IInv
    <2>3. QED
      BY <2>1, <2>2, EntriesStep, ControlStep DEF IInv
  <1>2. QED
    BY <1>1, InitIInv, PTL DEF Spec

\* The type invariant of the write path.
THEOREM TypeCorrect == Spec => []TypeOK
  BY IngestInvariant, PTL DEF IInv

\* Entries reach the table in the order the backlog received them, whatever
\* the sizes, failures, crashes and restarts.
THEOREM OrderPreserved == Spec => []InOrder
  BY IngestInvariant, PTL DEF IInv, Entries

\* No entry is ever forgotten: each is in memory, in the table, or was dropped
\* for a recorded reason.
THEOREM NothingForgotten == Spec => []Accounted
  BY IngestInvariant, PTL DEF IInv, Entries

\* An entry that was dropped is in no buffer and not in the table, and was
\* dropped for one reason.
THEOREM DroppedOnce == Spec => []GoneForGood
  BY IngestInvariant, PTL DEF IInv, Entries

\* The backlog never exceeds task_backlog_max_size, and evicts an entry only
\* when that many newer ones have come in.
THEOREM BoundedDropOldest == Spec => []DropOldest
  BY IngestInvariant, PTL DEF IInv, BacklogInv

\* The high-watermark flag is exact for every queue size.
THEOREM FlagExact == Spec => []WatermarkExact
  BY IngestInvariant, PTL DEF IInv, BacklogInv

\* Ids are announced to subscribers only after they are committed, and all of
\* them before the flush task waits again.
THEOREM AnnouncedCommitted == Spec => []Announced
  <1>1. IInv => Announced
    BY DEF IInv, AnnouncedAt, Announced
  <1>2. QED
    BY <1>1, IngestInvariant, PTL

-----------------------------------------------------------------------------
(* The write path implements OrderedStore *)

\* A step that moves no entry is a stutter of the abstract store.
LEMMA StutterStep ==
    ASSUME UNCHANGED <<queue, logs, txn, stored, evicted, rejected, lost, accepted>>
    PROVE  UNCHANGED Abstract!absVars
  BY DEF Abstract!absVars, InMemory, Gone

\* Backlog::Add is an abstract Accept that drops the evicted entry, if any.
LEMMA AcceptStep ==
    ASSUME TypeOK, Entries, Add(accepted + 1), accepted' = accepted + 1,
           UNCHANGED <<logs, txn, stored, rejected, lost>>
    PROVE  \E dropped \in SUBSET InMemory : Abstract!Accept(dropped)
  <1> DEFINE e == accepted + 1
  <1>1. queue \in Seq(Nat) /\ e \in Nat /\ accepted \in Nat
    BY DEF TypeOK
  <1>2. CASE Len(queue) >= MaxSize
    <2> DEFINE h == Head(queue)
               r == Tail(queue)
    <2>1. queue # <<>>
      BY <1>1, <1>2, MaxSizeAssumption
    <2>2. h \in Nat /\ r \in Seq(Nat) /\ Elems(queue) = {h} \cup Elems(r)
      BY <1>1, <2>1, ElemsHeadTail
    <2>3. queue' = Append(r, e) /\ evicted' = evicted \cup {h}
      BY <1>2 DEF Add
    <2>4. Elems(queue') = Elems(r) \cup {e}
      BY <1>1, <2>2, <2>3, ElemsAppend
    <2>5. h \notin Elems(r)
      BY <1>1, <2>1, <2>2, IncreasingTail DEF Entries, InOrder
    <2>6. h \notin Elems(logs) \cup Elems(txn)
      <3>1. \A x \in Elems(logs) \cup Elems(txn) : x < h
        BY <1>1, <2>2, BeforeElems DEF TypeOK, Entries, InOrder
      <3>2. QED
        BY <2>2, <3>1
    <2>7. h # e
      <3>1. h \in 1..accepted
        BY <2>2 DEF Entries, Accounted, InMemory
      <3>2. QED
        BY <3>1, <1>1
    <2>8. {h} \in SUBSET InMemory
      BY <2>2 DEF InMemory
    <2>9. InMemory' = (InMemory \ {h}) \cup {e} /\ Gone' = Gone \cup {h}
      BY <2>2, <2>3, <2>4, <2>5, <2>6, <2>7 DEF InMemory, Gone
    <2>10. Abstract!Accept({h})
      BY <2>8, <2>9 DEF Abstract!Accept
    <2>11. QED
      BY <2>8, <2>10
  <1>3. CASE ~(Len(queue) >= MaxSize)
    <2>1. queue' = Append(queue, e) /\ evicted' = evicted
      BY <1>3 DEF Add
    <2>2. Elems(queue') = Elems(queue) \cup {e}
      BY <1>1, <2>1, ElemsAppend
    <2>3. InMemory' = (InMemory \ {}) \cup {e} /\ Gone' = Gone \cup {}
      BY <2>1, <2>2 DEF InMemory, Gone
    <2>4. Abstract!Accept({})
      BY <2>3 DEF Abstract!Accept
    <2>5. QED
      BY <2>4
  <1>4. QED
    BY <1>2, <1>3

\* A COMMIT is an abstract Store of the rows of the transaction.
LEMMA StoreStep ==
    ASSUME TypeOK, Entries, stored' = stored \o txn, txn' = <<>>,
           UNCHANGED <<queue, logs, accepted, evicted, rejected, lost>>
    PROVE  Abstract!Store
  <1>1. /\ queue \in Seq(Nat) /\ logs \in Seq(Nat) /\ txn \in Seq(Nat)
        /\ stored \in Seq(Nat)
    BY DEF TypeOK
  <1>2. /\ Len(stored) \in Nat /\ Len(txn) \in Nat
        /\ Len(stored') = Len(stored) + Len(txn)
        /\ \A i \in 1..Len(stored) : stored'[i] = stored[i]
        /\ \A i \in 1..Len(txn) : stored'[Len(stored) + i] = txn[i]
    BY <1>1
  <1>3. ASSUME NEW i \in (Len(stored) + 1)..Len(stored')
        PROVE  /\ i - Len(stored) \in 1..Len(txn)
               /\ stored'[i] = txn[i - Len(stored)]
    BY <1>2
  <1>4. {stored'[i] : i \in (Len(stored) + 1)..Len(stored')} = Elems(txn)
    <2>1. ASSUME NEW i \in 1..Len(txn)
          PROVE  /\ Len(stored) + i \in (Len(stored) + 1)..Len(stored')
                 /\ stored'[Len(stored) + i] = txn[i]
      BY <1>2
    <2>2. \A i \in (Len(stored) + 1)..Len(stored') : stored'[i] \in Elems(txn)
      BY <1>3 DEF Elems
    <2>3. ASSUME NEW x \in Elems(txn)
          PROVE  \E i \in (Len(stored) + 1)..Len(stored') : x = stored'[i]
      <3>1. PICK i \in 1..Len(txn) : x = txn[i]
        BY DEF Elems
      <3>2. QED
        BY <2>1, <3>1
    <2>4. QED
      BY <2>2, <2>3
  <1>5. \A i \in (Len(stored) + 1)..Len(stored') : stored'[i] \in InMemory
    BY <1>4 DEF InMemory
  <1>6. \A i, j \in 1..Len(stored') : i < j => stored'[i] < stored'[j]
    BY <1>1, IncreasingConcat DEF Entries, InOrder, Increasing
  <1>7. InMemory' = InMemory \ Elems(txn)
    <2>1. Elems(txn') = {}
      BY <1>1, EmptyLaws
    <2>2. /\ \A x \in Elems(txn) : \A y \in Elems(queue) \cup Elems(logs) : x < y
          /\ Elems(txn) \subseteq Nat
      BY <1>1, BeforeElems, ElemsType DEF Entries, InOrder
    <2>3. Elems(txn) \cap (Elems(queue) \cup Elems(logs)) = {}
      BY <2>2
    <2>4. QED
      BY <2>1, <2>3 DEF InMemory
  <1>8. UNCHANGED <<accepted, Gone>>
    BY DEF Gone
  <1>9. Len(stored') >= Len(stored)
    BY <1>2
  <1>10. QED
    BY <1>2, <1>4, <1>5, <1>6, <1>7, <1>8, <1>9 DEF Abstract!Store

\* A row inserted in autocommit mode is an abstract Store of that row alone.
LEMMA StoreRowStep ==
    ASSUME TypeOK, Entries, Entries', logs # <<>>, logs' = Tail(logs),
           stored' = Append(stored, Head(logs)),
           UNCHANGED <<queue, txn, accepted, evicted, rejected, lost>>
    PROVE  Abstract!Store
  <1> DEFINE h == Head(logs)
             n == Len(stored)
  <1>1. /\ queue \in Seq(Nat) /\ logs \in Seq(Nat) /\ txn \in Seq(Nat)
        /\ stored \in Seq(Nat)
    BY DEF TypeOK
  <1>2. /\ h \in Nat /\ Tail(logs) \in Seq(Nat)
        /\ Elems(logs) = {h} \cup Elems(Tail(logs))
    BY <1>1, ElemsHeadTail
  <1>3. /\ n \in Nat /\ Len(stored') = n + 1 /\ stored'[n + 1] = h
        /\ \A i \in 1..n : stored'[i] = stored[i]
    BY <1>1, <1>2
  <1>4. {stored'[i] : i \in (n + 1)..Len(stored')} = {h}
    <2>1. (n + 1)..(n + 1) = {n + 1}
      BY <1>3
    <2>2. QED
      BY <1>3, <2>1
  <1>5. \A i \in (n + 1)..Len(stored') : stored'[i] \in InMemory
    <2>1. h \in InMemory
      BY <1>2 DEF InMemory
    <2>2. QED
      BY <1>4, <2>1
  <1>6. \A i, j \in 1..Len(stored') : i < j => stored'[i] < stored'[j]
    BY DEF Entries, InOrder, Increasing
  <1>7. InMemory' = InMemory \ {h}
    <2>1. h \notin Elems(Tail(logs))
      BY <1>1, <1>2, IncreasingTail DEF Entries, InOrder
    <2>2. /\ \A x \in Elems(txn) : x < h
          /\ \A y \in Elems(queue) : h < y
      BY <1>1, <1>2, BeforeElems DEF Entries, InOrder
    <2>3. h \notin Elems(txn) \cup Elems(queue)
      BY <1>2, <2>2
    <2>4. QED
      BY <1>2, <2>1, <2>3 DEF InMemory
  <1>8. UNCHANGED <<accepted, Gone>>
    BY DEF Gone
  <1>9. Len(stored') >= n
    BY <1>3
  <1>10. QED
    BY <1>3, <1>4, <1>5, <1>6, <1>7, <1>8, <1>9 DEF Abstract!Store

\* Entries leaving memory for lost, or for rejected, are an abstract Discard.
LEMMA DiscardStep ==
    ASSUME NEW D \in SUBSET InMemory,
           InMemory' = InMemory \ D, Gone' = Gone \cup D,
           UNCHANGED <<accepted, stored>>
    PROVE  \E dropped \in SUBSET InMemory : Abstract!Discard(dropped)
  BY DEF Abstract!Discard

\* Every step of the write path is a step, or a stutter, of OrderedStore.
LEMMA RefinementStep ==
    ASSUME IInv, IInv', [Next]_vars
    PROVE  [Abstract!Next]_(Abstract!absVars)
  <1>a. TypeOK /\ Shape /\ Entries /\ Entries'
    BY DEF IInv
  <1>b. USE DEF backlogVars, dropVars, idVars, lifeVars
  <1>c. <<>> \in Seq(Nat)
    OBVIOUS
  <1>d. /\ queue \in Seq(Nat) /\ logs \in Seq(Nat) /\ txn \in Seq(Nat)
        /\ stored \in Seq(Nat) /\ Elems(<<>>) = {}
    BY <1>a, <1>c, EmptyLaws DEF TypeOK
  <1>1. ASSUME NEW n \in 1..MaxBody, HandleInsert(n)
        PROVE  UNCHANGED Abstract!absVars
    BY <1>1, StutterStep DEF HandleInsert
  <1>2. CASE HandlerAdd \/ HarvesterIngest
    BY <1>2, <1>a, AcceptStep DEF HandlerAdd, HarvesterIngest, Abstract!Next
  <1>3. CASE PollTick \/ InsertBegin \/ NotifyStep
    BY <1>3, StutterStep DEF PollTick, InsertBegin, NotifyStep
  <1>4. CASE FlushWake
    <2>1. CASE UNCHANGED <<queue, is_full, evicted, logs>>
      BY <1>4, <2>1, StutterStep DEF FlushWake
    <2>2. CASE logs' = queue /\ Flush
      <3>1. logs = <<>> /\ logs' = queue /\ queue' = <<>>
        BY <1>4, <2>2, <1>a DEF FlushWake, Flush, Shape
      <3>2. InMemory' = InMemory
        BY <1>4, <3>1, <1>d DEF FlushWake, InMemory
      <3>3. Gone' = Gone
        BY <1>4, <2>2 DEF FlushWake, Flush, Gone
      <3>4. QED
        BY <1>4, <3>2, <3>3 DEF FlushWake, Abstract!absVars
    <2>3. QED
      BY <1>4, <2>1, <2>2 DEF FlushWake
  <1>5. CASE InsertRow
    <2> DEFINE h == Head(logs)
               r == Tail(logs)
    <2>1. logs # <<>> /\ logs' = r /\ queue' = queue /\ stored' = stored
          /\ accepted' = accepted /\ evicted' = evicted /\ lost' = lost
      BY <1>5 DEF InsertRow
    <2>2. h \in Nat /\ r \in Seq(Nat) /\ Elems(logs) = {h} \cup Elems(r)
      BY <1>d, <2>1, ElemsHeadTail
    <2>3. CASE txn' = Append(txn, h) /\ rejected' = rejected
      <3>1. Elems(txn') = Elems(txn) \cup {h}
        BY <2>2, <2>3, <1>d, ElemsAppend
      <3>2. InMemory' = InMemory /\ Gone' = Gone
        BY <2>1, <2>2, <2>3, <3>1 DEF InMemory, Gone
      <3>3. QED
        BY <2>1, <3>2 DEF Abstract!absVars
    <2>4. CASE rejected' = rejected \cup {h} /\ txn' = txn
      <3>1. {h} \in SUBSET InMemory
        BY <2>2 DEF InMemory
      <3>2. h \notin InMemory'
        BY <1>a, <2>4 DEF Entries, GoneForGood, Gone
      <3>3. InMemory' = InMemory \ {h} /\ Gone' = Gone \cup {h}
        BY <2>1, <2>2, <2>4, <3>2 DEF InMemory, Gone
      <3>4. QED
        BY <2>1, <3>1, <3>3, DiscardStep DEF Abstract!Next
    <2>5. QED
      BY <1>5, <2>3, <2>4 DEF InsertRow
  <1>6. CASE InsertCommit \/ GetMaxIdThrow
    <2>1. /\ stored' = stored \o txn /\ txn' = <<>>
          /\ UNCHANGED <<queue, logs, accepted, evicted, rejected, lost>>
      BY <1>6 DEF InsertCommit, GetMaxIdThrow
    <2>2. QED
      BY <1>a, <2>1, StoreStep DEF Abstract!Next
  <1>7. CASE InsertThrow
    <2> DEFINE D == Elems(txn) \cup Elems(logs)
    <2>1. /\ logs' = <<>> /\ txn' = <<>> /\ queue' = queue /\ stored' = stored
          /\ accepted' = accepted /\ evicted' = evicted
          /\ rejected' = rejected /\ lost' = lost \cup D
      BY <1>7 DEF InsertThrow
    <2>2. D \in SUBSET InMemory
      BY DEF InMemory
    <2>3. D \cap InMemory' = {}
      BY <1>a, <2>1 DEF Entries, GoneForGood, Gone
    <2>4. InMemory' = InMemory \ D /\ Gone' = Gone \cup D
      BY <1>d, <2>1, <2>3 DEF InMemory, Gone
    <2>5. QED
      BY <2>1, <2>2, <2>4, DiscardStep DEF Abstract!Next
  <1>8. CASE Stop \/ TaskError \/ AcceptLoopExit \/ Restart
    BY <1>8, StutterStep DEF Stop, TaskError, AcceptLoopExit, Restart
  <1>9. CASE TearDown \/ Crash
    <2>1. LoseMemory
      BY <1>9 DEF TearDown, Crash
    <2>2. InMemory' = {} /\ Gone' = Gone \cup InMemory
      BY <1>d, <2>1 DEF LoseMemory, InMemory, Gone
    <2>3. InMemory' = InMemory \ InMemory /\ InMemory \in SUBSET InMemory
      BY <2>2
    <2>4. UNCHANGED <<accepted, stored>>
      BY <2>1 DEF LoseMemory
    <2>5. QED
      BY <2>2, <2>3, <2>4, DiscardStep DEF Abstract!Next
  <1>10. CASE StepEndsTransaction
    <2> DEFINE h == Head(logs)
               D == Elems(txn) \cup {h}
    <2>1. /\ logs # <<>> /\ logs' = Tail(logs) /\ txn' = <<>> /\ queue' = queue
          /\ stored' = stored /\ accepted' = accepted /\ evicted' = evicted
          /\ rejected' = rejected \cup {h} /\ lost' = lost \cup Elems(txn)
      BY <1>10 DEF StepEndsTransaction
    <2>2. Elems(logs) = {h} \cup Elems(Tail(logs))
      BY <1>d, <2>1, ElemsHeadTail
    <2>3. D \in SUBSET InMemory
      BY <2>2 DEF InMemory
    <2>4. D \cap InMemory' = {}
      BY <1>a, <2>1 DEF Entries, GoneForGood, Gone
    <2>5. InMemory' = InMemory \ D /\ Gone' = Gone \cup D
      BY <1>d, <2>1, <2>2, <2>4 DEF InMemory, Gone
    <2>6. QED
      BY <2>1, <2>3, <2>5, DiscardStep DEF Abstract!Next
  <1>11. CASE AutocommitRow
    <2> DEFINE h == Head(logs)
    <2>1. /\ logs # <<>> /\ logs' = Tail(logs)
          /\ UNCHANGED <<queue, txn, accepted, evicted, lost>>
      BY <1>11 DEF AutocommitRow
    <2>2. CASE stored' = Append(stored, h) /\ rejected' = rejected
      BY <1>a, <2>1, <2>2, StoreRowStep DEF Abstract!Next
    <2>3. CASE rejected' = rejected \cup {h} /\ stored' = stored
      <3>1. Elems(logs) = {h} \cup Elems(Tail(logs))
        BY <1>d, <2>1, ElemsHeadTail
      <3>2. {h} \in SUBSET InMemory
        BY <3>1 DEF InMemory
      <3>3. h \notin InMemory'
        BY <1>a, <2>3 DEF Entries, GoneForGood, Gone
      <3>4. InMemory' = InMemory \ {h} /\ Gone' = Gone \cup {h}
        BY <2>1, <2>3, <3>1, <3>3 DEF InMemory, Gone
      <3>5. QED
        BY <2>1, <2>3, <3>2, <3>4, DiscardStep DEF Abstract!Next
    <2>4. QED
      BY <1>11, <2>2, <2>3 DEF AutocommitRow
  <1>12. CASE CommitThrow
    BY <1>12, StutterStep DEF CommitThrow
  <1>13. CASE UNCHANGED vars
    BY <1>13, StutterStep DEF vars
  <1>14. QED
    BY <1>1, <1>2, <1>3, <1>4, <1>5, <1>6, <1>7, <1>8, <1>9, <1>10, <1>11, <1>12,
       <1>13 DEF Next, FlushStep

\* The write path implements OrderedStore: whatever the backlog size, the
\* failures and the restarts, entries are admitted, dropped, and stored in
\* admission order, and what is stored is never reordered or taken back.
THEOREM Refinement == Spec => ImplementsOrderedStore
  <1>1. Init => Abstract!Init
    <2>1. SUFFICES ASSUME Init PROVE Abstract!Init
      OBVIOUS
    <2>2. <<>> \in Seq(Nat)
      OBVIOUS
    <2>3. Elems(<<>>) = {}
      BY <2>2, EmptyLaws
    <2>4. QED
      BY <2>1, <2>3 DEF Init, BacklogInit, Abstract!Init, InMemory, Gone
  <1>2. IInv /\ IInv' /\ [Next]_vars => [Abstract!Next]_(Abstract!absVars)
    BY RefinementStep
  <1>3. QED
    BY <1>1, <1>2, IngestInvariant, PTL
       DEF Spec, ImplementsOrderedStore, Abstract!Spec

=============================================================================
