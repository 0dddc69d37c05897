---------------------------- MODULE LiveTailProofs -----------------------------
(***************************************************************************)
(* Proofs about the live tail, for every number of subscribers and every   *)
(* value of the other constants.  TypeOK holds whatever the schema says of *)
(* the id column.  That no log is skipped and none written twice is proved *)
(* for an AUTOINCREMENT id: without it the ids that the vacuum job frees   *)
(* are given out again, and a session takes the new log for an old one.    *)
(***************************************************************************)
EXTENDS LiveTail, WellFoundedInduction, TLAPS

-----------------------------------------------------------------------------
(* A fact about sets of naturals *)

\* A bounded set of naturals that is not empty has a largest element: the one
\* whose distance from the bound is least.
LEMMA MaxExists ==
    ASSUME NEW S, S \subseteq Nat, S # {}, NEW n \in Nat, \A i \in S : i <= n
    PROVE  \E m \in S : \A i \in S : i <= m
  <1> DEFINE R == OpToRel(<, Nat)
             D == {n - i : i \in S}
  <1>1. IsWellFoundedOn(R, Nat)
    BY NatLessThanWellFounded
  <1>2. \A y, x \in Nat : y < x => <<y, x>> \in R
    BY DEF OpToRel
  <1>3. D \subseteq Nat /\ D # {}
    <2>1. D \subseteq Nat
      BY SMT
    <2>2. QED
      BY <2>1
  <1>4. PICK x \in D : \A y \in D : ~(<<y, x>> \in R)
    <2> HIDE DEF R, D
    <2>1. QED
      BY <1>1, <1>3, WFMin
  <1>5. PICK m \in S : x = n - m
    OBVIOUS
  <1>6. ASSUME NEW i \in S PROVE i <= m
    <2>1. n - i \in D /\ n - i \in Nat /\ n - m \in Nat
      BY <1>3, <1>5
    <2>2. ~(n - i < n - m)
      <3> HIDE DEF R, D
      <3>1. QED
        BY <2>1, <1>2, <1>4, <1>5
    <2>3. i \in Nat /\ m \in Nat
      OBVIOUS
    <2>4. QED
      BY <2>2, <2>3
  <1>7. QED
    BY <1>6

-----------------------------------------------------------------------------
(* Types *)

Row == [id : 1..MaxLogs, log : 1..MaxLogs, ts : 1..MaxTs]

\* TypeOK with the types of the history variables, and the fact about ids that
\* keeps them within MaxLogs: an id is never larger than the number of logs.
TypeInv ==
    /\ TypeOK
    /\ result \in [Subscribers -> SUBSET Row]
    /\ delivered \in [Subscribers -> SUBSET (1..MaxLogs)]
    /\ cut \in [Subscribers -> SUBSET (1..MaxLogs)]
    /\ opened \in [Subscribers -> 0..MaxLogs]
    /\ \A row \in table : row.id <= created
    /\ sequence <= created

\* MAX(id) is at most the number of logs, and 0 when there is no row.
LEMMA MaxIdBound ==
    ASSUME TypeInv
    PROVE  GetMaxLogId \in 0..created
  <1>1. created \in Nat
    BY LiveTailAssumption DEF TypeInv, TypeOK
  <1>2. CASE table = {}
    BY <1>1, <1>2 DEF GetMaxLogId
  <1>3. CASE table # {}
    <2>1. Ids \subseteq Nat /\ \A i \in Ids : i <= created
      BY LiveTailAssumption DEF Ids, TypeInv, TypeOK
    <2>2. Ids # {}
      BY <1>3 DEF Ids
    <2>3. \E m \in Ids : \A i \in Ids : i <= m
      BY <1>1, <2>1, <2>2, MaxExists
    <2>4. GetMaxLogId \in Ids
      BY <1>3, <2>3 DEF GetMaxLogId
    <2>5. QED
      BY <1>1, <2>1, <2>4
  <1>4. QED
    BY <1>2, <1>3

\* The first id of the next INSERT is at most one more than the number of logs,
\* with AUTOINCREMENT (sqlite_sequence) and without (MAX(id)).
LEMMA NextIdBound ==
    ASSUME TypeInv
    PROVE  NextId \in 1..(created + 1)
  <1>1. created \in Nat /\ sequence \in Nat
    BY LiveTailAssumption DEF TypeInv, TypeOK
  <1>2. GetMaxLogId \in 0..created
    BY MaxIdBound
  <1>3. QED
    BY <1>1, <1>2 DEF NextId, TypeInv

\* The first state.
LEMMA TypeInit == Init => TypeInv
  <1>1. SUFFICES ASSUME Init PROVE TypeInv
    OBVIOUS
  <1>2. /\ table = {} /\ created \in 0..MaxLogs /\ sequence \in 0..MaxLogs
        /\ max_id \in 0..MaxLogs /\ last_id \in 0..MaxLogs
        /\ sequence <= created
    BY <1>1, LiveTailAssumption DEF Init
  <1>3. /\ pushed_id \in [Subscribers -> 0..MaxLogs]
        /\ current_id \in [Subscribers -> 0..MaxLogs]
        /\ idle \in [Subscribers -> 0..KeepAlive]
        /\ opened \in [Subscribers -> 0..MaxLogs]
    BY <1>1, LiveTailAssumption DEF Init
  <1>4. /\ result \in [Subscribers -> SUBSET Row]
        /\ delivered \in [Subscribers -> SUBSET (1..MaxLogs)]
        /\ cut \in [Subscribers -> SUBSET (1..MaxLogs)]
    BY <1>1 DEF Init
  <1>5. /\ pc \in [Subscribers -> {"off", "wait", "count", "select", "write"}]
        /\ cancelled \in [Subscribers -> BOOLEAN]
        /\ recent \in [Subscribers -> BOOLEAN]
        /\ client \in [Subscribers -> BOOLEAN] /\ flushing \in BOOLEAN
        /\ fields \in [Subscribers -> {"known", "unknown", "none"}]
    BY <1>1 DEF Init
  <1>6. QED
    BY <1>2, <1>3, <1>4, <1>5 DEF TypeInv, TypeOK

\* The insert job: the new ids stay within the number of logs.
LEMMA TypeInsert ==
    ASSUME TypeInv, NEW n \in 0..MaxBatch, Insert(n)
    PROVE  TypeInv'
  <1>1. NextId \in 1..(created + 1)
    BY NextIdBound
  <1>2. /\ created \in Nat /\ n \in Nat /\ created + n <= MaxLogs
        /\ MaxLogs \in Nat
    BY LiveTailAssumption DEF TypeInv, TypeOK, Insert
  <1>3. PICK ts \in [1..n -> 1..MaxTs] :
            table' = table \cup {[id |-> NextId + i - 1, log |-> created + i,
                                  ts |-> ts[i]] : i \in 1..n}
    BY DEF Insert
  <1>4. ASSUME NEW row \in table'
        PROVE  row \in Row /\ row.id <= created'
    <2>1. CASE row \in table
      BY <2>1, <1>2 DEF TypeInv, TypeOK, Row, Insert
    <2>2. CASE row \notin table
      <3>1. PICK i \in 1..n : row = [id |-> NextId + i - 1,
                                     log |-> created + i, ts |-> ts[i]]
        BY <2>2, <1>3
      <3>2. /\ NextId + i - 1 \in 1..MaxLogs /\ created + i \in 1..MaxLogs
            /\ ts[i] \in 1..MaxTs
            /\ NextId + i - 1 <= created + n
        BY <1>1, <1>2
      <3>3. created' = created + n
        BY DEF Insert
      <3>4. QED
        BY <3>1, <3>2, <3>3 DEF Row
    <2>3. QED
      BY <2>1, <2>2
  <1>5. /\ created' \in 0..MaxLogs /\ sequence' \in 0..MaxLogs
        /\ max_id' \in 0..MaxLogs /\ sequence' <= created'
    BY <1>1, <1>2, MaxIdBound DEF Insert
  <1>6. QED
    BY <1>4, <1>5
       DEF TypeInv, TypeOK, Insert, localVars, peerVars, Row

\* What Notify and the vacuum job leave typed.
LEMMA TypeNotifyVacuum ==
    ASSUME TypeInv,
           \/ Notify
           \/ \E cutoff \in 0..MaxTs, cap, remove_max_id \in 0..MaxLogs :
                 Vacuum(cutoff, cap, remove_max_id)
    PROVE  TypeInv'
  <1>1. CASE Notify
    BY <1>1 DEF TypeInv, TypeOK, Notify, dbVars, localVars, peerVars
  <1>2. ASSUME NEW cutoff \in 0..MaxTs, NEW cap \in 0..MaxLogs,
               NEW remove_max_id \in 0..MaxLogs,
               Vacuum(cutoff, cap, remove_max_id)
        PROVE  TypeInv'
    <2>1. table' \subseteq table
      BY <1>2 DEF Vacuum
    <2>2. QED
      BY <1>2, <2>1
         DEF TypeInv, TypeOK, Vacuum, notifyVars, localVars, peerVars
  <1>3. QED
    BY <1>1, <1>2

\* The end of a session.
LEMMA TypeUnsubscribe ==
    ASSUME TypeInv, NEW s \in Subscribers, Unsubscribe(s),
           UNCHANGED <<dbVars, notifyVars>>
    PROVE  TypeInv'
  <1>1. 0 \in 0..MaxLogs /\ 0 \in 0..KeepAlive
    BY LiveTailAssumption
  <1>2. QED
    BY <1>1 DEF TypeInv, TypeOK, Unsubscribe, dbVars, notifyVars

\* The branches of the event loop after a timer.
LEMMA TypeAfterTimer ==
    ASSUME TypeInv, NEW s \in Subscribers, NEW fired \in BOOLEAN,
           AfterTimer(s, fired), UNCHANGED <<dbVars, notifyVars>>
    PROVE  TypeInv'
  <1> DEFINE quiet == IF fired /\ idle[s] < KeepAlive THEN idle[s] + 1
                      ELSE idle[s]
             still == recent[s] /\ ~fired
  <1>1. quiet \in 0..KeepAlive /\ still \in BOOLEAN
    BY LiveTailAssumption DEF TypeInv, TypeOK
  <1>2. CASE Unsubscribe(s)
    BY <1>2, TypeUnsubscribe
  <1>3. CASE ~Unsubscribe(s)
    <2>1. /\ cancelled' = [cancelled EXCEPT ![s] = FALSE]
          /\ recent' \in [Subscribers -> BOOLEAN]
          /\ idle' \in [Subscribers -> 0..KeepAlive]
      <3> HIDE DEF quiet, still
      <3>1. /\ recent \in [Subscribers -> BOOLEAN]
            /\ idle \in [Subscribers -> 0..KeepAlive]
            /\ 0 \in 0..KeepAlive
        BY LiveTailAssumption DEF TypeInv, TypeOK
      <3>2. /\ cancelled' = [cancelled EXCEPT ![s] = FALSE]
            /\ \/ recent' = recent
               \/ recent' = [recent EXCEPT ![s] = still]
               \/ recent' = [recent EXCEPT ![s] = FALSE]
            /\ \/ idle' = idle
               \/ idle' = [idle EXCEPT ![s] = quiet]
               \/ idle' = [idle EXCEPT ![s] = 0]
        BY <1>3 DEF AfterTimer, localVars, quiet, still
      <3>3. QED
        BY <3>1, <3>2, <1>1
    <2>2. /\ pc' = pc \/ pc' = [pc EXCEPT ![s] = "count"]
          /\ \/ current_id' = current_id
             \/ current_id' = [current_id EXCEPT ![s] = last_id]
          /\ UNCHANGED <<pushed_id, result, peerVars>>
      BY <1>3 DEF AfterTimer, localVars
    <2>3. /\ pc' \in [Subscribers -> {"off", "wait", "count", "select", "write"}]
          /\ current_id' \in [Subscribers -> 0..MaxLogs]
          /\ cancelled' \in [Subscribers -> BOOLEAN]
      BY <2>1, <2>2 DEF TypeInv, TypeOK
    <2>4. QED
      BY <2>1, <2>2, <2>3 DEF TypeInv, TypeOK, peerVars, dbVars, notifyVars
  <1>4. QED
    BY <1>2, <1>3

\* A step of a session.
LEMMA TypeSession ==
    ASSUME TypeInv, NEW s \in Subscribers, Session(s)
    PROVE  TypeInv'
  <1>1. ASSUME NEW columns \in {"known", "unknown", "none"}, Connect(s, columns)
        PROVE  TypeInv'
    BY <1>1, LiveTailAssumption
       DEF TypeInv, TypeOK, Connect, dbVars, notifyVars
  <1>2. CASE Hangup(s)
    BY <1>2 DEF TypeInv, TypeOK, Hangup, dbVars, notifyVars, localVars
  <1>3. CASE TimerFires(s)
    BY <1>3, TypeAfterTimer DEF TimerFires
  <1>4. CASE TimerCancelled(s)
    BY <1>4, TypeAfterTimer DEF TimerCancelled
  <1>5. CASE QueryCount(s)
    <2>1. /\ pushed_id' \in [Subscribers -> 0..MaxLogs]
          /\ pc' \in [Subscribers -> {"off", "wait", "count", "select", "write"}]
      BY <1>5, SMTT(20) DEF TypeInv, TypeOK, QueryCount, Continue
    <2>2. UNCHANGED <<dbVars, notifyVars, cancelled, current_id, recent, idle,
                      result, peerVars>>
      BY <1>5 DEF QueryCount
    <2>3. QED
      BY <2>1, <2>2 DEF TypeInv, TypeOK, dbVars, notifyVars, peerVars
  <1>6. CASE QuerySelect(s)
    <2>1. PICK R \in Newest(Matching(s), SseLimit) :
            /\ cut' = [cut EXCEPT ![s] = @ \cup {row.log : row \in Matching(s) \ R}]
            /\ \/ /\ R = {}
                  /\ pushed_id' = [pushed_id EXCEPT ![s] = current_id[s]]
                  /\ Continue(s)
                  /\ UNCHANGED result
               \/ /\ R # {}
                  /\ result' = [result EXCEPT ![s] = R]
                  /\ pc' = [pc EXCEPT ![s] = "write"]
                  /\ UNCHANGED pushed_id
      BY <1>6 DEF QuerySelect
    <2>2. Matching(s) \subseteq Row /\ R \subseteq Row
      BY DEF Matching, Newest, TypeInv, TypeOK, Row
    <2>3. cut' \in [Subscribers -> SUBSET (1..MaxLogs)]
      <3>1. {row.log : row \in Matching(s) \ R} \subseteq 1..MaxLogs
        BY <2>2 DEF Row
      <3>2. QED
        BY <2>1, <3>1 DEF TypeInv
    <2>4. result' \in [Subscribers -> SUBSET Row]
      BY <2>1, <2>2 DEF TypeInv
    <2>5. /\ pushed_id' \in [Subscribers -> 0..MaxLogs]
          /\ pc' \in [Subscribers -> {"off", "wait", "count", "select", "write"}]
      BY <2>1 DEF TypeInv, TypeOK, Continue
    <2>6. QED
      BY <1>6, <2>3, <2>4, <2>5
         DEF TypeInv, TypeOK, QuerySelect, dbVars, notifyVars
  <1>7. CASE QueryError(s)
    BY <1>7 DEF TypeInv, TypeOK, QueryError, Continue, dbVars, notifyVars,
                localVars, peerVars
  <1>8. CASE WriteEvent(s)
    <2>1. {row.log : row \in result[s]} \subseteq 1..MaxLogs
      BY DEF TypeInv, Row
    <2>2. delivered' \in [Subscribers -> SUBSET (1..MaxLogs)]
      BY <1>8, <2>1 DEF TypeInv, WriteEvent
    <2>3. QED
      BY <1>8, <2>2, LiveTailAssumption
         DEF TypeInv, TypeOK, WriteEvent, Continue, dbVars, notifyVars
  <1>9. CASE WriteFails(s)
    BY <1>9, TypeUnsubscribe DEF WriteFails
  <1>10. QED
    BY <1>1, <1>2, <1>3, <1>4, <1>5, <1>6, <1>7, <1>8, <1>9 DEF Session

\* Every step keeps the types.
LEMMA TypeNext == TypeInv /\ [Next]_vars => TypeInv'
  <1>1. SUFFICES ASSUME TypeInv, [Next]_vars PROVE TypeInv'
    OBVIOUS
  <1>2. CASE UNCHANGED vars
    BY <1>1, <1>2 DEF vars, dbVars, notifyVars, localVars, peerVars, TypeInv, TypeOK
  <1>3. CASE Next
    BY <1>1, <1>3, TypeInsert, TypeNotifyVacuum, TypeSession DEF Next
  <1>4. QED
    BY <1>1, <1>2, <1>3

\* The variables of the live tail keep their types.
THEOREM TypeCorrect == Spec => []TypeOK
  <1>1. TypeInv => TypeOK
    BY DEF TypeInv
  <1>2. QED
    BY <1>1, TypeInit, TypeNext, PTL DEF Spec

-----------------------------------------------------------------------------
(* Nothing skipped, nothing twice: the inductive invariant *)

\* With AUTOINCREMENT ids are given out once and in commit order: the id of a
\* row is the number of its log, and no id announced is larger than the last.
DbInv ==
    /\ sequence = created /\ max_id <= created /\ last_id <= created
    /\ \A row \in table : row.id = row.log
    /\ \A a, b \in table : a.id = b.id => a = b

\* What HandleSSE's locals say about one session: pushed_id separates what the
\* session is done with from what it still has to ask for.
SessionInv(s) ==
    /\ pushed_id[s] <= created
    /\ current_id[s] <= created
    /\ \A n \in delivered[s] : n <= pushed_id[s]
    /\ pc[s] # "write" => result[s] = {}
    /\ pc[s] \in {"wait", "count", "select"} => \A n \in cut[s] : n <= pushed_id[s]
    /\ cut[s] \cap delivered[s] = {}
    /\ pc[s] # "off" =>
          \A row \in table : (row.log > opened[s] /\ row.id <= pushed_id[s])
                                => row.log \in delivered[s] \cup cut[s]

\* Between the query and the write: the rows of the result are new, none of
\* them was cut off, and the rest of the range was.
WriteInv(s) ==
    pc[s] = "write" =>
        /\ \A row \in result[s] : pushed_id[s] < row.log
                                    /\ row.log <= current_id[s]
                                    /\ row.log \notin cut[s]
        /\ pushed_id[s] <= current_id[s]
        /\ \A n \in cut[s] : n <= current_id[s]
        /\ \A row \in table : (pushed_id[s] < row.id /\ row.id <= current_id[s])
              => \/ row.log \in cut[s]
                 \/ \E r \in result[s] : r.log = row.log

\* Between the wake-up and the query: there is a range to ask for.
QueryInv(s) == pc[s] \in {"count", "select"} => pushed_id[s] <= current_id[s]

Inv ==
    /\ DbInv
    /\ \A s \in Subscribers : SessionInv(s) /\ WriteInv(s) /\ QueryInv(s)

\* All that is proved of one session.
Ok(s) == SessionInv(s) /\ WriteInv(s) /\ QueryInv(s)

\* The first state.
LEMMA InvInit == Init => Inv
  <1>1. SUFFICES ASSUME Init PROVE Inv
    OBVIOUS
  <1>2. DbInv
    BY <1>1 DEF Init, DbInv
  <1>3. ASSUME NEW s \in Subscribers PROVE Ok(s)
    BY <1>1 DEF Init, Ok, SessionInv, WriteInv, QueryInv
  <1>4. QED
    BY <1>2, <1>3 DEF Inv, Ok

\* The insert job: the new rows are past every id announced so far, so no
\* session has them behind its pushed_id or in the range it is writing.
LEMMA InvInsert ==
    ASSUME AutoIncrement, TypeInv, Inv, NEW n \in 0..MaxBatch, Insert(n)
    PROVE  Inv'
  <1>1. NextId = created + 1
    BY DEF NextId, Inv, DbInv, TypeInv, TypeOK
  <1>2. /\ created \in Nat /\ n \in Nat /\ last_id \in Nat
        /\ last_id <= created /\ created' = created + n
        /\ last_id' = last_id
    BY LiveTailAssumption DEF TypeInv, TypeOK, Insert, Inv, DbInv
  <1>3. PICK ts \in [1..n -> 1..MaxTs] :
            table' = table \cup {[id |-> NextId + i - 1, log |-> created + i,
                                  ts |-> ts[i]] : i \in 1..n}
    BY DEF Insert
  <1>4. ASSUME NEW row \in table', row \notin table
        PROVE  \E i \in 1..n : row = [id |-> created + i, log |-> created + i,
                                      ts |-> ts[i]]
    <2>1. PICK i \in 1..n : row = [id |-> NextId + i - 1, log |-> created + i,
                                   ts |-> ts[i]]
      BY <1>3, <1>4
    <2>2. NextId + i - 1 = created + i
      BY <1>1, <1>2
    <2>3. QED
      BY <2>1, <2>2
  <1>5. ASSUME NEW row \in table', row \notin table
        PROVE  row.id = row.log /\ row.id > created
    BY <1>2, <1>4, <1>5
  <1>6. ASSUME NEW row \in table PROVE row.id <= created /\ row.id \in Nat
    BY DEF TypeInv, TypeOK
  <1>7. DbInv'
    <2>1. sequence' = created' /\ max_id' <= created' /\ last_id' <= created'
      BY <1>1, <1>2, MaxIdBound DEF Insert
    <2>2. \A row \in table' : row.id = row.log
      BY <1>5 DEF Inv, DbInv
    <2>3. ASSUME NEW a \in table', NEW b \in table', a.id = b.id PROVE a = b
      <3>1. CASE a \in table /\ b \in table
        BY <3>1, <2>3 DEF Inv, DbInv
      <3>2. CASE a \notin table /\ b \notin table
        <4>1. PICK i \in 1..n : a = [id |-> created + i, log |-> created + i,
                                     ts |-> ts[i]]
          BY <3>2, <1>4
        <4>2. PICK j \in 1..n : b = [id |-> created + j, log |-> created + j,
                                     ts |-> ts[j]]
          BY <3>2, <1>4
        <4>3. created + i = created + j
          BY <2>3, <4>1, <4>2
        <4>4. i = j
          BY <4>3, <1>2
        <4>5. QED
          BY <4>1, <4>2, <4>4
      <3>3. CASE a \in table /\ b \notin table
        BY <3>3, <2>3, <1>2, <1>5, <1>6
      <3>4. CASE a \notin table /\ b \in table
        BY <3>4, <2>3, <1>2, <1>5, <1>6
      <3>5. QED
        BY <3>1, <3>2, <3>3, <3>4
    <2>4. QED
      BY <2>1, <2>2, <2>3 DEF DbInv
  <1>8. ASSUME NEW s \in Subscribers PROVE Ok(s)'
    <2>1. /\ pushed_id[s] \in Nat /\ current_id[s] \in Nat
          /\ pushed_id[s] <= created /\ current_id[s] <= created
      BY <1>2 DEF Inv, SessionInv, TypeInv, TypeOK
    <2>2. UNCHANGED <<last_id, pc, cancelled, localVars, peerVars>>
      BY DEF Insert
    <2>3. Ok(s)
      BY DEF Inv, Ok
    <2>4. ASSUME NEW row \in table', row \notin table
          PROVE  ~(row.id <= pushed_id[s]) /\ ~(row.id <= current_id[s])
      <3>1. PICK i \in 1..n : row.id = created + i
        BY <2>4, <1>4
      <3>2. QED
        BY <3>1, <1>2, <2>1
    <2>5. SessionInv(s)'
      <3>1. pushed_id'[s] <= created' /\ current_id'[s] <= created'
        BY <1>2, <2>1, <2>2 DEF localVars
      <3>2. QED
        BY <2>2, <2>3, <2>4, <3>1 DEF Ok, SessionInv, localVars, peerVars
    <2>6. WriteInv(s)'
      BY <2>2, <2>3, <2>4 DEF Ok, WriteInv, localVars, peerVars
    <2>7. QueryInv(s)'
      BY <2>2, <2>3 DEF Ok, QueryInv, localVars
    <2>8. QED
      BY <2>5, <2>6, <2>7 DEF Ok
  <1>9. QED
    BY <1>7, <1>8 DEF Inv, Ok

\* Notify: last_id may grow or, after a vacuum, fall; no session looks back.
LEMMA InvNotify ==
    ASSUME TypeInv, Inv, Notify
    PROVE  Inv'
  <1>1. /\ last_id \in Nat /\ max_id \in Nat /\ created \in Nat
        /\ last_id <= created /\ max_id <= created
        /\ last_id' = max_id
    BY DEF TypeInv, TypeOK, Inv, DbInv, Notify
  <1>2. UNCHANGED <<dbVars, max_id, pc, localVars, peerVars>>
    BY DEF Notify
  <1>3. DbInv'
    BY <1>1, <1>2 DEF Inv, DbInv, dbVars
  <1>4. ASSUME NEW s \in Subscribers PROVE Ok(s)'
    <2>2. Ok(s)
      BY DEF Inv, Ok
    <2>4. SessionInv(s)'
      BY <1>2, <2>2 DEF Ok, SessionInv, dbVars, localVars, peerVars
    <2>5. WriteInv(s)' /\ QueryInv(s)'
      BY <1>2, <2>2 DEF Ok, WriteInv, QueryInv, dbVars, localVars, peerVars
    <2>6. QED
      BY <2>4, <2>5 DEF Ok
  <1>5. QED
    BY <1>3, <1>4 DEF Inv, Ok

\* The vacuum job only takes rows away.
LEMMA InvVacuum ==
    ASSUME Inv, NEW cutoff, NEW cap, NEW remove_max_id,
           Vacuum(cutoff, cap, remove_max_id)
    PROVE  Inv'
  <1>1. table' \subseteq table
    BY DEF Vacuum
  <1>2. UNCHANGED <<created, sequence, notifyVars, pc, cancelled, localVars,
                    peerVars>>
    BY DEF Vacuum
  <1>3. DbInv'
    BY <1>1, <1>2 DEF Inv, DbInv, notifyVars
  <1>4. ASSUME NEW s \in Subscribers PROVE Ok(s)'
    <2>1. Ok(s)
      BY DEF Inv, Ok
    <2>2. SessionInv(s)'
      BY <1>1, <1>2, <2>1 DEF Ok, SessionInv, notifyVars, localVars, peerVars
    <2>3. WriteInv(s)' /\ QueryInv(s)'
      BY <1>1, <1>2, <2>1 DEF Ok, WriteInv, QueryInv, localVars, peerVars
    <2>4. QED
      BY <2>2, <2>3 DEF Ok
  <1>5. QED
    BY <1>3, <1>4 DEF Inv, Ok

\* A step of one session leaves the locals of the others alone.
LEMMA OtherSessions ==
    ASSUME TypeInv, NEW s \in Subscribers, NEW t \in Subscribers, s # t,
           Session(s)
    PROVE  /\ pc'[t] = pc[t] /\ pushed_id'[t] = pushed_id[t]
           /\ current_id'[t] = current_id[t] /\ result'[t] = result[t]
           /\ delivered'[t] = delivered[t] /\ cut'[t] = cut[t]
           /\ opened'[t] = opened[t]
  <1>1. ASSUME NEW columns, Connect(s, columns)
        PROVE  /\ pc'[t] = pc[t] /\ pushed_id'[t] = pushed_id[t]
               /\ current_id'[t] = current_id[t] /\ result'[t] = result[t]
               /\ delivered'[t] = delivered[t] /\ cut'[t] = cut[t]
               /\ opened'[t] = opened[t]
    BY <1>1 DEF Connect, TypeInv, TypeOK
  <1>2. CASE Hangup(s)
    BY <1>2 DEF Hangup, localVars
  <1>3. ASSUME NEW fired \in BOOLEAN, AfterTimer(s, fired)
        PROVE  /\ pc'[t] = pc[t] /\ pushed_id'[t] = pushed_id[t]
               /\ current_id'[t] = current_id[t] /\ result'[t] = result[t]
               /\ delivered'[t] = delivered[t] /\ cut'[t] = cut[t]
               /\ opened'[t] = opened[t]
    <2>1. CASE Unsubscribe(s)
      BY <2>1 DEF Unsubscribe, TypeInv, TypeOK
    <2>2. CASE ~Unsubscribe(s)
      <3>1. /\ pc' = pc \/ pc' = [pc EXCEPT ![s] = "count"]
            /\ \/ current_id' = current_id
               \/ current_id' = [current_id EXCEPT ![s] = last_id]
            /\ UNCHANGED <<pushed_id, result, peerVars>>
        BY <1>3, <2>2 DEF AfterTimer, localVars
      <3>2. QED
        BY <3>1 DEF TypeInv, TypeOK, peerVars
    <2>3. QED
      BY <2>1, <2>2
  <1>4. CASE TimerFires(s) \/ TimerCancelled(s)
    BY <1>3, <1>4 DEF TimerFires, TimerCancelled
  <1>5. CASE QueryCount(s)
    BY <1>5 DEF QueryCount, Continue, TypeInv, TypeOK, peerVars
  <1>6. CASE QuerySelect(s)
    <2>1. PICK new, R :
            /\ cut' = [cut EXCEPT ![s] = new]
            /\ result' = result \/ result' = [result EXCEPT ![s] = R]
            /\ \/ pushed_id' = [pushed_id EXCEPT ![s] = current_id[s]]
               \/ pushed_id' = pushed_id
            /\ \/ pc' = [pc EXCEPT ![s] = "wait"]
               \/ pc' = [pc EXCEPT ![s] = "write"]
      BY <1>6 DEF QuerySelect, Continue
    <2>2. UNCHANGED <<current_id, delivered, opened>>
      BY <1>6 DEF QuerySelect
    <2>3. QED
      BY <2>1, <2>2 DEF TypeInv, TypeOK
  <1>7. CASE QueryError(s)
    BY <1>7 DEF QueryError, Continue, TypeInv, TypeOK, localVars, peerVars
  <1>8. CASE WriteEvent(s)
    BY <1>8 DEF WriteEvent, Continue, TypeInv, TypeOK
  <1>9. CASE WriteFails(s)
    BY <1>9 DEF WriteFails, Unsubscribe, TypeInv, TypeOK
  <1>10. QED
    BY <1>1, <1>2, <1>4, <1>5, <1>6, <1>7, <1>8, <1>9 DEF Session

\* A session step leaves the table and the notifier alone.
LEMMA SessionFrame ==
    ASSUME NEW s \in Subscribers, Session(s)
    PROVE  /\ UNCHANGED <<table, created, sequence, max_id, last_id>>
           /\ UNCHANGED flushing
  BY DEF Session, Connect, Hangup, TimerFires, TimerCancelled, QueryCount,
         QuerySelect, QueryError, WriteEvent, WriteFails, dbVars, notifyVars

\* Connect: pushed_id starts at last_id, and every log committed so far counts
\* as seen.
LEMMA OkConnect ==
    ASSUME TypeInv, Inv, NEW s \in Subscribers, NEW columns, Connect(s, columns)
    PROVE  Ok(s)'
  <1>1. /\ pc'[s] = "wait" /\ pushed_id'[s] = last_id /\ opened'[s] = created
        /\ delivered'[s] = {} /\ cut'[s] = {} /\ result'[s] = {}
        /\ current_id'[s] = current_id[s] /\ table' = table /\ created' = created
    BY DEF Connect, TypeInv, TypeOK, Inv, SessionInv, dbVars, notifyVars
  <1>2. last_id \in Nat /\ last_id <= created /\ current_id[s] <= created
    BY DEF TypeInv, TypeOK, Inv, DbInv, SessionInv
  <1>3. \A row \in table : ~(row.log > created)
    BY DEF TypeInv, TypeOK, Inv, DbInv
  <1>4. QED
    BY <1>1, <1>2, <1>3 DEF Ok, SessionInv, WriteInv, QueryInv

\* The end of a session: the subscription and the result are gone.
LEMMA OkUnsubscribe ==
    ASSUME TypeInv, Inv, NEW s \in Subscribers, Unsubscribe(s),
           UNCHANGED <<dbVars, notifyVars>>
    PROVE  Ok(s)'
  <1>1. /\ pc'[s] = "off" /\ pushed_id'[s] = 0 /\ current_id'[s] = 0
        /\ result'[s] = {} /\ delivered'[s] = {} /\ cut'[s] = {}
        /\ created' \in Nat
    BY DEF Unsubscribe, TypeInv, TypeOK, dbVars
  <1>2. QED
    BY <1>1 DEF Ok, SessionInv, WriteInv, QueryInv

\* The event loop after a timer: when there is something new, current_id is
\* taken from last_id and lies past pushed_id.
LEMMA OkAfterTimer ==
    ASSUME TypeInv, Inv, NEW s \in Subscribers, NEW fired \in BOOLEAN,
           pc[s] = "wait", AfterTimer(s, fired), UNCHANGED <<dbVars, notifyVars>>
    PROVE  Ok(s)'
  <1>1. CASE Unsubscribe(s)
    BY <1>1, OkUnsubscribe
  <1>2. CASE ~Unsubscribe(s)
    <2>1. /\ UNCHANGED <<pushed_id, result, delivered, cut, opened, table, created>>
          /\ \/ pc' = pc /\ current_id' = current_id
             \/ /\ pc' = [pc EXCEPT ![s] = "count"]
                /\ current_id' = [current_id EXCEPT ![s] = last_id]
                /\ last_id > pushed_id[s]
      BY <1>2 DEF AfterTimer, localVars, peerVars, dbVars, notifyVars
    <2>2. /\ SessionInv(s) /\ last_id \in Nat /\ pushed_id[s] \in Nat
          /\ last_id <= created
      BY DEF Inv, DbInv, TypeInv, TypeOK
    <2>3. CASE pc' = pc /\ current_id' = current_id
      BY <2>1, <2>2, <2>3 DEF Ok, SessionInv, WriteInv, QueryInv
    <2>4. CASE ~(pc' = pc /\ current_id' = current_id)
      <3>1. /\ pc'[s] = "count" /\ current_id'[s] = last_id
            /\ pushed_id[s] <= last_id
        BY <2>1, <2>2, <2>4 DEF TypeInv, TypeOK
      <3>2. QED
        BY <2>1, <2>2, <3>1 DEF Ok, SessionInv, WriteInv, QueryInv
    <2>5. QED
      BY <2>3, <2>4
  <1>3. QED
    BY <1>1, <1>2

\* The COUNT query: an empty range is done with.
LEMMA OkQueryCount ==
    ASSUME TypeInv, Inv, NEW s \in Subscribers, QueryCount(s)
    PROVE  Ok(s)'
  <1>1. /\ SessionInv(s) /\ QueryInv(s) /\ pc[s] = "count"
        /\ UNCHANGED <<table, created, current_id, result, delivered, cut, opened>>
    BY DEF Inv, QueryCount, dbVars, notifyVars, peerVars
  <1>2. /\ pushed_id[s] \in Nat /\ current_id[s] \in Nat
        /\ \A n \in delivered[s] \cup cut[s] : n \in Nat
        /\ \A row \in table : row.id \in Nat
    BY DEF TypeInv, TypeOK
  <1>3. CASE Matching(s) = {}
    <2>1. pushed_id'[s] = current_id[s] /\ pc'[s] = "wait"
      BY <1>3 DEF QueryCount, Continue, TypeInv, TypeOK
    <2>2. \A row \in table : row.id <= current_id[s] => row.id <= pushed_id[s]
      BY <1>2, <1>3 DEF Matching
    <2>3. pushed_id[s] <= current_id[s]
      BY <1>1 DEF QueryInv
    <2>4. \A n \in delivered[s] \cup cut[s] : n <= current_id[s]
      BY <1>1, <1>2, <2>3 DEF SessionInv
    <2>5. QED
      BY <1>1, <2>1, <2>2, <2>4 DEF Ok, SessionInv, WriteInv, QueryInv
  <1>4. CASE Matching(s) # {}
    <2>1. pushed_id' = pushed_id /\ pc'[s] = "select"
      BY <1>4 DEF QueryCount, TypeInv, TypeOK
    <2>2. QED
      BY <1>1, <2>1 DEF Ok, SessionInv, WriteInv, QueryInv
  <1>5. QED
    BY <1>3, <1>4

\* The SELECT query: every row of the range is in the result or is cut off.
LEMMA OkQuerySelect ==
    ASSUME TypeInv, Inv, NEW s \in Subscribers, QuerySelect(s)
    PROVE  Ok(s)'
  <1>1. PICK R \in Newest(Matching(s), SseLimit) :
            /\ cut' = [cut EXCEPT ![s] = @ \cup {row.log : row \in Matching(s) \ R}]
            /\ \/ /\ R = {}
                  /\ pushed_id' = [pushed_id EXCEPT ![s] = current_id[s]]
                  /\ Continue(s)
                  /\ UNCHANGED result
               \/ /\ R # {}
                  /\ result' = [result EXCEPT ![s] = R]
                  /\ pc' = [pc EXCEPT ![s] = "write"]
                  /\ UNCHANGED pushed_id
    BY DEF QuerySelect
  <1> DEFINE New == {row.log : row \in Matching(s) \ R}
  <1>2. /\ SessionInv(s) /\ QueryInv(s) /\ pc[s] = "select" /\ result[s] = {}
        /\ UNCHANGED <<table, created, current_id, delivered, opened>>
    BY DEF Inv, SessionInv, QuerySelect, dbVars, notifyVars
  <1>3. /\ pushed_id[s] \in Nat /\ current_id[s] \in Nat
        /\ pushed_id[s] <= current_id[s]
        /\ \A n \in delivered[s] \cup cut[s] : n \in Nat
        /\ \A row \in table : row.id \in Nat
    BY <1>2 DEF TypeInv, TypeOK, QueryInv
  <1>4. R \subseteq Matching(s) /\ Matching(s) \subseteq table
    BY DEF Newest, Matching
  <1>5. \A row \in table : row.id = row.log
    BY DEF Inv, DbInv
  <1>6. \A row \in Matching(s) : pushed_id[s] < row.log /\ row.log <= current_id[s]
    BY <1>5 DEF Matching
  <1>7. cut'[s] = cut[s] \cup New
    BY <1>1 DEF TypeInv
  <1>8. \A n \in New : pushed_id[s] < n /\ n <= current_id[s] /\ n \in Nat
    BY <1>3, <1>4, <1>5, <1>6
  <1>9. cut'[s] \cap delivered'[s] = {}
    <2>1. ASSUME NEW n \in New PROVE n \notin delivered[s]
      BY <1>2, <1>3, <1>8 DEF SessionInv
    <2>2. cut[s] \cap delivered[s] = {}
      BY <1>2 DEF SessionInv
    <2>3. QED
      BY <1>2, <1>7, <2>1, <2>2
  <1>10. \A n \in cut[s] : n <= pushed_id[s]
    BY <1>2 DEF SessionInv
  <1>11. \A n \in delivered[s] : n <= pushed_id[s]
    BY <1>2 DEF SessionInv
  <1>12. CASE R = {}
    <2>1. pushed_id'[s] = current_id[s] /\ pc'[s] = "wait" /\ result'[s] = {}
      BY <1>1, <1>12, <1>2 DEF Continue, TypeInv, TypeOK
    <2>2. \A n \in cut'[s] : n <= pushed_id'[s]
      BY <1>3, <1>7, <1>8, <1>10, <2>1
    <2>3. \A n \in delivered'[s] : n <= pushed_id'[s]
      BY <1>2, <1>3, <1>11, <2>1
    <2>4. ASSUME NEW row \in table', row.log > opened'[s], row.id <= pushed_id'[s]
          PROVE  row.log \in delivered'[s] \cup cut'[s]
      <3>1. CASE row.id <= pushed_id[s]
        BY <1>2, <1>7, <2>4, <3>1 DEF SessionInv
      <3>2. CASE ~(row.id <= pushed_id[s])
        <4>1. row \in Matching(s) \ R
          BY <1>2, <1>3, <1>12, <2>1, <2>4, <3>2 DEF Matching
        <4>2. QED
          BY <4>1, <1>7
      <3>3. QED
        BY <3>1, <3>2
    <2>5. pushed_id'[s] <= created' /\ current_id'[s] <= created'
      BY <1>2, <2>1 DEF SessionInv
    <2>6. QED
      BY <1>9, <2>1, <2>2, <2>3, <2>4, <2>5 DEF Ok, SessionInv, WriteInv, QueryInv
  <1>13. CASE R # {}
    <2>1. pushed_id' = pushed_id /\ pc'[s] = "write" /\ result'[s] = R
      BY <1>1, <1>13 DEF TypeInv, TypeOK
    <2>2. ASSUME NEW row \in result'[s]
          PROVE  /\ pushed_id'[s] < row.log /\ row.log <= current_id'[s]
                 /\ row.log \notin cut'[s]
      <3>1. row \in Matching(s) /\ row \in table /\ row \in R
        BY <1>4, <2>1
      <3>2. pushed_id[s] < row.log /\ row.log <= current_id[s] /\ row.log \in Nat
        BY <3>1, <1>6, <1>3, <1>5
      <3>3. row.log \notin cut[s]
        BY <3>2, <1>3, <1>10
      <3>4. row.log \notin New
        <4>1. SUFFICES ASSUME NEW b \in Matching(s) \ R, b.log = row.log
                       PROVE  FALSE
          OBVIOUS
        <4>2. b.id = row.id /\ b \in table
          BY <4>1, <3>1, <1>4, <1>5
        <4>3. b = row
          BY <4>2, <3>1 DEF Inv, DbInv
        <4>4. QED
          BY <4>1, <4>3, <3>1
      <3>5. QED
        BY <1>2, <1>7, <2>1, <3>2, <3>3, <3>4
    <2>3. ASSUME NEW row \in table', pushed_id'[s] < row.id, row.id <= current_id'[s]
          PROVE  row.log \in cut'[s] \/ \E r \in result'[s] : r.log = row.log
      <3>1. row \in Matching(s)
        BY <1>2, <2>1, <2>3 DEF Matching
      <3>2. QED
        BY <3>1, <1>7, <2>1
    <2>4. WriteInv(s)'
      <3>1. \A n \in cut'[s] : n <= current_id'[s]
        BY <1>2, <1>3, <1>7, <1>8, <1>10
      <3>2. QED
        BY <1>2, <1>3, <2>1, <2>2, <2>3, <3>1 DEF WriteInv
    <2>5. SessionInv(s)'
      BY <1>2, <1>7, <1>9, <2>1 DEF SessionInv
    <2>6. QED
      BY <2>1, <2>4, <2>5 DEF Ok, QueryInv
  <1>14. QED
    BY <1>12, <1>13

\* The event is written: what was asked for is delivered or cut off, so
\* pushed_id may move up to current_id.
LEMMA OkWriteEvent ==
    ASSUME TypeInv, Inv, NEW s \in Subscribers, WriteEvent(s)
    PROVE  Ok(s)'
  <1> DEFINE Logs == {row.log : row \in result[s]}
  <1>1. /\ SessionInv(s) /\ WriteInv(s) /\ pc[s] = "write"
        /\ UNCHANGED <<table, created, current_id, cut, opened>>
    BY DEF Inv, WriteEvent, dbVars, notifyVars
  <1>2. /\ pc'[s] = "wait" /\ pushed_id'[s] = current_id[s] /\ result'[s] = {}
        /\ delivered'[s] = delivered[s] \cup Logs
    BY DEF WriteEvent, Continue, TypeInv, TypeOK
  <1>3. /\ pushed_id[s] \in Nat /\ current_id[s] \in Nat
        /\ pushed_id[s] <= current_id[s]
        /\ \A n \in delivered[s] \cup cut[s] : n \in Nat
        /\ \A row \in table : row.id \in Nat
    BY <1>1 DEF TypeInv, TypeOK, WriteInv
  <1>4. \A n \in Logs : n <= current_id[s] /\ n \notin cut[s]
    BY <1>1 DEF WriteInv
  <1>5. \A n \in delivered'[s] : n <= pushed_id'[s]
    BY <1>1, <1>2, <1>3, <1>4 DEF SessionInv
  <1>6. cut'[s] \cap delivered'[s] = {}
    BY <1>1, <1>2, <1>4 DEF SessionInv
  <1>7. ASSUME NEW row \in table', row.log > opened'[s], row.id <= pushed_id'[s]
        PROVE  row.log \in delivered'[s] \cup cut'[s]
    <2>1. CASE row.id <= pushed_id[s]
      BY <1>1, <1>2, <1>7, <2>1 DEF SessionInv
    <2>2. CASE ~(row.id <= pushed_id[s])
      <3>1. pushed_id[s] < row.id /\ row.id <= current_id[s] /\ row \in table
        BY <1>1, <1>2, <1>3, <1>7, <2>2
      <3>2. row.log \in cut[s] \/ \E r \in result[s] : r.log = row.log
        BY <1>1, <3>1 DEF WriteInv
      <3>3. QED
        BY <1>1, <1>2, <3>2
    <2>3. QED
      BY <2>1, <2>2
  <1>8. \A n \in cut'[s] : n <= pushed_id'[s]
    BY <1>1, <1>2 DEF WriteInv
  <1>9. pushed_id'[s] <= created' /\ current_id'[s] <= created'
    BY <1>1, <1>2 DEF SessionInv
  <1>10. QED
    BY <1>1, <1>2, <1>5, <1>6, <1>7, <1>8, <1>9 DEF Ok, SessionInv, WriteInv, QueryInv

\* A step of a session keeps the invariant for the session and the others.
LEMMA InvSession ==
    ASSUME TypeInv, Inv, NEW s \in Subscribers, Session(s)
    PROVE  Inv'
  <1>1. UNCHANGED <<table, created, sequence, max_id, last_id>>
    BY SessionFrame
  <1>2. DbInv'
    BY <1>1 DEF Inv, DbInv
  <1>3. Ok(s)'
    <2>1. CASE \E columns \in {"known", "unknown", "none"} : Connect(s, columns)
      BY <2>1, OkConnect
    <2>2. CASE Hangup(s)
      BY <2>2 DEF Hangup, Inv, Ok, SessionInv, WriteInv, QueryInv, dbVars,
                  notifyVars, localVars
    <2>3. CASE TimerFires(s)
      BY <2>3, OkAfterTimer DEF TimerFires
    <2>4. CASE TimerCancelled(s)
      BY <2>4, OkAfterTimer DEF TimerCancelled
    <2>5. CASE QueryCount(s)
      BY <2>5, OkQueryCount
    <2>6. CASE QuerySelect(s)
      BY <2>6, OkQuerySelect
    <2>7. CASE QueryError(s)
      <3>1. /\ pc[s] \in {"count", "select"} /\ pc'[s] = "wait"
            /\ UNCHANGED <<table, created, pushed_id, current_id, result,
                           delivered, cut, opened>>
        BY <2>7 DEF QueryError, Continue, TypeInv, TypeOK, dbVars, notifyVars,
                    localVars, peerVars
      <3>2. SessionInv(s)
        BY DEF Inv
      <3>3. QED
        BY <3>1, <3>2 DEF Ok, SessionInv, WriteInv, QueryInv
    <2>8. CASE WriteEvent(s)
      BY <2>8, OkWriteEvent
    <2>9. CASE WriteFails(s)
      BY <2>9, OkUnsubscribe DEF WriteFails
    <2>10. QED
      BY <2>1, <2>2, <2>3, <2>4, <2>5, <2>6, <2>7, <2>8, <2>9 DEF Session
  <1>4. ASSUME NEW t \in Subscribers, s # t PROVE Ok(t)'
    <2>1. /\ pc'[t] = pc[t] /\ pushed_id'[t] = pushed_id[t]
          /\ current_id'[t] = current_id[t] /\ result'[t] = result[t]
          /\ delivered'[t] = delivered[t] /\ cut'[t] = cut[t]
          /\ opened'[t] = opened[t]
      BY <1>4, OtherSessions
    <2>2. SessionInv(t) /\ WriteInv(t) /\ QueryInv(t)
      BY DEF Inv
    <2>3. QED
      BY <1>1, <2>1, <2>2 DEF Ok, SessionInv, WriteInv, QueryInv
  <1>5. QED
    BY <1>2, <1>3, <1>4 DEF Inv, Ok

\* Every step keeps the invariant, when no id is assigned twice.
LEMMA InvNext ==
    ASSUME AutoIncrement, TypeInv, Inv, [Next]_vars
    PROVE  Inv'
  <1>1. CASE UNCHANGED vars
    BY <1>1 DEF vars, dbVars, notifyVars, localVars, peerVars, Inv, DbInv,
                SessionInv, WriteInv, QueryInv
  <1>2. CASE Next
    BY <1>2, InvInsert, InvNotify, InvVacuum, InvSession DEF Next
  <1>3. QED
    BY <1>1, <1>2

\* With AUTOINCREMENT ids, the specification has the invariant.
LEMMA Invariance ==
    ASSUME AutoIncrement
    PROVE  Spec => [](TypeInv /\ Inv)
  <1>1. Init => TypeInv /\ Inv
    BY TypeInit, InvInit
  <1>2. TypeInv /\ Inv /\ [Next]_vars => (TypeInv /\ Inv)'
    BY TypeNext, InvNext
  <1>3. QED
    BY <1>1, <1>2, PTL DEF Spec

\* A session of GET /logs/sse never passes over a log, however commits,
\* notifications, timers, queries and the vacuum job interleave, provided ids
\* are not reused (AUTOINCREMENT).
THEOREM SafeNothingSkipped ==
    ASSUME AutoIncrement
    PROVE  Spec => []NothingSkipped
  <1>1. TypeInv /\ Inv => NothingSkipped
    BY DEF Inv, SessionInv, NothingSkipped
  <1>2. QED
    BY <1>1, Invariance, PTL

\* A session never writes a log twice, provided ids are not reused.
THEOREM SafeAtMostOnce ==
    ASSUME AutoIncrement
    PROVE  Spec => []AtMostOnce
  <1>1. ASSUME TypeInv, Inv, NEW s \in Subscribers, NEW row \in result[s]
        PROVE  row.log \notin delivered[s]
    <2>1. pc[s] = "write" /\ pushed_id[s] < row.log
      BY <1>1 DEF Inv, SessionInv, WriteInv
    <2>2. pushed_id[s] \in Nat /\ row.log \in Nat
      BY <1>1 DEF TypeInv, TypeOK, Row
    <2>3. \A n \in delivered[s] : n <= pushed_id[s]
      BY <1>1 DEF Inv, SessionInv
    <2>4. QED
      BY <2>1, <2>2, <2>3
  <1>2. TypeInv /\ Inv => AtMostOnce
    BY <1>1 DEF AtMostOnce, Inv, SessionInv
  <1>3. QED
    BY <1>2, Invariance, PTL

=============================================================================
