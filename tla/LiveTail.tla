------------------------------ MODULE LiveTail -------------------------------
(***************************************************************************)
(* The live tail: GET /logs/sse sessions following the Log table.          *)
(*                                                                         *)
(* The flush task commits a batch, reads MAX(id) in the same job, and back *)
(* on the server thread calls LogNotifier::Notify, which publishes last_id *)
(* and cancels the timers of the waiting sessions.  A session wakes by the *)
(* cancellation or by its own timer, queries the ids it has not pushed yet *)
(* on a reader connection and writes them to its client.  The vacuum task  *)
(* deletes rows meanwhile.                                                 *)
(*                                                                         *)
(* Rows carry the number of the log they hold, counted in commit order, so *)
(* that a row can be told from another that has had the same id.           *)
(***************************************************************************)
EXTENDS Naturals, FiniteSets

CONSTANTS
    Subscribers,        \* SSE connections
    AutoIncrement,      \* is the id column declared AUTOINCREMENT?
    SseLimit,           \* sse_limit
    KeepAlive,          \* idle timer periods in 15 s
    MaxTs,              \* bound: distinct timestamps
    MaxBatch,           \* bound: rows in one flush
    MaxLogs             \* bound: logs ever inserted

ASSUME LiveTailAssumption ==
    /\ AutoIncrement \in BOOLEAN
    /\ SseLimit \in Nat /\ KeepAlive \in Nat /\ MaxTs \in Nat
    /\ MaxBatch \in Nat /\ MaxLogs \in Nat

VARIABLES
    table,      \* committed rows [id, log, ts]
    created,    \* number of logs inserted so far
    sequence,   \* the largest id ever assigned (sqlite_sequence)
    flushing,   \* the insert job is done and Notify is not
    max_id,     \* GetMaxLogId() as read by the insert job
    last_id,    \* LogNotifier::last_id_
    pc,         \* per session: "off", "wait", "count", "select", "write"
    pushed_id, current_id,      \* HandleSSE's locals
    cancelled,  \* Notify has cancelled the session's pending timer
    recent,     \* less than sse_debounce_ms since the last push
    idle,       \* timer periods since the last write
    result,     \* rows of the last query
    client,     \* is the peer still there?
    fields,     \* what fields= asks for: "known" columns, "unknown" ones, "none"
    delivered,  \* logs written to the client in this session
    cut,        \* history: logs that LIMIT cut off a query of this session
    opened      \* logs committed before the session was opened

dbVars == <<table, created, sequence>>
notifyVars == <<flushing, max_id, last_id>>
localVars == <<pushed_id, current_id, recent, idle, result>>
peerVars == <<client, fields, delivered, cut, opened>>
vars == <<dbVars, notifyVars, pc, cancelled, localVars, peerVars>>

Ids == {row.id : row \in table}

\* SELECT MAX(id), 0 for an empty table.
GetMaxLogId == IF table = {} THEN 0
               ELSE CHOOSE i \in Ids : \A j \in Ids : j <= i

Init ==
    /\ table = {} /\ created = 0 /\ sequence = 0
    /\ flushing = FALSE /\ max_id = 0 /\ last_id = 0
    /\ pc = [s \in Subscribers |-> "off"]
    /\ pushed_id = [s \in Subscribers |-> 0]
    /\ current_id = [s \in Subscribers |-> 0]
    /\ cancelled = [s \in Subscribers |-> FALSE]
    /\ recent = [s \in Subscribers |-> FALSE]
    /\ idle = [s \in Subscribers |-> 0]
    /\ result = [s \in Subscribers |-> {}]
    /\ client = [s \in Subscribers |-> FALSE]
    /\ fields = [s \in Subscribers |-> "known"]
    /\ delivered = [s \in Subscribers |-> {}] /\ cut = [s \in Subscribers |-> {}]
    /\ opened = [s \in Subscribers |-> 0]

-----------------------------------------------------------------------------
(* The flush task *)

\* SQLite: the rowid of the first row of the next INSERT.
NextId == 1 + (IF AutoIncrement THEN sequence ELSE GetMaxLogId)

\* Mutated form of Insert: the id announced is one too high.
InsertOffByOne(n) ==
    /\ ~flushing
    /\ created + n <= MaxLogs
    /\ \E ts \in [1..n -> 1..MaxTs] :
          table' = table \cup {[id |-> NextId + i - 1, log |-> created + i,
                                ts |-> ts[i]] : i \in 1..n}
    /\ created' = created + n
    /\ sequence' = NextId + n - 1
    /\ max_id' = IF n = 0 THEN GetMaxLogId ELSE NextId + n
    /\ flushing' = TRUE
    /\ UNCHANGED <<last_id, pc, cancelled, localVars, peerVars>>

\* The insert job: n rows committed together, none if every row of the batch
\* was skipped, and MAX(id) read.  After a vacuum it may be less than before.
\* The clients that posted the logs chose their timestamps.
Insert(n) ==
    /\ ~flushing
    /\ created + n <= MaxLogs
    /\ \E ts \in [1..n -> 1..MaxTs] :
          table' = table \cup {[id |-> NextId + i - 1, log |-> created + i,
                                ts |-> ts[i]] : i \in 1..n}
    /\ created' = created + n
    /\ sequence' = NextId + n - 1
    /\ max_id' = IF n = 0 THEN GetMaxLogId ELSE NextId + n - 1
    /\ flushing' = TRUE
    /\ UNCHANGED <<last_id, pc, cancelled, localVars, peerVars>>

\* LogNotifier::Notify: publish the id, then cancel every pending timer.
Notify ==
    /\ flushing
    /\ flushing' = FALSE
    /\ last_id' = max_id
    /\ cancelled' = [s \in Subscribers |-> cancelled[s] \/ pc[s] = "wait"]
    /\ UNCHANGED <<dbVars, max_id, pc, localVars, peerVars>>

-----------------------------------------------------------------------------
(* The vacuum task *)

\* The vacuum job: remove_stale_logs, when the oldest log pre-dates the
\* cutoff, deletes by timestamp up to the id the size limit allows (the
\* largest id when there is none); remove_excessive_logs then deletes a prefix
\* of the ids, never the last one (vacuum_target_size is positive).
Vacuum(cutoff, cap, remove_max_id) ==
    LET stale == {row \in table : row.ts <= cutoff /\ row.id <= cap}
        kept == table \ stale
    IN  /\ stale # {} => \E row \in table : row.ts < cutoff
        /\ \/ remove_max_id = 0
           \/ \E row \in kept : row.id > remove_max_id
        /\ table' = {row \in kept : row.id > remove_max_id}
        /\ table' # table
        /\ UNCHANGED <<created, sequence, notifyVars, pc, cancelled, localVars,
                       peerVars>>

-----------------------------------------------------------------------------
(* HandleSSE *)

\* The parameter fields is split but not looked up (an empty one gives no field
\* at all); the headers are written; then Subscribe and GetLastId with no await between.
Connect(s, columns) ==
    /\ pc[s] = "off"
    /\ pc' = [pc EXCEPT ![s] = "wait"]
    /\ cancelled' = [cancelled EXCEPT ![s] = FALSE]
    /\ pushed_id' = [pushed_id EXCEPT ![s] = last_id]
    /\ opened' = [opened EXCEPT ![s] = created]
    /\ recent' = [recent EXCEPT ![s] = FALSE]
    /\ idle' = [idle EXCEPT ![s] = 0]
    /\ client' = [client EXCEPT ![s] = TRUE]
    /\ fields' = [fields EXCEPT ![s] = columns]
    /\ delivered' = [delivered EXCEPT ![s] = {}] /\ cut' = [cut EXCEPT ![s] = {}]
    /\ UNCHANGED <<dbVars, notifyVars, current_id, result>>

\* The peer goes away; the session learns it from a failed write.
Hangup(s) ==
    /\ client[s]
    /\ client' = [client EXCEPT ![s] = FALSE]
    /\ UNCHANGED <<dbVars, notifyVars, pc, cancelled, localVars, fields,
                   delivered, cut, opened>>

\* The end of HandleSSE: the subscription is removed, and the locals are gone.
Unsubscribe(s) ==
    /\ pc' = [pc EXCEPT ![s] = "off"]
    /\ cancelled' = [cancelled EXCEPT ![s] = FALSE]
    /\ client' = [client EXCEPT ![s] = FALSE]
    /\ pushed_id' = [pushed_id EXCEPT ![s] = 0]
    /\ current_id' = [current_id EXCEPT ![s] = 0]
    /\ recent' = [recent EXCEPT ![s] = FALSE]
    /\ idle' = [idle EXCEPT ![s] = 0]
    /\ result' = [result EXCEPT ![s] = {}]
    /\ fields' = [fields EXCEPT ![s] = "known"]
    /\ delivered' = [delivered EXCEPT ![s] = {}] /\ cut' = [cut EXCEPT ![s] = {}]
    /\ opened' = [opened EXCEPT ![s] = 0]

\* Mutated form of AfterTimer: no keep-alive while there is nothing new.
AfterTimerNoKeepAlive(s, fired) ==
    \/ /\ last_id <= pushed_id[s]
       /\ cancelled' = [cancelled EXCEPT ![s] = FALSE]
       /\ recent' = [recent EXCEPT ![s] = recent[s] /\ ~fired]
       /\ UNCHANGED <<pc, pushed_id, current_id, idle, result, peerVars>>
    \/ /\ last_id > pushed_id[s]
       /\ current_id' = [current_id EXCEPT ![s] = last_id]
       /\ pc' = [pc EXCEPT ![s] = "count"]
       /\ cancelled' = [cancelled EXCEPT ![s] = FALSE]
       /\ recent' = [recent EXCEPT ![s] = FALSE]
       /\ UNCHANGED <<pushed_id, idle, result, peerVars>>

\* The body of the event loop after the timer: nothing new, too early, or
\* query.  fired: the timer expired, so a debounce window has passed.
AfterTimer(s, fired) ==
    LET still == recent[s] /\ ~fired
        quiet == IF fired /\ idle[s] < KeepAlive THEN idle[s] + 1 ELSE idle[s]
    IN
    \/ /\ last_id <= pushed_id[s]
       /\ quiet < KeepAlive
       /\ cancelled' = [cancelled EXCEPT ![s] = FALSE]
       /\ recent' = [recent EXCEPT ![s] = still]
       /\ idle' = [idle EXCEPT ![s] = quiet]
       /\ UNCHANGED <<pc, pushed_id, current_id, result, peerVars>>
    \/ /\ last_id <= pushed_id[s]       \* keep-alive comment, written
       /\ quiet >= KeepAlive /\ client[s]
       /\ cancelled' = [cancelled EXCEPT ![s] = FALSE]
       /\ recent' = [recent EXCEPT ![s] = still]
       /\ idle' = [idle EXCEPT ![s] = 0]
       /\ UNCHANGED <<pc, pushed_id, current_id, result, peerVars>>
    \/ /\ last_id <= pushed_id[s]       \* keep-alive comment, failed
       /\ quiet >= KeepAlive /\ ~client[s]
       /\ Unsubscribe(s)
    \/ /\ last_id > pushed_id[s] /\ still
       /\ cancelled' = [cancelled EXCEPT ![s] = FALSE]
       /\ UNCHANGED <<pc, localVars, peerVars>>
    \/ /\ last_id > pushed_id[s] /\ ~still
       /\ current_id' = [current_id EXCEPT ![s] = last_id]
       /\ pc' = [pc EXCEPT ![s] = "count"]
       /\ cancelled' = [cancelled EXCEPT ![s] = FALSE]
       /\ recent' = [recent EXCEPT ![s] = FALSE]
       /\ idle' = [idle EXCEPT ![s] = quiet]
       /\ UNCHANGED <<pushed_id, result, peerVars>>

\* Mutated form of TimerFires: the wait has no timeout of its own.
TimerFiresNever(s) ==
    /\ pc[s] = "wait" /\ cancelled[s]
    /\ AfterTimer(s, TRUE)
    /\ UNCHANGED <<dbVars, notifyVars>>

\* The session's timer expires.
TimerFires(s) ==
    /\ pc[s] = "wait"
    /\ AfterTimer(s, TRUE)
    /\ UNCHANGED <<dbVars, notifyVars>>

\* The wait is aborted by Notify, inside or after the debounce window.
TimerCancelled(s) ==
    /\ pc[s] = "wait" /\ cancelled[s]
    /\ \E elapsed \in BOOLEAN : AfterTimer(s, elapsed)
    /\ UNCHANGED <<dbVars, notifyVars>>

Matching(s) == {row \in table : pushed_id[s] < row.id /\ row.id <= current_id[s]}

\* Back to the top of the event loop; the window passes or not.
Continue(s) == pc' = [pc EXCEPT ![s] = "wait"]

\* ReaderDatabase::Query: validate_field for each field, then the first
\* statement, SELECT COUNT(id).
QueryCount(s) ==
    /\ pc[s] = "count" /\ fields[s] # "unknown"
    /\ \/ /\ Matching(s) = {}
          /\ pushed_id' = [pushed_id EXCEPT ![s] = current_id[s]]
          /\ Continue(s)
       \/ /\ Matching(s) # {}
          /\ pc' = [pc EXCEPT ![s] = "select"]
          /\ UNCHANGED pushed_id
    /\ UNCHANGED <<dbVars, notifyVars, cancelled, current_id, recent, idle,
                   result, peerVars>>

\* ORDER BY timestamp DESC LIMIT sse_limit: a newest part of the rows.
Newest(rows, limit) ==
    {R \in SUBSET rows :
        /\ Cardinality(R) = IF limit < Cardinality(rows) THEN limit
                                                         ELSE Cardinality(rows)
        /\ \A a \in R, b \in rows \ R : a.ts >= b.ts}

\* ReaderDatabase::Query, second statement: the rows themselves.  Without a
\* field it is no SQL.
QuerySelect(s) ==
    /\ pc[s] = "select" /\ fields[s] = "known"
    /\ \E R \in Newest(Matching(s), SseLimit) :
          /\ cut' = [cut EXCEPT ![s] = @ \cup {row.log : row \in Matching(s) \ R}]
          /\ \/ /\ R = {}
                /\ pushed_id' = [pushed_id EXCEPT ![s] = current_id[s]]
                /\ Continue(s)
                /\ UNCHANGED result
             \/ /\ R # {}
                /\ result' = [result EXCEPT ![s] = R]
                /\ pc' = [pc EXCEPT ![s] = "write"]
                /\ UNCHANGED pushed_id
    /\ UNCHANGED <<dbVars, notifyVars, cancelled, current_id, recent, idle,
                   client, fields, delivered, opened>>

\* The query throws, now and then or, with the wrong fields, every time: logged,
\* and tried again after the next wait.  Nothing is written to the client.
QueryError(s) ==
    /\ pc[s] \in {"count", "select"}
    /\ Continue(s)
    /\ UNCHANGED <<dbVars, notifyVars, cancelled, localVars, peerVars>>

\* Mutated form of WriteEvent: last_id is read again after the write.
WriteEventRereads(s) ==
    /\ pc[s] = "write" /\ client[s]
    /\ delivered' = [delivered EXCEPT ![s] = @ \cup {row.log : row \in result[s]}]
    /\ pushed_id' = [pushed_id EXCEPT ![s] = last_id]
    /\ recent' = [recent EXCEPT ![s] = TRUE]
    /\ idle' = [idle EXCEPT ![s] = 0]
    /\ result' = [result EXCEPT ![s] = {}]
    /\ Continue(s)
    /\ UNCHANGED <<dbVars, notifyVars, cancelled, current_id, client, fields, cut,
                   opened>>

\* Mutated form of WriteEvent: the pushed ids are not remembered.
WriteEventForgets(s) ==
    /\ pc[s] = "write" /\ client[s]
    /\ delivered' = [delivered EXCEPT ![s] = @ \cup {row.log : row \in result[s]}]
    /\ recent' = [recent EXCEPT ![s] = TRUE]
    /\ idle' = [idle EXCEPT ![s] = 0]
    /\ result' = [result EXCEPT ![s] = {}]
    /\ Continue(s)
    /\ UNCHANGED <<dbVars, notifyVars, cancelled, pushed_id, current_id, client,
                   fields, cut, opened>>

\* The event is written; the ids up to current_id are done with.
WriteEvent(s) ==
    /\ pc[s] = "write" /\ client[s]
    /\ delivered' = [delivered EXCEPT ![s] = @ \cup {row.log : row \in result[s]}]
    /\ pushed_id' = [pushed_id EXCEPT ![s] = current_id[s]]
    /\ recent' = [recent EXCEPT ![s] = TRUE]
    /\ idle' = [idle EXCEPT ![s] = 0]
    /\ result' = [result EXCEPT ![s] = {}]
    /\ Continue(s)
    /\ UNCHANGED <<dbVars, notifyVars, cancelled, current_id, client, fields, cut,
                   opened>>

\* The write fails: the client has gone.
WriteFails(s) ==
    /\ pc[s] = "write" /\ ~client[s]
    /\ Unsubscribe(s)
    /\ UNCHANGED <<dbVars, notifyVars>>

-----------------------------------------------------------------------------

Session(s) ==
    \/ \E columns \in {"known", "unknown", "none"} : Connect(s, columns)
    \/ Hangup(s)
    \/ TimerFires(s) \/ TimerCancelled(s)
    \/ QueryCount(s) \/ QuerySelect(s) \/ QueryError(s)
    \/ WriteEvent(s) \/ WriteFails(s)

Next ==
    \/ \E n \in 0..MaxBatch : Insert(n)
    \/ Notify
    \/ \E cutoff \in 0..MaxTs, cap, remove_max_id \in 0..MaxLogs :
          Vacuum(cutoff, cap, remove_max_id)
    \/ \E s \in Subscribers : Session(s)

Spec == Init /\ [][Next]_vars

\* Timers expire, posted jobs run, and a query that can succeed does not fail
\* every time.
Fairness ==
    /\ WF_vars(Notify)
    /\ \A s \in Subscribers :
          /\ WF_vars(TimerFires(s))
          /\ SF_vars(QueryCount(s))
          /\ SF_vars(QuerySelect(s))
          /\ WF_vars(QueryCount(s) \/ QuerySelect(s) \/ QueryError(s))
          /\ WF_vars(WriteEvent(s) \/ WriteFails(s))

FairSpec == Spec /\ Fairness

-----------------------------------------------------------------------------
(* Properties *)

\* The values the variables of the live tail range over.
TypeOK ==
    /\ table \subseteq [id : 1..MaxLogs, log : 1..MaxLogs, ts : 1..MaxTs]
    /\ created \in 0..MaxLogs /\ sequence \in 0..MaxLogs
    /\ flushing \in BOOLEAN /\ max_id \in 0..MaxLogs /\ last_id \in 0..MaxLogs
    /\ pc \in [Subscribers -> {"off", "wait", "count", "select", "write"}]
    /\ pushed_id \in [Subscribers -> 0..MaxLogs]
    /\ current_id \in [Subscribers -> 0..MaxLogs]
    /\ cancelled \in [Subscribers -> BOOLEAN]
    /\ recent \in [Subscribers -> BOOLEAN]
    /\ client \in [Subscribers -> BOOLEAN]
    /\ fields \in [Subscribers -> {"known", "unknown", "none"}]
    /\ idle \in [Subscribers -> 0..KeepAlive]
    /\ \A s \in Subscribers : delivered[s] \subseteq 1..MaxLogs

\* A session never passes over a log: of the logs committed since it was opened
\* and still in the table, all with an id up to pushed_id have been written to
\* its client (sse.hpp:33: "check for any logs missed during processing"), but
\* for those that sse_limit cut off a burst, which are not asked for again.
NothingSkipped ==
    \A s \in Subscribers : pc[s] # "off" =>
        \A row \in table :
            (row.log > opened[s] /\ row.id <= pushed_id[s])
                => row.log \in delivered[s] \cup cut[s]

\* No log is written twice in one session, whatever wakes it up.
AtMostOnce ==
    \A s \in Subscribers :
        /\ \A row \in result[s] : row.log \notin delivered[s]
        /\ cut[s] \cap delivered[s] = {}

\* A log committed while a session is open is eventually written to it, unless
\* vacuum deletes the log first, sse_limit cuts it off, the session ends
\* (docs/index.rst: "Subscribe to new logs in real time") or it asks for fields
\* that no query can answer.
TailComplete ==
    \A s \in Subscribers, n \in 1..MaxLogs :
        LET owed == /\ pc[s] # "off" /\ n > opened[s] /\ fields[s] = "known"
                    /\ n \notin delivered[s] \cup cut[s]
                    /\ \E row \in table : row.log = n
        IN  owed ~> ~owed

\* The session of a client that has gone is eventually ended and unsubscribed,
\* even if no log ever comes again (sse.hpp:97-98: the keep-alive is there to
\* "force socket write to detect disconnects").  Only a session whose queries
\* all fail escapes, for as long as there are logs past its pushed_id: it goes
\* from one failed query to the next and writes nothing, not even the comment.
GoneClientsReaped ==
    \A s \in Subscribers :
        (pc[s] # "off" /\ ~client[s])
            ~> \/ pc[s] = "off"
               \/ fields[s] # "known" /\ last_id > pushed_id[s]

=============================================================================
