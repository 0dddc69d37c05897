------------------------------- MODULE Ingest --------------------------------
(***************************************************************************)
(* The write path of LogLite: from POST /logs and the harvesters, through  *)
(* the in-memory backlog and the flush task, into the Log table, across    *)
(* shutdown, insert failure, process crash and restart.                    *)
(*                                                                         *)
(* Threads.  Coroutines (HTTP handlers, the flush task, the accept loop)   *)
(* share the one thread of Server::pool_, so a coroutine runs alone from   *)
(* one co_await to the next.  Each harvester has a thread of its own and   *)
(* interleaves with everything.  The database job of the flush task runs   *)
(* row by row here, interleaved with all of them.                          *)
(*                                                                         *)
(* Log entries are numbered 1, 2, 3, ... in the order in which Backlog::   *)
(* Add receives them.  Every number has one place at any time: in memory   *)
(* (queue, logs, txn), in the database (stored), or gone (evicted,         *)
(* rejected, lost).                                                        *)
(***************************************************************************)
EXTENDS Backlog

CONSTANTS
    FlushInterval,      \* polls of 100 ms in task_backlog_flush_interval
    MaxBody,            \* bound: entries in one POST body
    MaxAccepted,        \* bound: entries ever received
    MaxRestarts         \* bound: starts of the process after the first

ASSUME IngestAssumption ==
    /\ FlushInterval \in Nat
    /\ MaxBody \in Nat
    /\ MaxAccepted \in Nat
    /\ MaxRestarts \in Nat

VARIABLES
    accepted,   \* number of entries Backlog::Add has received
    body,       \* entries of the current POST body still to be added
    phase,      \* "running", "stopping" (RequestStop), "halted" (pool_.stop),
                \* "closed" (RunServer has returned, or the process has died)
    flush_pc,   \* where the flush task is
    ticks,      \* polls since the flush task's deadline was set
    logs,       \* the flushed batch: the entries Insert has not reached yet
    txn,        \* rows of the open transaction
    stored,     \* committed rows; the entry at index i has rowid i
    rejected,   \* skipped by Insert: a required column or the step failed
    lost,       \* destroyed with the process' memory or rolled back
    max_id,     \* GetMaxLogId() as read by the insert job
    last_id,    \* LogNotifier::last_id_
    at_stop,    \* entries received before Server::Stop was last called
    clean,      \* no insert failure and no crash so far
    restarts

vars == <<queue, is_full, evicted, accepted, body, phase, flush_pc, ticks,
          logs, txn, stored, rejected, lost, max_id, last_id, at_stop, clean,
          restarts>>

dropVars == <<rejected, lost>>
idVars == <<max_id, last_id>>
lifeVars == <<at_stop, clean, restarts>>

Elems(s) == {s[i] : i \in 1..Len(s)}

StopRequested == phase # "running"

\* The server thread is between two coroutine segments and pool_ is not stopped.
ServerThreadFree == phase \in {"running", "stopping"} /\ body = 0

Init ==
    /\ BacklogInit
    /\ accepted = 0
    /\ body = 0
    /\ phase = "running"
    /\ flush_pc = "poll"
    /\ ticks = 0
    /\ logs = <<>> /\ txn = <<>> /\ stored = <<>>
    /\ rejected = {} /\ lost = {}
    /\ max_id = 0 /\ last_id = 0 /\ at_stop = 0
    /\ clean = TRUE
    /\ restarts = 0

-----------------------------------------------------------------------------
(* Producers *)

\* HandleInsert: a parsed body, an object or an array, of n entries.  A body
\* that does not parse, or is neither, is answered 400 and changes nothing.
HandleInsert(n) ==
    /\ ServerThreadFree
    /\ accepted + n <= MaxAccepted
    /\ body' = n
    /\ UNCHANGED <<backlogVars, accepted, phase, flush_pc, ticks, logs, txn,
                   stored, dropVars, idVars, lifeVars>>

\* Mutated form of HandlerAdd: the loop runs once too often.
HandlerAddOnceMore ==
    /\ phase \in {"running", "stopping"}
    /\ Add(accepted + 1)
    /\ accepted' = accepted + 1
    /\ body' = body - 1
    /\ UNCHANGED <<phase, flush_pc, ticks, logs, txn, stored, dropVars,
                   idVars, lifeVars>>

\* The loop of HandleInsert: the next entry of the body.
HandlerAdd ==
    /\ phase \in {"running", "stopping"}
    /\ body > 0
    /\ Add(accepted + 1)
    /\ accepted' = accepted + 1
    /\ body' = body - 1
    /\ UNCHANGED <<phase, flush_pc, ticks, logs, txn, stored, dropVars,
                   idVars, lifeVars>>

\* Harvester::Ingest, on the harvester's own thread; native harvesters are
\* stopped only after Server::Run has returned.
HarvesterIngest ==
    /\ phase # "closed"
    /\ accepted + body < MaxAccepted
    /\ Add(accepted + 1)
    /\ accepted' = accepted + 1
    /\ UNCHANGED <<body, phase, flush_pc, ticks, logs, txn, stored, dropVars,
                   idVars, lifeVars>>

-----------------------------------------------------------------------------
(* FlushBacklogTask *)

\* One turn of the inner loop: wait 100 ms.
PollTick ==
    /\ ServerThreadFree
    /\ flush_pc = "poll"
    /\ ticks < FlushInterval /\ ~is_full /\ ~StopRequested
    /\ ticks' = ticks + 1
    /\ UNCHANGED <<backlogVars, accepted, body, phase, flush_pc, logs, txn,
                   stored, dropVars, idVars, lifeVars>>

\* Mutated form of FlushWake: the interval never expires.
FlushWakeNoDeadline ==
    /\ ServerThreadFree
    /\ flush_pc = "poll"
    /\ is_full \/ StopRequested
    /\ \/ /\ StopRequested
          /\ flush_pc' = "stopped"
          /\ UNCHANGED <<backlogVars, ticks, logs>>
       \/ /\ ~StopRequested
          /\ logs' = queue
          /\ Flush
          /\ ticks' = 0
          /\ flush_pc' = IF queue = <<>> THEN "poll" ELSE "insert"
    /\ UNCHANGED <<accepted, body, phase, txn, stored, dropVars, idVars,
                   lifeVars>>

\* Mutated form of FlushWake: the backlog is drained before the stop flag is
\* looked at, and the batch is destroyed with the coroutine.
FlushWakeDrainsFirst ==
    /\ ServerThreadFree
    /\ flush_pc = "poll"
    /\ ticks >= FlushInterval \/ is_full \/ StopRequested
    /\ Flush
    /\ \/ /\ StopRequested
          /\ flush_pc' = "stopped"
          /\ UNCHANGED <<ticks, logs>>
       \/ /\ ~StopRequested
          /\ logs' = queue
          /\ ticks' = 0
          /\ flush_pc' = IF queue = <<>> THEN "poll" ELSE "insert"
    /\ UNCHANGED <<accepted, body, phase, txn, stored, dropVars, idVars,
                   lifeVars>>

\* The inner loop ends: stop, or drain the backlog.
FlushWake ==
    /\ ServerThreadFree
    /\ flush_pc = "poll"
    /\ ticks >= FlushInterval \/ is_full \/ StopRequested
    /\ \/ /\ StopRequested
          /\ flush_pc' = "stopped"
          /\ UNCHANGED <<backlogVars, ticks, logs>>
       \/ /\ ~StopRequested
          /\ logs' = queue
          /\ Flush
          /\ ticks' = 0
          /\ flush_pc' = IF queue = <<>> THEN "poll" ELSE "insert"
    /\ UNCHANGED <<accepted, body, phase, txn, stored, dropVars, idVars,
                   lifeVars>>

\* WriterDatabase::Insert up to and including BEGIN, on the writer's own pool,
\* which still runs when pool_ has been stopped.
InsertBegin ==
    /\ flush_pc = "insert"
    /\ flush_pc' = "rows"
    /\ UNCHANGED <<backlogVars, accepted, body, phase, ticks, logs, txn,
                   stored, dropVars, idVars, lifeVars>>

\* One turn of the row loop of Insert: the row is inserted, or skipped.
InsertRow ==
    /\ flush_pc = "rows"
    /\ logs # <<>>
    /\ logs' = Tail(logs)
    /\ \/ txn' = Append(txn, Head(logs)) /\ UNCHANGED rejected
       \/ rejected' = rejected \cup {Head(logs)} /\ UNCHANGED txn
    /\ UNCHANGED <<backlogVars, accepted, body, phase, flush_pc, ticks,
                   stored, lost, idVars, lifeVars>>

\* The row's step fails in a way that makes SQLite end the transaction (a full
\* disk, an I/O error): the rows so far are rolled back, Insert only logs the
\* error and goes on with the next row.
StepEndsTransaction ==
    /\ flush_pc = "rows"
    /\ logs # <<>>
    /\ logs' = Tail(logs)
    /\ rejected' = rejected \cup {Head(logs)}
    /\ lost' = lost \cup Elems(txn)
    /\ txn' = <<>>
    /\ flush_pc' = "autocommit"
    /\ clean' = FALSE
    /\ UNCHANGED <<backlogVars, accepted, body, phase, ticks, stored, idVars,
                   at_stop, restarts>>

\* One turn of the row loop without a transaction: a row that is inserted is in
\* the table at once.
AutocommitRow ==
    /\ flush_pc = "autocommit"
    /\ logs # <<>>
    /\ logs' = Tail(logs)
    /\ \/ stored' = Append(stored, Head(logs)) /\ UNCHANGED rejected
       \/ rejected' = rejected \cup {Head(logs)} /\ UNCHANGED stored
    /\ UNCHANGED <<backlogVars, accepted, body, phase, flush_pc, ticks, txn,
                   lost, idVars, lifeVars>>

\* COMMIT throws, there being no transaction, and the flush task ends; what was
\* inserted stays.
CommitThrow ==
    /\ flush_pc = "autocommit"
    /\ logs = <<>>
    /\ flush_pc' = "crashed"
    /\ UNCHANGED <<backlogVars, accepted, body, phase, ticks, logs, txn, stored,
                   dropVars, idVars, lifeVars>>

\* Mutated form of InsertCommit: GetMaxLogId is read before Insert.
InsertCommitStaleMax ==
    /\ flush_pc = "rows"
    /\ logs = <<>>
    /\ stored' = stored \o txn
    /\ txn' = <<>>
    /\ max_id' = Len(stored)
    /\ flush_pc' = "notify"
    /\ UNCHANGED <<backlogVars, accepted, body, phase, ticks, logs, dropVars,
                   last_id, lifeVars>>

\* COMMIT, then GetMaxLogId in the same job.
InsertCommit ==
    /\ flush_pc = "rows"
    /\ logs = <<>>
    /\ stored' = stored \o txn
    /\ txn' = <<>>
    /\ max_id' = Len(stored')
    /\ flush_pc' = "notify"
    /\ UNCHANGED <<backlogVars, accepted, body, phase, ticks, logs, dropVars,
                   last_id, lifeVars>>

\* GetMaxLogId throws after the COMMIT: the rows stay, the flush task ends.
GetMaxIdThrow ==
    /\ flush_pc = "rows"
    /\ logs = <<>>
    /\ stored' = stored \o txn
    /\ txn' = <<>>
    /\ flush_pc' = "crashed"
    /\ clean' = FALSE
    /\ UNCHANGED <<backlogVars, accepted, body, phase, ticks, logs, dropVars,
                   idVars, at_stop, restarts>>

\* Mutated form of InsertThrow: the exception leaves without a ROLLBACK, and
\* the rows so far are committed by whatever follows.
InsertThrowNoRollback ==
    /\ flush_pc \in {"insert", "rows"}
    /\ lost' = lost \cup Elems(txn) \cup Elems(logs)
    /\ stored' = stored \o txn
    /\ txn' = <<>> /\ logs' = <<>>
    /\ flush_pc' = "crashed"
    /\ clean' = FALSE
    /\ UNCHANGED <<backlogVars, accepted, body, phase, ticks, rejected,
                   idVars, at_stop, restarts>>

\* Insert throws (prepare, BEGIN, the dictionary, COMMIT): ROLLBACK, and the
\* exception ends the flush task, what is left of its batch with it.
InsertThrow ==
    /\ flush_pc \in {"insert", "rows", "autocommit"}
    /\ lost' = lost \cup Elems(txn) \cup Elems(logs)
    /\ txn' = <<>> /\ logs' = <<>>
    /\ flush_pc' = "crashed"
    /\ clean' = FALSE
    /\ UNCHANGED <<backlogVars, accepted, body, phase, ticks, stored,
                   rejected, idVars, at_stop, restarts>>

\* Back on the server thread: LogNotifier::Notify, and the next deadline.
NotifyStep ==
    /\ ServerThreadFree
    /\ flush_pc = "notify"
    /\ last_id' = max_id
    /\ ticks' = 0
    /\ flush_pc' = "poll"
    /\ UNCHANGED <<backlogVars, accepted, body, phase, logs, txn, stored,
                   dropVars, max_id, lifeVars>>

-----------------------------------------------------------------------------
(* Shutdown, crash and restart *)

\* Server::Stop: SIGINT, SIGTERM, or StopServer from another thread.
Stop ==
    /\ phase = "running"
    /\ phase' = "stopping"
    /\ at_stop' = accepted
    /\ UNCHANGED <<backlogVars, accepted, body, flush_pc, ticks, logs, txn,
                   stored, dropVars, idVars, clean, restarts>>

\* on_task_error: a background task that throws shuts the server down.
TaskError ==
    /\ ServerThreadFree
    /\ flush_pc = "crashed"
    /\ flush_pc' = "stopped"
    /\ phase' = "stopping"
    /\ at_stop' = accepted
    /\ UNCHANGED <<backlogVars, accepted, body, ticks, logs, txn, stored,
                   dropVars, idVars, clean, restarts>>

\* The accept loop sees the closed acceptor and stops pool_: no coroutine,
\* wherever it is suspended, runs again.
AcceptLoopExit ==
    /\ phase = "stopping"
    /\ ServerThreadFree
    /\ phase' = "halted"
    /\ UNCHANGED <<backlogVars, accepted, body, flush_pc, ticks, logs, txn,
                   stored, dropVars, idVars, lifeVars>>

\* What a process leaves behind when it ends: only the database.
LoseMemory ==
    /\ lost' = lost \cup Elems(queue) \cup Elems(logs) \cup Elems(txn)
    /\ queue' = <<>> /\ logs' = <<>> /\ txn' = <<>>
    /\ is_full' = FALSE
    /\ body' = 0
    /\ ticks' = 0
    /\ flush_pc' = "stopped"
    /\ phase' = "closed"
    /\ UNCHANGED <<evicted, accepted, stored, rejected, idVars, at_stop,
                   restarts>>

\* The rest of RunServer: harvesters joined, pools joined (which waits for a
\* running database job; one that has not begun never will), databases closed,
\* the backlog destroyed.
TearDown ==
    /\ phase = "halted"
    /\ flush_pc \notin {"rows", "autocommit"}
    /\ LoseMemory
    /\ UNCHANGED clean

\* The process is killed.
Crash ==
    /\ phase # "closed"
    /\ LoseMemory
    /\ clean' = FALSE

\* RunServer again on the same database.
Restart ==
    /\ phase = "closed"
    /\ restarts < MaxRestarts
    /\ restarts' = restarts + 1
    /\ phase' = "running"
    /\ flush_pc' = "poll"
    /\ last_id' = Len(stored)
    /\ UNCHANGED <<backlogVars, accepted, body, ticks, logs, txn, stored,
                   dropVars, max_id, at_stop, clean>>

-----------------------------------------------------------------------------

FlushStep == PollTick \/ FlushWake \/ InsertBegin \/ InsertRow \/ InsertCommit
             \/ AutocommitRow \/ CommitThrow \/ NotifyStep

Next ==
    \/ \E n \in 1..MaxBody : HandleInsert(n)
    \/ HandlerAdd
    \/ HarvesterIngest
    \/ FlushStep
    \/ StepEndsTransaction
    \/ InsertThrow
    \/ GetMaxIdThrow
    \/ Stop
    \/ TaskError
    \/ AcceptLoopExit
    \/ TearDown
    \/ Crash
    \/ Restart

Spec == Init /\ [][Next]_vars

\* The event loop runs what is ready: no coroutine is starved, and teardown
\* runs to its end.  Nothing is assumed of clients, signals or failures.
Fairness ==
    /\ WF_vars(HandlerAdd)
    /\ WF_vars(FlushStep)
    /\ WF_vars(TaskError)
    /\ WF_vars(AcceptLoopExit)
    /\ WF_vars(TearDown)

FairSpec == Spec /\ Fairness

-----------------------------------------------------------------------------
(* Properties *)

FlushPCs == {"poll", "insert", "rows", "autocommit", "notify", "stopped",
             "crashed"}

\* The values the variables of the write path range over.
TypeOK ==
    /\ queue \in Seq(Nat) /\ is_full \in BOOLEAN
    /\ logs \in Seq(Nat) /\ txn \in Seq(Nat) /\ stored \in Seq(Nat)
    /\ evicted \subseteq Nat /\ rejected \subseteq Nat /\ lost \subseteq Nat
    /\ accepted \in Nat /\ body \in Nat /\ ticks \in Nat
    /\ max_id \in Nat /\ last_id \in Nat /\ restarts \in Nat /\ at_stop \in Nat
    /\ phase \in {"running", "stopping", "halted", "closed"}
    /\ flush_pc \in FlushPCs
    /\ clean \in BOOLEAN

Increasing(s) == \A i, j \in 1..Len(s) : i < j => s[i] < s[j]

Before(s, t) == \A i \in 1..Len(s) : \A j \in 1..Len(t) : s[i] < t[j]

\* Entries reach the table in the order in which the backlog received them,
\* each at most once, through every flush, failed insert, crash and restart:
\* the table, the open transaction, the batch and the queue, read in this
\* order, are strictly increasing.
InOrder ==
    /\ Increasing(stored) /\ Increasing(txn)
    /\ Increasing(logs) /\ Increasing(queue)
    /\ Before(stored, txn) /\ Before(stored, logs) /\ Before(stored, queue)
    /\ Before(txn, logs) /\ Before(txn, queue) /\ Before(logs, queue)

InMemory == Elems(queue) \cup Elems(logs) \cup Elems(txn)

Gone == evicted \cup rejected \cup lost

\* Every entry received is accounted for: it is in memory, in the table, or
\* was dropped for one of the recorded reasons, and nothing else is anywhere.
Accounted == 1..accepted = InMemory \cup Elems(stored) \cup Gone

\* An entry that is gone is not also kept, and is gone for one reason only:
\* a drop counted in ingest_drop_count is never also inserted.
GoneForGood ==
    /\ Gone \cap (InMemory \cup Elems(stored)) = {}
    /\ evicted \cap rejected = {}
    /\ evicted \cap lost = {}
    /\ rejected \cap lost = {}

\* The backlog is bounded whatever the flush task does, and drops the oldest
\* first: an entry is evicted only once MaxSize newer ones have been received
\* (backlog.hpp: "drop-oldest policy").
DropOldest ==
    /\ Len(queue) <= MaxSize
    /\ \A e \in evicted : e + MaxSize <= accepted

\* The flag the flush task polls without the mutex is exact: it is up if and
\* only if the queue is at the high watermark, so no full queue waits for the
\* whole interval and no interval is cut short for nothing.
WatermarkExact == is_full <=> AtWatermark(queue)

\* LogNotifier never announces an id that is not committed, and when the flush
\* task goes back to waiting every committed row has been announced.
Announced ==
    /\ last_id <= Len(stored)
    /\ flush_pc = "poll" => last_id = Len(stored)

\* Shutting down on SIGINT or SIGTERM, with no insert failure and no crash,
\* loses no entry received before the signal (docs/index.rst:174 says the
\* signals "shut down cleanly", and :185-186 that an accepted body is
\* "bulk-inserted in the background").
CleanShutdownKeepsAll == (phase = "closed" /\ clean) => lost \cap (1..at_stop) = {}

\* Every entry received is eventually settled: committed, or dropped for a
\* recorded reason; none stays in memory forever.
Settles ==
    \A e \in 1..MaxAccepted : (e <= accepted) ~> (e \notin InMemory)

\* The abstract store this write path implements.
Abstract == INSTANCE OrderedStore WITH waiting <- InMemory, gone <- Gone

\* The write path implements OrderedStore: entries are admitted, dropped, and
\* stored in admission order, and nothing stored is ever reordered or undone.
ImplementsOrderedStore == Abstract!Spec

=============================================================================
