------------------------------- MODULE Lifecycle ------------------------------
(***************************************************************************)
(* RunServer from start to exit: the main thread, the server's one-thread  *)
(* pool with the accept loop, the connections and the background tasks,    *)
(* the reader threads with their pool of connections to the database, the  *)
(* write strand, and threads of an embedding program that call             *)
(* PushToBacklog and StopServer.                                           *)
(*                                                                         *)
(* A handler of a pool is one step.  A handler posted to a pool that has   *)
(* been stopped is not run any more; the coroutine it would resume is      *)
(* destroyed with the pool.  What requests and tasks do with the database  *)
(* is in the other modules.                                                *)
(***************************************************************************)
EXTENDS Naturals, Sequences, FiniteSets, SequencesExt

CONSTANTS
    Clients,        \* peers, one connection each at a time
    Readers,        \* threads of db_read_pool
    Connections,    \* connections of ReadDatabasePool
    Tasks,          \* flush, vacuum and diagnostics task
    Callers,        \* threads that call PushToBacklog or StopServer
    MaxAccepts      \* bound: connections accepted

\* Both sizes are resolve_pool_size() (api.cpp:59, 67).
ASSUME LifecycleAssumption ==
    /\ IsFiniteSet(Readers) /\ IsFiniteSet(Connections) /\ MaxAccepts \in Nat
    /\ Cardinality(Readers) = Cardinality(Connections)

VARIABLES
    main,           \* where RunServer is
    stopping,       \* ServerContext::stopping
    acceptor,       \* is acceptor_ open?
    server_stopped, \* pool_.stop() was called: AcceptLoop has ended
    pools_stopped,  \* db_write_pool.stop(), db_read_pool.stop()
    g_backlog, g_server,    \* do the global pointers point anywhere?
    alive,          \* which of backlog and server exist
    conn,           \* per client: what its coroutine waits for
    jobs,           \* per client: database uses the request still needs
    lease,          \* per reader thread: [client, db], or None
    available, closed,      \* ReadDatabasePool
    open,           \* connections of ReadDatabasePool that are open
    writer_open,
    task,           \* per task: what its coroutine waits for
    caller,         \* per caller: the function that has tested its pointer
    gauge,          \* kHttpConnection
    accepts
poolVars == <<lease, available, closed, open>>
globalVars == <<g_backlog, g_server, alive>>
stopVars == <<stopping, acceptor, server_stopped, pools_stopped>>
connVars == <<conn, jobs, gauge, accepts>>
vars == <<main, stopVars, globalVars, connVars, poolVars, writer_open, task,
          caller>>

None == [client |-> "none"]
NoDb == "no_db"

\* What stands for the lack of a connection is not one.
ASSUME NoDbAssumption == NoDb \notin Connections

Init ==
    /\ main = "boot" /\ stopping = FALSE /\ acceptor = FALSE
    /\ server_stopped = FALSE /\ pools_stopped = FALSE
    /\ g_backlog = FALSE /\ g_server = FALSE /\ alive = {}
    /\ conn = [c \in Clients |-> "none"] /\ jobs = [c \in Clients |-> 0]
    /\ lease = [r \in Readers |-> None]
    /\ available = <<>> /\ closed = FALSE /\ open = {} /\ writer_open = FALSE
    /\ task = [t \in Tasks |-> "none"]
    /\ caller = [q \in Callers |-> "idle"]
    /\ gauge = 0 /\ accepts = 0

-----------------------------------------------------------------------------
(* RunServer, up to the accept loop *)

\* The databases are opened, the readers are queued, the backlog exists and
\* g_backlog is set.
Boot ==
    /\ main = "boot" /\ main' = "harvest"
    /\ writer_open' = TRUE /\ open' = Connections
    /\ available' = SetToSeq(Connections)
    /\ alive' = {"backlog"} /\ g_backlog' = TRUE
    /\ UNCHANGED <<stopVars, g_server, connVars, lease, closed, task, caller>>

\* The harvesters run, the server is constructed and g_server is set: a
\* StopServer before this finds the null pointer and does nothing.
CreateServer ==
    /\ main = "harvest" /\ main' = "set_up"
    /\ alive' = alive \cup {"server"} /\ g_server' = TRUE
    /\ UNCHANGED <<stopVars, g_backlog, connVars, poolVars, writer_open, task,
                   caller>>

\* Run: the acceptor listens, the tasks and AcceptLoop are spawned.
Run ==
    /\ main = "set_up" /\ main' = "run"
    /\ acceptor' = TRUE /\ task' = [t \in Tasks |-> "wait"]
    /\ UNCHANGED <<stopping, server_stopped, pools_stopped, globalVars,
                   connVars, poolVars, writer_open, caller>>

\* open, bind or listen throws (also when StopServer closes the acceptor in
\* between): the locals are destroyed, the teardown is not reached.
RunFails ==
    /\ main = "set_up" /\ main' = "failed"
    /\ alive' = {} /\ writer_open' = FALSE /\ closed' = TRUE
    /\ open' = {} /\ available' = <<>>
    /\ UNCHANGED <<stopVars, g_backlog, g_server, connVars, lease, task,
                   caller>>

-----------------------------------------------------------------------------
(* The server thread *)

ServerRuns == main = "run" /\ ~server_stopped

\* Server::Stop
Stop == stopping' = TRUE /\ acceptor' = FALSE

Signal ==
    /\ ServerRuns /\ Stop
    /\ UNCHANGED <<main, server_stopped, pools_stopped, globalVars, connVars,
                   poolVars, writer_open, task, caller>>

\* AcceptLoop returns when the acceptor is closed, or after an error of accept;
\* its completion handler stops the pool.
AcceptLoopEnds(error) ==
    /\ ServerRuns /\ (~acceptor \/ error)
    /\ server_stopped' = TRUE
    /\ UNCHANGED <<main, stopping, acceptor, pools_stopped, globalVars,
                   connVars, poolVars, writer_open, task, caller>>

Accept(c) ==
    /\ ServerRuns /\ acceptor /\ conn[c] = "none" /\ accepts < MaxAccepts
    /\ conn' = [conn EXCEPT ![c] = "read"]
    /\ gauge' = gauge + 1 /\ accepts' = accepts + 1
    /\ UNCHANGED <<main, stopVars, globalVars, jobs, poolVars, writer_open,
                   task, caller>>

\* Uses of a reader connection: GET /logs and /health one, /stats two; OPTIONS,
\* POST /logs, /version, /settings, /schema and unknown paths none.
Uses == [plain |-> 0, query |-> 1, stats |-> 2]

\* A request is read and dispatched; the first use is posted.
Request(c, kind) ==
    /\ ServerRuns /\ conn[c] = "read"
    /\ conn' = [conn EXCEPT ![c] = IF Uses[kind] = 0 THEN "write" ELSE "queued"]
    /\ jobs' = [jobs EXCEPT ![c] = Uses[kind]]
    /\ UNCHANGED <<main, stopVars, globalVars, gauge, accepts, poolVars,
                   writer_open, task, caller>>

\* GET /logs/sse: from now on one query after the other.
RequestSse(c) ==
    /\ ServerRuns /\ conn[c] \in {"read", "sse"}
    /\ conn' = [conn EXCEPT ![c] = IF conn[c] = "read" THEN "sse" ELSE "queued"]
    /\ jobs' = [jobs EXCEPT ![c] = 0]
    /\ UNCHANGED <<main, stopVars, globalVars, gauge, accepts, poolVars,
                   writer_open, task, caller>>

\* The result of a use is back on the server thread: the session goes on, the
\* response is written after the last use or after one that has thrown, or the
\* next use is posted.
Resume(c) ==
    /\ ServerRuns /\ conn[c] = "resume"
    /\ \/ /\ jobs[c] = 0
          /\ conn' = [conn EXCEPT ![c] = "sse"] /\ UNCHANGED jobs
       \/ /\ jobs[c] > 0
          /\ conn' = [conn EXCEPT ![c] = "write"]
          /\ jobs' = [jobs EXCEPT ![c] = 0]
       \/ /\ jobs[c] > 1
          /\ conn' = [conn EXCEPT ![c] = "queued"]
          /\ jobs' = [jobs EXCEPT ![c] = @ - 1]
    /\ UNCHANGED <<main, stopVars, globalVars, gauge, accepts, poolVars,
                   writer_open, task, caller>>

\* The response is written and the connection kept.
WriteResponse(c) ==
    /\ ServerRuns /\ conn[c] = "write"
    /\ conn' = [conn EXCEPT ![c] = "read"]
    /\ UNCHANGED <<main, stopVars, globalVars, jobs, gauge, accepts, poolVars,
                   writer_open, task, caller>>

\* Mutated form of ConnectionEnds: a connection that ends is still counted.
ConnectionEndsCounted(c) ==
    /\ ServerRuns /\ conn[c] \in {"read", "write", "sse"}
    /\ conn' = [conn EXCEPT ![c] = "none"]
    /\ UNCHANGED <<main, stopVars, globalVars, jobs, gauge, accepts, poolVars,
                   writer_open, task, caller>>

\* A read or write fails, the idle timeout passes, or the peer wants no
\* keep-alive: HandleConnection returns.
ConnectionEnds(c) ==
    /\ ServerRuns /\ conn[c] \in {"read", "write", "sse"}
    /\ conn' = [conn EXCEPT ![c] = "none"] /\ gauge' = gauge - 1
    /\ UNCHANGED <<main, stopVars, globalVars, jobs, accepts, poolVars,
                   writer_open, task, caller>>

-----------------------------------------------------------------------------
(* Background tasks *)

\* Mutated form of TaskWakes: on_task_error is called for errors only.
TaskWakesQuietly(t) ==
    /\ ServerRuns /\ task[t] = "wait"
    /\ task' = [task EXCEPT ![t] = IF stopping THEN "none" ELSE "queued"]
    /\ UNCHANGED <<main, stopVars, globalVars, connVars, poolVars, writer_open,
                   caller>>

\* The timer expires or is cancelled: the task ends when a stop is requested,
\* which is completed by on_task_error too, or posts a job.
TaskWakes(t) ==
    /\ ServerRuns /\ task[t] = "wait"
    /\ \/ /\ stopping /\ task' = [task EXCEPT ![t] = "none"] /\ Stop
       \/ /\ ~stopping /\ task' = [task EXCEPT ![t] = "queued"]
          /\ UNCHANGED <<stopping, acceptor>>
    /\ UNCHANGED <<main, server_stopped, pools_stopped, globalVars, connVars,
                   poolVars, writer_open, caller>>

\* The write strand runs one job at a time.
TaskJobStarts(t) ==
    /\ ~pools_stopped /\ task[t] = "queued"
    /\ \A u \in Tasks : task[u] # "running"
    /\ task' = [task EXCEPT ![t] = "running"]
    /\ UNCHANGED <<main, stopVars, globalVars, connVars, poolVars, writer_open,
                   caller>>

TaskJobEnds(t) ==
    /\ task[t] = "running"
    /\ task' = [task EXCEPT ![t] = "resume"]
    /\ UNCHANGED <<main, stopVars, globalVars, connVars, poolVars, writer_open,
                   caller>>

\* Back on the server thread: wait again, or an exception ends the task.
TaskResumes(t) ==
    /\ ServerRuns /\ task[t] = "resume"
    /\ \/ /\ task' = [task EXCEPT ![t] = "wait"]
          /\ UNCHANGED <<stopping, acceptor>>
       \/ /\ task' = [task EXCEPT ![t] = "none"] /\ Stop
    /\ UNCHANGED <<main, server_stopped, pools_stopped, globalVars, connVars,
                   poolVars, writer_open, caller>>

-----------------------------------------------------------------------------
(* ReadDatabasePool *)

\* UseConnection starts on a reader thread.
UseConnection(r, c) ==
    /\ ~pools_stopped /\ lease[r] = None /\ conn[c] = "queued"
    /\ lease' = [lease EXCEPT ![r] = [client |-> c, db |-> NoDb]]
    /\ conn' = [conn EXCEPT ![c] = "busy"]
    /\ UNCHANGED <<main, stopVars, globalVars, jobs, gauge, accepts,
                   available, closed, open, writer_open, task, caller>>

Waiting(r) == lease[r] # None /\ lease[r].db = NoDb
Using(r) == lease[r] # None /\ lease[r].db # NoDb

\* Mutated form of acquire: the connection stays in the queue.
acquirePeeks(r) ==
    /\ Waiting(r) /\ available # <<>>
    /\ lease' = [lease EXCEPT ![r].db = Head(available)]
    /\ UNCHANGED <<main, stopVars, globalVars, connVars, available, closed,
                   open, writer_open, task, caller>>

\* A connection from the front of the queue; a closed pool throws, which would
\* end the use without a lease.
acquire(r) ==
    /\ Waiting(r) /\ (closed \/ available # <<>>)
    /\ lease' = [lease EXCEPT ![r] =
            IF closed THEN None ELSE [@ EXCEPT !.db = Head(available)]]
    /\ conn' = [conn EXCEPT ![lease[r].client] = IF closed THEN "resume" ELSE @]
    /\ available' = IF closed THEN available ELSE Tail(available)
    /\ UNCHANGED <<main, stopVars, globalVars, jobs, gauge, accepts, closed,
                   open, writer_open, task, caller>>

\* Mutated form of release: a failed query keeps its connection.
releaseNot(r) ==
    /\ Using(r)
    /\ \/ available' = Append(available, lease[r].db)
       \/ UNCHANGED available
    /\ conn' = [conn EXCEPT ![lease[r].client] = "resume"]
    /\ lease' = [lease EXCEPT ![r] = None]
    /\ UNCHANGED <<main, stopVars, globalVars, jobs, gauge, accepts,
                   closed, open, writer_open, task, caller>>

\* The query has returned or thrown; the lease's destructor gives the
\* connection back.
release(r) ==
    /\ Using(r)
    /\ available' = IF closed THEN available ELSE Append(available, lease[r].db)
    /\ conn' = [conn EXCEPT ![lease[r].client] = "resume"]
    /\ lease' = [lease EXCEPT ![r] = None]
    /\ UNCHANGED <<main, stopVars, globalVars, jobs, gauge, accepts,
                   closed, open, writer_open, task, caller>>

-----------------------------------------------------------------------------
(* RunServer, after Run *)

\* pool_.join() returns: RequestStop, and the pointers are cleared.
ClearGlobals ==
    /\ main = "run" /\ server_stopped /\ main' = "cleared"
    /\ stopping' = TRUE /\ g_server' = FALSE /\ g_backlog' = FALSE
    /\ UNCHANGED <<acceptor, server_stopped, pools_stopped, alive, connVars,
                   poolVars, writer_open, task, caller>>

\* The harvesters are stopped and joined, then the pools are stopped.
StopPools ==
    /\ main = "cleared" /\ main' = "join" /\ pools_stopped' = TRUE
    /\ UNCHANGED <<stopping, acceptor, server_stopped, globalVars, connVars,
                   poolVars, writer_open, task, caller>>

\* Mutated form of CloseDatabases: without join.
CloseDatabasesEarly ==
    /\ main = "join" /\ main' = "closed"
    /\ closed' = TRUE /\ available' = <<>> /\ open' = {}
    /\ writer_open' = FALSE
    /\ UNCHANGED <<stopVars, globalVars, connVars, lease, task, caller>>

\* Both pools are joined; db_read.Close() and db_write.Close().
CloseDatabases ==
    /\ main = "join" /\ main' = "closed"
    /\ \A r \in Readers : lease[r] = None
    /\ \A t \in Tasks : task[t] # "running"
    /\ closed' = TRUE /\ available' = <<>> /\ open' = {}
    /\ writer_open' = FALSE
    /\ UNCHANGED <<stopVars, globalVars, connVars, lease, task, caller>>

Suspended == {c \in Clients : conn[c] # "none"}

\* The locals are destroyed, and with the pools the suspended coroutines; each
\* of them drops its GaugeGuard.
Exit ==
    /\ main = "closed" /\ main' = "exited"
    /\ alive' = {}
    /\ gauge' = gauge - Cardinality(Suspended)
    /\ conn' = [c \in Clients |-> "none"]
    /\ task' = [t \in Tasks |-> "none"]
    /\ UNCHANGED <<stopVars, g_backlog, g_server, jobs, accepts, poolVars,
                   writer_open, caller>>

-----------------------------------------------------------------------------
(* Other threads of the process *)

\* PushToBacklog and StopServer test the pointer, and go through it later.
Test(q, function) ==
    /\ caller[q] = "idle"
    /\ \/ function = "push" /\ g_backlog
       \/ function = "stop" /\ g_server
    /\ caller' = [caller EXCEPT ![q] = function]
    /\ UNCHANGED <<main, stopVars, globalVars, connVars, poolVars, writer_open,
                   task>>

PushToBacklog(q) ==
    /\ caller[q] = "push" /\ caller' = [caller EXCEPT ![q] = "idle"]
    /\ UNCHANGED <<main, stopVars, globalVars, connVars, poolVars, writer_open,
                   task>>

\* RequestStop on a thread that is not the server's: the flag, and the timers
\* that the tasks have registered so far; a timer it misses expires by itself.
StopServer(q) ==
    /\ caller[q] = "stop" /\ caller' = [caller EXCEPT ![q] = "close"]
    /\ stopping' = (stopping \/ "server" \in alive)
    /\ UNCHANGED <<main, acceptor, server_stopped, pools_stopped, globalVars,
                   connVars, poolVars, writer_open, task>>

\* acceptor_.close(): before Run has opened the acceptor there is nothing to
\* close.  The server thread, and the teardown, may have gone on meanwhile.
CloseAcceptor(q) ==
    /\ caller[q] = "close" /\ caller' = [caller EXCEPT ![q] = "idle"]
    /\ acceptor' = (acceptor /\ "server" \notin alive)
    /\ UNCHANGED <<main, stopping, server_stopped, pools_stopped, globalVars,
                   connVars, poolVars, writer_open, task>>

-----------------------------------------------------------------------------

Main == \/ Boot \/ CreateServer \/ Run \/ RunFails \/ ClearGlobals \/ StopPools
        \/ CloseDatabases \/ Exit
Reader(r) ==
    \/ \E c \in Clients : UseConnection(r, c)
    \/ acquire(r) \/ release(r)
Task(t) == TaskWakes(t) \/ TaskJobStarts(t) \/ TaskJobEnds(t) \/ TaskResumes(t)

Next ==
    \/ Main \/ Signal \/ \E error \in BOOLEAN : AcceptLoopEnds(error)
    \/ \E c \in Clients :
        \/ Accept(c) \/ \E kind \in DOMAIN Uses : Request(c, kind)
        \/ RequestSse(c) \/ Resume(c) \/ WriteResponse(c) \/ ConnectionEnds(c)
    \/ \E t \in Tasks : Task(t)
    \/ \E r \in Readers : Reader(r)
    \/ \E q \in Callers :
        \/ \E function \in {"push", "stop"} : Test(q, function)
        \/ PushToBacklog(q) \/ StopServer(q) \/ CloseAcceptor(q)

Spec == Init /\ [][Next]_vars

\* Threads run, handlers that are ready are run, and timers expire.
Fairness ==
    /\ WF_vars(Main) /\ WF_vars(AcceptLoopEnds(FALSE))
    /\ \A t \in Tasks : WF_vars(Task(t))
    /\ \A r \in Readers : WF_vars(acquire(r) \/ release(r))

FairSpec == Spec /\ Fairness

-----------------------------------------------------------------------------
(* Properties *)

\* Types of the server's state; the gauge of open HTTP connections is exact,
\* whichever way a connection ends.
TypeOK ==
    /\ main \in {"boot", "harvest", "set_up", "run", "cleared", "join", "closed", "exited",
                 "failed"}
    /\ conn \in [Clients -> {"none", "read", "write", "sse", "queued", "busy",
                             "resume"}]
    /\ task \in [Tasks -> {"none", "wait", "queued", "running", "resume"}]
    /\ caller \in [Callers -> {"idle", "push", "stop", "close"}]
    /\ jobs \in [Clients -> 0..2] /\ open \subseteq Connections
    /\ available \in Seq(Connections)
    /\ gauge = Cardinality(Suspended)

\* Nothing uses a database connection that has been closed, although requests
\* and tasks are suspended at any point when the server stops (api.cpp:102-108);
\* and the global pointers are null before what they point to is destroyed,
\* unless Run threw (api.cpp:24: "set during RunServer").
NoUseAfterClose ==
    /\ \A r \in Readers : Using(r) => lease[r].db \in open
    /\ \A t \in Tasks : task[t] = "running" => writer_open
    /\ g_backlog => "backlog" \in alive \/ main = "failed"
    /\ g_server => "server" \in alive \/ main = "failed"

\* A connection is opened without a mutex of its own (SQLITE_OPEN_NOMUTEX): it
\* is leased to one thread at a time and free or leased, never both.
ExclusiveLease ==
    /\ \A r, s \in Readers : (Using(r) /\ Using(s) /\ lease[r].db = lease[s].db)
                                => r = s
    /\ \A r \in Readers : Using(r) => lease[r].db \notin Range(available)
    /\ Cardinality(Range(available)) = Len(available)

\* acquire never waits: there are as many connections as reader threads, and
\* every use gives its connection back, also when the query throws.
NeverWaits == \A r \in Readers : Waiting(r) => closed \/ available # <<>>

\* A stop that is requested at any time, before the acceptor is open too, ends
\* the server, with requests and jobs under way (docs/index.rst:174); also when
\* the thread that calls StopServer gets no further than the flag.
StopEnds == stopping ~> (main \in {"exited", "failed"})

=============================================================================
