---------------------------- MODULE LifecycleProofs ----------------------------
(***************************************************************************)
(* Proofs about RunServer, for every number of clients, tasks and callers  *)
(* and every size of the reader pool.  One inductive invariant carries the *)
(* four safety properties: where RunServer is decides what is open, and    *)
(* every connection of the pool is in the queue or held by one thread.     *)
(***************************************************************************)
EXTENDS Lifecycle, FunctionTheorems, FiniteSetTheorems, SequenceTheorems, TLAPS

-----------------------------------------------------------------------------
(* Queues without repetitions *)

\* The range of a sequence of connections.
LEMMA RangeSeq ==
    ASSUME NEW S, NEW q \in Seq(S)
    PROVE  /\ Range(q) = {q[i] : i \in 1..Len(q)}
           /\ Range(q) \subseteq S
           /\ IsInjective(q) <=> \A i, j \in 1..Len(q) : q[i] = q[j] => i = j
  <1>1. DOMAIN q = 1..Len(q) /\ \A i \in 1..Len(q) : q[i] \in S
    BY LenProperties
  <1>2. QED
    BY <1>1 DEF Range, IsInjective

\* Nothing is in an empty queue.
LEMMA EmptyQueue ==
    /\ IsInjective(<<>>)
    /\ Range(<<>>) = {}
  BY DEF IsInjective, Range

\* Taking the front off: acquire.
LEMMA PopQueue ==
    ASSUME NEW S, NEW q \in Seq(S), q # <<>>, IsInjective(q)
    PROVE  /\ Head(q) \in S /\ Tail(q) \in Seq(S)
           /\ IsInjective(Tail(q))
           /\ Range(q) = {Head(q)} \cup Range(Tail(q))
           /\ Head(q) \notin Range(Tail(q))
  <1>1. /\ Head(q) \in S /\ Tail(q) \in Seq(S)
        /\ Len(Tail(q)) = Len(q) - 1
        /\ \A i \in 1..Len(Tail(q)) : Tail(q)[i] = q[i + 1]
    BY HeadTailProperties
  <1>2. Len(q) \in Nat \ {0}
    BY EmptySeq
  <1>3. Head(q) = q[1]
    OBVIOUS
  <1>4. \A i, j \in 1..Len(q) : q[i] = q[j] => i = j
    BY RangeSeq
  <1>5. IsInjective(Tail(q))
    <2>1. ASSUME NEW i \in 1..Len(Tail(q)), NEW j \in 1..Len(Tail(q)),
                 Tail(q)[i] = Tail(q)[j]
          PROVE  i = j
      <3>1. i + 1 \in 1..Len(q) /\ j + 1 \in 1..Len(q) /\ q[i + 1] = q[j + 1]
        BY <1>1, <1>2, <2>1
      <3>2. i + 1 = j + 1
        BY <1>4, <3>1
      <3>3. QED
        BY <3>2, <1>1, <1>2
    <2>2. QED
      BY <2>1, <1>1, RangeSeq
  <1>6. Range(q) = {q[i] : i \in 1..Len(q)}
    BY RangeSeq
  <1>7. Range(Tail(q)) = {Tail(q)[i] : i \in 1..Len(Tail(q))}
    BY <1>1, RangeSeq
  <1>8. Head(q) \notin Range(Tail(q))
    <2>1. SUFFICES ASSUME NEW i \in 1..Len(Tail(q)), Tail(q)[i] = Head(q)
                   PROVE  FALSE
      BY <1>7
    <2>2. i + 1 \in 1..Len(q) /\ 1 \in 1..Len(q) /\ q[i + 1] = q[1]
      BY <1>1, <1>2, <1>3, <2>1
    <2>3. i + 1 = 1
      BY <2>2, <1>4
    <2>4. QED
      BY <2>3
  <1>9. Range(q) \subseteq {Head(q)} \cup Range(Tail(q))
    <2>1. SUFFICES ASSUME NEW i \in 1..Len(q)
                   PROVE  q[i] \in {Head(q)} \cup Range(Tail(q))
      BY <1>6
    <2>2. CASE i = 1
      BY <2>2, <1>3
    <2>3. CASE i # 1
      <3>1. i - 1 \in 1..Len(Tail(q)) /\ Tail(q)[i - 1] = q[i]
        BY <2>3, <1>1, <1>2
      <3>2. QED
        BY <3>1, <1>7
    <2>4. QED
      BY <2>2, <2>3
  <1>10. {Head(q)} \cup Range(Tail(q)) \subseteq Range(q)
    <2>1. Head(q) \in Range(q)
      BY <1>2, <1>3, <1>6
    <2>2. ASSUME NEW i \in 1..Len(Tail(q)) PROVE Tail(q)[i] \in Range(q)
      <3>1. i + 1 \in 1..Len(q) /\ Tail(q)[i] = q[i + 1]
        BY <1>1, <1>2
      <3>2. QED
        BY <3>1, <1>6
    <2>3. QED
      BY <2>1, <2>2, <1>7
  <1>11. QED
    BY <1>1, <1>5, <1>8, <1>9, <1>10

\* Putting one back at the end: release.
LEMMA PushQueue ==
    ASSUME NEW S, NEW q \in Seq(S), NEW d \in S, IsInjective(q), d \notin Range(q)
    PROVE  /\ Append(q, d) \in Seq(S)
           /\ IsInjective(Append(q, d))
           /\ Range(Append(q, d)) = Range(q) \cup {d}
  <1>0. PICK p : p = Append(q, d)
    OBVIOUS
  <1>1. /\ p \in Seq(S) /\ Len(p) = Len(q) + 1 /\ Len(q) \in Nat
        /\ \A i \in 1..Len(q) : p[i] = q[i]
        /\ p[Len(q) + 1] = d
    BY <1>0
  <1>2. \A i, j \in 1..Len(q) : q[i] = q[j] => i = j
    BY RangeSeq
  <1>3. Range(q) = {q[i] : i \in 1..Len(q)} /\ Range(p) = {p[i] : i \in 1..Len(p)}
    BY <1>1, RangeSeq
  <1>4. \A i \in 1..Len(p) : i \in 1..Len(q) \/ i = Len(q) + 1
    BY <1>1
  <1>5. ASSUME NEW i \in 1..Len(p), NEW j \in 1..Len(p), p[i] = p[j]
        PROVE  i = j
    <2>1. CASE i \in 1..Len(q) /\ j \in 1..Len(q)
      BY <2>1, <1>1, <1>2, <1>5
    <2>2. CASE i \in 1..Len(q) /\ j = Len(q) + 1
      BY <2>2, <1>1, <1>3, <1>5
    <2>3. CASE i = Len(q) + 1 /\ j \in 1..Len(q)
      BY <2>3, <1>1, <1>3, <1>5
    <2>4. QED
      BY <2>1, <2>2, <2>3, <1>4
  <1>6. IsInjective(p)
    BY <1>1, <1>5, RangeSeq
  <1>7. Range(p) \subseteq Range(q) \cup {d}
    BY <1>1, <1>3, <1>4
  <1>8. Range(q) \cup {d} \subseteq Range(p)
    <2>1. Len(q) + 1 \in 1..Len(p)
      BY <1>1
    <2>2. \A i \in 1..Len(q) : i \in 1..Len(p)
      BY <1>1
    <2>3. QED
      BY <1>1, <1>3, <2>1, <2>2
  <1>9. QED
    BY <1>0, <1>1, <1>6, <1>7, <1>8

\* A queue without repetitions is as long as it has elements.
LEMMA QueueCardinality ==
    ASSUME NEW S, NEW q \in Seq(S), IsInjective(q)
    PROVE  Cardinality(Range(q)) = Len(q)
  <1>1. Len(q) \in Nat /\ q \in [1..Len(q) -> S]
    BY LenProperties
  <1>2. /\ Range(q) = {q[i] : i \in 1..Len(q)}
        /\ \A i, j \in 1..Len(q) : q[i] = q[j] => i = j
    BY RangeSeq
  <1>3. /\ q \in [1..Len(q) -> Range(q)]
        /\ \A y \in Range(q) : \E i \in 1..Len(q) : q[i] = y
    BY <1>1, <1>2
  <1>4. q \in Bijection(1..Len(q), Range(q))
    BY <1>2, <1>3, Fun_IsBij
  <1>5. ExistsBijection(1..Len(q), Range(q))
    BY <1>4 DEF ExistsBijection
  <1>6. QED
    BY <1>1, <1>5, FS_CountingElements

\* The constructor of ReadDatabasePool queues every connection once.
LEMMA QueueOfAll ==
    /\ SetToSeq(Connections) \in Seq(Connections)
    /\ IsInjective(SetToSeq(Connections))
    /\ Range(SetToSeq(Connections)) = Connections
  <1> DEFINE n == Cardinality(Connections)
             q == SetToSeq(Connections)
  <1>1. n \in Nat /\ ExistsBijection(1..n, Connections)
    BY LifecycleAssumption, FS_CardinalityType
  <1>2. PICK f \in Bijection(1..n, Connections) : TRUE
    BY <1>1 DEF ExistsBijection
  <1>3. f \in [1..n -> Connections] /\ IsInjective(f)
    <2>1. f \in [1..n -> Connections] /\ \A a, b \in 1..n : f[a] = f[b] => a = b
      BY <1>2, Fun_BijectionProperties
    <2>2. QED
      BY <2>1 DEF IsInjective
  <1>4. q \in [1..n -> Connections] /\ IsInjective(q)
    BY <1>3 DEF SetToSeq
  <1>5. q \in Seq(Connections)
    <2> HIDE DEF q, n
    <2>1. QED
      BY <1>1, <1>4 DEF Seq
  <1>6. q \in Injection(1..n, Connections)
    BY <1>4 DEF Injection
  <1>7. IsFiniteSet(1..n) /\ Cardinality(1..n) = n
    <2> HIDE DEF n
    <2>1. /\ IsFiniteSet(1..n)
          /\ Cardinality(1..n) = IF 1 > n THEN 0 ELSE n - 1 + 1
      BY <1>1, FS_Interval
    <2>2. QED
      BY <1>1, <2>1
  <1>8. q \in Surjection(1..n, Connections)
    <2> HIDE DEF q
    <2>1. QED
      BY <1>6, <1>7, FS_Injection, LifecycleAssumption
  <1>9. Range(q) = Connections
    <2> HIDE DEF q, n
    <2>1. QED
      BY <1>8, Fun_SurjectionProperties
  <1>10. QED
    BY <1>4, <1>5, <1>9

-----------------------------------------------------------------------------
(* The inductive invariant *)

\* What a reader thread may hold.
Lease == [client : Clients, db : Connections \cup {NoDb}]

\* Types of what TypeOK leaves out; the gauge counts a finite set.
TypeInv ==
    /\ TypeOK
    /\ lease \in [Readers -> Lease \cup {None}]
    /\ IsFiniteSet(Suspended)
    /\ closed \in BOOLEAN /\ writer_open \in BOOLEAN
    /\ pools_stopped \in BOOLEAN

\* Where RunServer is determines what is open, alive and reachable.
PhaseInv ==
    /\ closed <=> main \in {"closed", "exited", "failed"}
    /\ main \in {"harvest", "set_up", "run", "cleared", "join"} =>
          open = Connections /\ writer_open /\ "backlog" \in alive
    /\ main \in {"set_up", "run", "cleared", "join", "closed"} =>
          {"backlog", "server"} \subseteq alive
    /\ g_backlog => main \in {"harvest", "set_up", "run", "failed"}
    /\ g_server => main \in {"set_up", "run", "failed"}
    /\ main \in {"join", "closed", "exited"} => pools_stopped

\* Before the accept loop, and after the teardown, nothing is under way.
QuietInv ==
    /\ main \in {"boot", "harvest", "set_up", "failed"} =>
          /\ \A c \in Clients : conn[c] = "none"
          /\ \A t \in Tasks : task[t] = "none"
    /\ main \in {"boot", "harvest", "set_up", "failed", "closed", "exited"} =>
          /\ \A r \in Readers : lease[r] = None
          /\ \A t \in Tasks : task[t] # "running"

\* A lease belongs to a connection that waits for it, and to one thread only.
LeaseInv ==
    /\ \A r \in Readers : lease[r] # None => conn[lease[r].client] = "busy"
    /\ \A r, s \in Readers : (lease[r] # None /\ lease[s] # None
                                /\ lease[r].client = lease[s].client) => r = s

\* From Boot to Close every connection of the pool is in the queue once or held
\* by one thread, and by nobody twice.
PoolInv ==
    /\ IsInjective(available)
    /\ \A r \in Readers : Using(r) => lease[r].db \notin Range(available)
    /\ \A r, s \in Readers : (Using(r) /\ Using(s) /\ lease[r].db = lease[s].db)
                                => r = s
    /\ main \in {"harvest", "set_up", "run", "cleared", "join"} =>
          \A d \in Connections : \/ d \in Range(available)
                                 \/ \E r \in Readers : Using(r) /\ lease[r].db = d

Inv == TypeInv /\ PhaseInv /\ QuietInv /\ LeaseInv /\ PoolInv

\* A lease is a record with two fields; None, with one, is not a lease.
LEMMA LeaseRecords ==
    /\ \A l \in Lease : l # None
    /\ \A c \in Clients : [client |-> c, db |-> NoDb] \in Lease
  <1>1. \A l \in Lease : "db" \in DOMAIN l
    BY DEF Lease
  <1>2. "db" \notin DOMAIN None
    BY DEF None
  <1>3. \A l \in Lease : l # None
    BY <1>1, <1>2
  <1>4. \A c \in Clients : [client |-> c, db |-> NoDb] \in Lease
    BY DEF Lease
  <1>5. QED
    BY <1>3, <1>4

\* A lease that gets its connection keeps its client.
LEMMA LeaseTakes ==
    ASSUME NEW l \in Lease, NEW d \in Connections
    PROVE  /\ [l EXCEPT !.db = d] \in Lease
           /\ [l EXCEPT !.db = d].client = l.client
           /\ [l EXCEPT !.db = d].db = d
           /\ d # NoDb
  BY NoDbAssumption DEF Lease

\* How one change of one coroutine's state changes the set the gauge counts.
LEMMA SuspendedStep ==
    ASSUME TypeInv, NEW c \in Clients, NEW v, conn' = [conn EXCEPT ![c] = v]
    PROVE  /\ v = "none" => Suspended' = Suspended \ {c}
           /\ v # "none" => Suspended' = Suspended \cup {c}
  BY DEF TypeInv, TypeOK, Suspended

\* The first state.
LEMMA InvInit == Init => Inv
  <1>1. SUFFICES ASSUME Init PROVE Inv
    OBVIOUS
  <1>2. Suspended = {}
    BY <1>1 DEF Init, Suspended
  <1>3. IsFiniteSet(Suspended) /\ gauge = Cardinality(Suspended)
    BY <1>1, <1>2, FS_EmptySet DEF Init
  <1>4. available \in Seq(Connections) /\ IsInjective(available)
    BY <1>1, EmptyQueue, EmptySeq DEF Init
  <1>5. TypeInv
    <2>1. lease \in [Readers -> Lease \cup {None}]
      BY <1>1 DEF Init
    <2>2. jobs \in [Clients -> 0..2] /\ open \subseteq Connections
      BY <1>1 DEF Init
    <2>3. /\ conn \in [Clients -> {"none", "read", "write", "sse", "queued",
                                   "busy", "resume"}]
          /\ task \in [Tasks -> {"none", "wait", "queued", "running", "resume"}]
          /\ caller \in [Callers -> {"idle", "push", "stop", "close"}]
      BY <1>1 DEF Init
    <2>4. QED
      BY <1>1, <1>3, <1>4, <2>1, <2>2, <2>3 DEF Init, TypeInv, TypeOK
  <1>6. PhaseInv /\ QuietInv /\ LeaseInv
    BY <1>1 DEF Init, PhaseInv, QuietInv, LeaseInv
  <1>7. PoolInv
    BY <1>1, <1>4 DEF Init, PoolInv, Using
  <1>8. QED
    BY <1>5, <1>6, <1>7 DEF Inv

-----------------------------------------------------------------------------
(* RunServer *)

\* The databases are opened and g_backlog is set.
LEMMA InvBoot == ASSUME Inv, Boot PROVE Inv'
  <1>1. /\ main = "boot" /\ main' = "harvest" /\ writer_open' = TRUE
        /\ open' = Connections /\ available' = SetToSeq(Connections)
        /\ alive' = {"backlog"}
        /\ UNCHANGED <<stopVars, g_server, connVars, lease, closed, task, caller>>
    BY DEF Boot
  <1>2. TypeInv'
    BY <1>1, QueueOfAll
       DEF Inv, TypeInv, TypeOK, Suspended, connVars, stopVars
  <1>3. PhaseInv'
    BY <1>1 DEF Inv, PhaseInv
  <1>4. QuietInv' /\ LeaseInv'
    BY <1>1 DEF Inv, QuietInv, LeaseInv, connVars
  <1>5. \A r \in Readers : lease'[r] = None
    BY <1>1 DEF Inv, QuietInv
  <1>6. PoolInv'
    BY <1>1, <1>5, QueueOfAll DEF PoolInv, Using
  <1>7. QED
    BY <1>2, <1>3, <1>4, <1>6 DEF Inv

\* The server is constructed and g_server is set.
LEMMA InvCreateServer == ASSUME Inv, CreateServer PROVE Inv'
  <1>1. /\ main = "harvest" /\ main' = "set_up" /\ alive' = alive \cup {"server"}
        /\ UNCHANGED <<stopVars, g_backlog, connVars, poolVars, writer_open, task,
                       caller>>
    BY DEF CreateServer
  <1>2. TypeInv'
    BY <1>1 DEF Inv, TypeInv, TypeOK, Suspended, connVars, poolVars, stopVars
  <1>3. PhaseInv'
    BY <1>1 DEF Inv, PhaseInv, poolVars
  <1>4. QuietInv' /\ LeaseInv' /\ PoolInv'
    BY <1>1 DEF Inv, QuietInv, LeaseInv, PoolInv, Using, connVars, poolVars
  <1>5. QED
    BY <1>2, <1>3, <1>4 DEF Inv

\* The accept loop and the tasks begin.
LEMMA InvRun == ASSUME Inv, Run PROVE Inv'
  <1>1. /\ main = "set_up" /\ main' = "run" /\ task' = [t \in Tasks |-> "wait"]
        /\ UNCHANGED <<pools_stopped, globalVars, connVars, poolVars,
                       writer_open, caller>>
    BY DEF Run
  <1>2. TypeInv'
    BY <1>1 DEF Inv, TypeInv, TypeOK, Suspended, connVars, poolVars, globalVars
  <1>3. PhaseInv'
    BY <1>1 DEF Inv, PhaseInv, poolVars, globalVars
  <1>4. QuietInv' /\ LeaseInv' /\ PoolInv'
    BY <1>1 DEF Inv, QuietInv, LeaseInv, PoolInv, Using, connVars, poolVars
  <1>5. QED
    BY <1>2, <1>3, <1>4 DEF Inv

\* The bind throws: the server leaves without clearing its pointers.
LEMMA InvRunFails == ASSUME Inv, RunFails PROVE Inv'
  <1>1. /\ main = "set_up" /\ main' = "failed" /\ alive' = {}
        /\ writer_open' = FALSE /\ closed' = TRUE /\ open' = {}
        /\ available' = <<>>
        /\ UNCHANGED <<stopVars, g_backlog, g_server, connVars, lease, task,
                       caller>>
    BY DEF RunFails
  <1>2. available' \in Seq(Connections) /\ IsInjective(available')
    BY <1>1, EmptyQueue, EmptySeq
  <1>3. TypeInv'
    BY <1>1, <1>2 DEF Inv, TypeInv, TypeOK, Suspended, connVars, stopVars
  <1>4. PhaseInv'
    BY <1>1 DEF Inv, PhaseInv
  <1>5. QuietInv' /\ LeaseInv'
    BY <1>1 DEF Inv, QuietInv, LeaseInv, connVars
  <1>6. PoolInv'
    BY <1>1, <1>2 DEF Inv, QuietInv, PoolInv, Using
  <1>7. QED
    BY <1>3, <1>4, <1>5, <1>6 DEF Inv

\* Teardown takes the global pointers back.
LEMMA InvClearGlobals == ASSUME Inv, ClearGlobals PROVE Inv'
  <1>1. /\ main = "run" /\ main' = "cleared"
        /\ g_server' = FALSE /\ g_backlog' = FALSE
        /\ UNCHANGED <<pools_stopped, alive, connVars, poolVars, writer_open,
                       task, caller>>
    BY DEF ClearGlobals
  <1>2. TypeInv'
    BY <1>1 DEF Inv, TypeInv, TypeOK, Suspended, connVars, poolVars
  <1>3. PhaseInv'
    BY <1>1 DEF Inv, PhaseInv, poolVars
  <1>4. QuietInv' /\ LeaseInv' /\ PoolInv'
    BY <1>1 DEF Inv, QuietInv, LeaseInv, PoolInv, Using, connVars, poolVars
  <1>5. QED
    BY <1>2, <1>3, <1>4 DEF Inv

\* Teardown stops the database pools; their running jobs go on.
LEMMA InvStopPools == ASSUME Inv, StopPools PROVE Inv'
  <1>1. /\ main = "cleared" /\ main' = "join" /\ pools_stopped' = TRUE
        /\ UNCHANGED <<globalVars, connVars, poolVars, writer_open, task, caller>>
    BY DEF StopPools
  <1>2. TypeInv'
    BY <1>1 DEF Inv, TypeInv, TypeOK, Suspended, connVars, poolVars, globalVars
  <1>3. PhaseInv'
    BY <1>1 DEF Inv, PhaseInv, poolVars, globalVars
  <1>4. QuietInv' /\ LeaseInv' /\ PoolInv'
    BY <1>1 DEF Inv, QuietInv, LeaseInv, PoolInv, Using, connVars, poolVars
  <1>5. QED
    BY <1>2, <1>3, <1>4 DEF Inv

\* Teardown closes the connections, after the threads that used them.
LEMMA InvCloseDatabases == ASSUME Inv, CloseDatabases PROVE Inv'
  <1>1. /\ main = "join" /\ main' = "closed"
        /\ \A r \in Readers : lease[r] = None
        /\ \A t \in Tasks : task[t] # "running"
        /\ closed' = TRUE /\ available' = <<>> /\ open' = {}
        /\ writer_open' = FALSE
        /\ UNCHANGED <<stopVars, globalVars, connVars, lease, task, caller>>
    BY DEF CloseDatabases
  <1>2. available' \in Seq(Connections) /\ IsInjective(available')
    BY <1>1, EmptyQueue, EmptySeq
  <1>3. TypeInv'
    BY <1>1, <1>2
       DEF Inv, TypeInv, TypeOK, Suspended, connVars, stopVars, globalVars
  <1>4. PhaseInv'
    BY <1>1 DEF Inv, PhaseInv, globalVars, stopVars
  <1>5. QuietInv' /\ LeaseInv'
    BY <1>1 DEF Inv, QuietInv, LeaseInv, connVars
  <1>6. PoolInv'
    BY <1>1, <1>2 DEF PoolInv, Using
  <1>7. QED
    BY <1>3, <1>4, <1>5, <1>6 DEF Inv

\* Exit: each suspended coroutine drops its GaugeGuard, which leaves zero.
LEMMA InvExit == ASSUME Inv, Exit PROVE Inv'
  <1>1. /\ main = "closed" /\ main' = "exited" /\ alive' = {}
        /\ gauge' = gauge - Cardinality(Suspended)
        /\ conn' = [c \in Clients |-> "none"]
        /\ task' = [t \in Tasks |-> "none"]
        /\ UNCHANGED <<stopVars, g_backlog, g_server, jobs, accepts, poolVars,
                       writer_open, caller>>
    BY DEF Exit
  <1>2. Suspended' = {}
    BY <1>1 DEF Suspended
  <1>3. IsFiniteSet(Suspended') /\ gauge' = Cardinality(Suspended')
    <2>1. Cardinality(Suspended) \in Nat /\ gauge = Cardinality(Suspended)
      BY FS_CardinalityType DEF Inv, TypeInv, TypeOK
    <2>2. gauge' = 0
      BY <1>1, <2>1
    <2>3. QED
      BY <1>2, <2>2, FS_EmptySet
  <1>4. TypeInv'
    BY <1>1, <1>3 DEF Inv, TypeInv, TypeOK, poolVars, stopVars
  <1>5. PhaseInv'
    BY <1>1 DEF Inv, PhaseInv, poolVars, stopVars
  <1>6. \A r \in Readers : lease'[r] = None
    BY <1>1 DEF Inv, QuietInv, poolVars
  <1>7. QuietInv' /\ LeaseInv'
    BY <1>1, <1>6 DEF QuietInv, LeaseInv
  <1>8. PoolInv'
    BY <1>1, <1>6 DEF Inv, PoolInv, Using, poolVars
  <1>9. QED
    BY <1>4, <1>5, <1>7, <1>8 DEF Inv

-----------------------------------------------------------------------------
(* Signals, the end of the accept loop, and other threads *)

\* Steps that only set flags or move a caller.
LEMMA InvFlags ==
    ASSUME Inv,
           UNCHANGED <<main, pools_stopped, globalVars, connVars, poolVars,
                       writer_open, task>>,
           caller' \in [Callers -> {"idle", "push", "stop", "close"}]
    PROVE  Inv'
  <1>1. TypeInv'
    BY DEF Inv, TypeInv, TypeOK, Suspended, connVars, poolVars, globalVars
  <1>2. PhaseInv' /\ QuietInv'
    BY DEF Inv, PhaseInv, QuietInv, connVars, poolVars, globalVars
  <1>3. LeaseInv' /\ PoolInv'
    BY DEF Inv, LeaseInv, PoolInv, Using, connVars, poolVars
  <1>4. QED
    BY <1>1, <1>2, <1>3 DEF Inv

\* A signal, the end of the accept loop, and the threads that push to the
\* backlog or stop the server.
LEMMA InvCallers ==
    ASSUME Inv,
           \/ Signal
           \/ \E error \in BOOLEAN : AcceptLoopEnds(error)
           \/ \E q \in Callers :
                \/ \E function \in {"push", "stop"} : Test(q, function)
                \/ PushToBacklog(q) \/ StopServer(q) \/ CloseAcceptor(q)
    PROVE  Inv'
  <1>1. caller \in [Callers -> {"idle", "push", "stop", "close"}]
    BY DEF Inv, TypeInv, TypeOK
  <1>2. CASE Signal
    BY <1>1, <1>2, InvFlags DEF Signal
  <1>3. CASE \E error \in BOOLEAN : AcceptLoopEnds(error)
    BY <1>1, <1>3, InvFlags DEF AcceptLoopEnds
  <1>4. ASSUME NEW q \in Callers, NEW function \in {"push", "stop"},
               Test(q, function)
        PROVE  Inv'
    <2>1. caller' \in [Callers -> {"idle", "push", "stop", "close"}]
      BY <1>1, <1>4 DEF Test
    <2>2. QED
      BY <1>4, <2>1, InvFlags DEF Test, stopVars
  <1>5. ASSUME NEW q \in Callers, PushToBacklog(q) \/ StopServer(q) \/ CloseAcceptor(q)
        PROVE  Inv'
    <2>1. caller' \in [Callers -> {"idle", "push", "stop", "close"}]
      BY <1>1, <1>5 DEF PushToBacklog, StopServer, CloseAcceptor
    <2>2. QED
      BY <1>5, <2>1, InvFlags DEF PushToBacklog, StopServer, CloseAcceptor, stopVars
  <1>6. QED
    BY <1>2, <1>3, <1>4, <1>5

-----------------------------------------------------------------------------
(* Connections on the server thread *)

Served(c) ==
    \/ Accept(c) \/ \E kind \in DOMAIN Uses : Request(c, kind)
    \/ RequestSse(c) \/ Resume(c) \/ WriteResponse(c) \/ ConnectionEnds(c)

\* A handler of a connection runs in phase "run" and never touches one that a
\* reader thread works for; the gauge follows the connections.
LEMMA InvServed ==
    ASSUME Inv, NEW c \in Clients, Served(c)
    PROVE  Inv'
  <1> DEFINE States == {"none", "read", "write", "sse", "queued", "resume"}
  <1>1. /\ main = "run"
        /\ UNCHANGED <<main, stopVars, globalVars, poolVars, writer_open, task,
                       caller>>
    BY DEF Served, Accept, Request, RequestSse, Resume, WriteResponse,
           ConnectionEnds, ServerRuns
  <1>2. /\ conn \in [Clients -> States \cup {"busy"}]
        /\ jobs \in [Clients -> 0..2]
        /\ IsFiniteSet(Suspended) /\ gauge = Cardinality(Suspended)
        /\ Cardinality(Suspended) \in Nat
    BY FS_CardinalityType DEF Inv, TypeInv, TypeOK
  <1>3. /\ conn[c] # "busy"
        /\ jobs' \in [Clients -> 0..2]
        /\ \E v \in States : conn' = [conn EXCEPT ![c] = v]
        /\ IsFiniteSet(Suspended') /\ gauge' = Cardinality(Suspended')
    <2>1. CASE Accept(c)
      <3>1. /\ conn[c] = "none" /\ conn' = [conn EXCEPT ![c] = "read"]
            /\ gauge' = gauge + 1 /\ jobs' = jobs
        BY <2>1 DEF Accept
      <3>2. Suspended' = Suspended \cup {c} /\ c \notin Suspended
        <4>1. Suspended' = Suspended \cup {c}
          BY <1>2, <3>1 DEF Suspended
        <4>2. QED
          BY <3>1, <4>1 DEF Suspended
      <3>3. IsFiniteSet(Suspended') /\ gauge' = Cardinality(Suspended')
        BY <1>2, <3>1, <3>2, FS_AddElement
      <3>4. QED
        BY <1>2, <3>1, <3>3
    <2>2. ASSUME NEW kind \in DOMAIN Uses, Request(c, kind)
          PROVE  /\ conn[c] = "read"
                 /\ jobs' \in [Clients -> 0..2] /\ gauge' = gauge
                 /\ \E v \in States \ {"none"} : conn' = [conn EXCEPT ![c] = v]
      <3>1. Uses[kind] \in 0..2
        BY DEF Uses
      <3>2. QED
        BY <1>2, <2>2, <3>1 DEF Request
    <2>3. ASSUME RequestSse(c)
          PROVE  /\ conn[c] \in {"read", "sse"}
                 /\ jobs' \in [Clients -> 0..2] /\ gauge' = gauge
                 /\ \E v \in States \ {"none"} : conn' = [conn EXCEPT ![c] = v]
      <3>1. conn[c] \in {"read", "sse"} /\ gauge' = gauge
        BY <2>3 DEF RequestSse
      <3>2. jobs' \in [Clients -> 0..2]
        BY <1>2, <2>3 DEF RequestSse
      <3>3. \/ conn' = [conn EXCEPT ![c] = "sse"]
            \/ conn' = [conn EXCEPT ![c] = "queued"]
        BY <2>3 DEF RequestSse
      <3>4. QED
        BY <3>1, <3>2, <3>3
    <2>4. ASSUME Resume(c)
          PROVE  /\ conn[c] = "resume"
                 /\ jobs' \in [Clients -> 0..2] /\ gauge' = gauge
                 /\ \E v \in States \ {"none"} : conn' = [conn EXCEPT ![c] = v]
      <3>1. jobs[c] \in 0..2
        BY <1>2
      <3>2. PICK v \in {"sse", "write", "queued"} : conn' = [conn EXCEPT ![c] = v]
        BY <2>4 DEF Resume
      <3>3. jobs' \in [Clients -> 0..2]
        BY <1>2, <2>4, <3>1 DEF Resume
      <3>4. QED
        BY <2>4, <3>2, <3>3 DEF Resume
    <2>5. ASSUME WriteResponse(c)
          PROVE  /\ conn[c] = "write"
                 /\ jobs' \in [Clients -> 0..2] /\ gauge' = gauge
                 /\ \E v \in States \ {"none"} : conn' = [conn EXCEPT ![c] = v]
      BY <1>2, <2>5 DEF WriteResponse
    <2>6. ASSUME conn[c] \in States \ {"none"}, gauge' = gauge,
                 \E v \in States \ {"none"} : conn' = [conn EXCEPT ![c] = v]
          PROVE  IsFiniteSet(Suspended') /\ gauge' = Cardinality(Suspended')
      <3>1. PICK v \in States \ {"none"} : conn' = [conn EXCEPT ![c] = v]
        BY <2>6
      <3>2. Suspended' = Suspended \cup {c} /\ c \in Suspended
        BY <2>6, <3>1, SuspendedStep DEF Inv, Suspended
      <3>3. Suspended' = Suspended
        BY <3>2
      <3>4. QED
        BY <1>2, <2>6, <3>3
    <2>7. CASE ConnectionEnds(c)
      <3>1. /\ conn[c] \in {"read", "write", "sse"}
            /\ conn' = [conn EXCEPT ![c] = "none"]
            /\ gauge' = gauge - 1 /\ jobs' = jobs
        BY <2>7 DEF ConnectionEnds
      <3>2. Suspended' = Suspended \ {c} /\ c \in Suspended
        BY <3>1, SuspendedStep DEF Inv, Suspended
      <3>3. IsFiniteSet(Suspended') /\ gauge' = Cardinality(Suspended')
        BY <1>2, <3>1, <3>2, FS_RemoveElement
      <3>4. QED
        BY <1>2, <3>1, <3>3
    <2>8. CASE \/ \E kind \in DOMAIN Uses : Request(c, kind)
               \/ RequestSse(c) \/ Resume(c) \/ WriteResponse(c)
      <3>1. /\ conn[c] \in States \ {"none"} /\ conn[c] # "busy"
            /\ jobs' \in [Clients -> 0..2] /\ gauge' = gauge
            /\ \E v \in States \ {"none"} : conn' = [conn EXCEPT ![c] = v]
        BY <2>2, <2>3, <2>4, <2>5, <2>8
      <3>2. QED
        BY <2>6, <3>1
    <2>9. QED
      BY <2>1, <2>7, <2>8 DEF Served
  <1>4. PICK v \in States : conn' = [conn EXCEPT ![c] = v]
    BY <1>3
  <1>5. TypeInv'
    <2>1. conn' \in [Clients -> {"none", "read", "write", "sse", "queued",
                                 "busy", "resume"}]
      BY <1>2, <1>4
    <2>2. QED
      BY <1>1, <1>3, <2>1
         DEF Inv, TypeInv, TypeOK, poolVars, globalVars, stopVars
  <1>6. PhaseInv' /\ QuietInv'
    BY <1>1 DEF Inv, PhaseInv, QuietInv, poolVars, globalVars, stopVars
  <1>7. LeaseInv'
    <2>1. ASSUME NEW r \in Readers, lease[r] # None
          PROVE  conn'[lease[r].client] = "busy"
      <3>1. conn[lease[r].client] = "busy" /\ lease[r].client \in Clients
        BY <2>1 DEF Inv, LeaseInv, TypeInv, Lease
      <3>2. lease[r].client # c
        BY <3>1, <1>3
      <3>3. QED
        BY <1>2, <1>4, <3>1, <3>2
    <2>2. QED
      BY <1>1, <2>1 DEF Inv, LeaseInv, poolVars
  <1>8. PoolInv'
    BY <1>1 DEF Inv, PoolInv, Using, poolVars
  <1>9. QED
    BY <1>5, <1>6, <1>7, <1>8 DEF Inv

-----------------------------------------------------------------------------
(* Background tasks *)

\* A task runs a job only while the write pool does; no task exists outside
\* "run" and the teardown.
LEMMA InvTask ==
    ASSUME Inv, NEW t \in Tasks, Task(t)
    PROVE  Inv'
  <1> DEFINE States == {"none", "wait", "queued", "running", "resume"}
  <1>1. UNCHANGED <<main, pools_stopped, globalVars, connVars, poolVars,
                    writer_open, caller>>
    BY DEF Task, TaskWakes, TaskJobStarts, TaskJobEnds, TaskResumes, stopVars
  <1>2. PICK v \in States : task' = [task EXCEPT ![t] = v]
    BY DEF Task, TaskWakes, TaskJobStarts, TaskJobEnds, TaskResumes
  <1>3. /\ task[t] # "none"
        /\ v = "running" => ~pools_stopped
    <2>1. task[t] # "none"
      BY DEF Task, TaskWakes, TaskJobStarts, TaskJobEnds, TaskResumes
    <2>2. ASSUME v = "running" PROVE ~pools_stopped
      <3>1. task'[t] = "running"
        BY <1>2, <2>2 DEF Inv, TypeInv, TypeOK
      <3>2. ~TaskWakes(t) /\ ~TaskJobEnds(t) /\ ~TaskResumes(t)
        BY <3>1 DEF TaskWakes, TaskJobEnds, TaskResumes, Inv, TypeInv, TypeOK
      <3>3. QED
        BY <3>2 DEF Task, TaskJobStarts
    <2>3. QED
      BY <2>1, <2>2
  <1>4. main \notin {"boot", "harvest", "set_up", "failed"}
    BY <1>3 DEF Inv, QuietInv
  <1>5. TypeInv'
    <2>1. task' \in [Tasks -> States]
      BY <1>2 DEF Inv, TypeInv, TypeOK
    <2>2. QED
      BY <1>1, <2>1
         DEF Inv, TypeInv, TypeOK, Suspended, connVars, poolVars, globalVars
  <1>6. PhaseInv'
    BY <1>1 DEF Inv, PhaseInv, poolVars, globalVars
  <1>7. QuietInv'
    <2>1. ASSUME main \in {"closed", "exited"}, NEW u \in Tasks
          PROVE  task'[u] # "running"
      <3>1. pools_stopped /\ task[u] # "running"
        BY <2>1 DEF Inv, PhaseInv, QuietInv
      <3>2. QED
        BY <1>2, <1>3, <3>1 DEF Inv, TypeInv, TypeOK
    <2>2. QED
      BY <1>1, <1>4, <2>1 DEF Inv, QuietInv, poolVars, connVars
  <1>8. LeaseInv' /\ PoolInv'
    BY <1>1 DEF Inv, LeaseInv, PoolInv, Using, connVars, poolVars
  <1>9. QED
    BY <1>5, <1>6, <1>7, <1>8 DEF Inv

-----------------------------------------------------------------------------
(* ReadDatabasePool *)

\* UseConnection starts: a thread that was free works for a connection that no
\* other thread works for.
LEMMA InvUseConnection ==
    ASSUME Inv, NEW r \in Readers, NEW c \in Clients, UseConnection(r, c)
    PROVE  Inv'
  <1> DEFINE new == [client |-> c, db |-> NoDb]
  <1>1. /\ ~pools_stopped /\ lease[r] = None /\ conn[c] = "queued"
        /\ lease' = [lease EXCEPT ![r] = new]
        /\ conn' = [conn EXCEPT ![c] = "busy"]
        /\ UNCHANGED <<main, stopVars, globalVars, jobs, gauge, accepts,
                       available, closed, open, writer_open, task, caller>>
    BY DEF UseConnection
  <1>2. new \in Lease /\ new # None /\ new.client = c /\ new.db = NoDb
    BY LeaseRecords
  <1> HIDE DEF new
  <1>3. /\ lease \in [Readers -> Lease \cup {None}]
        /\ conn \in [Clients -> {"none", "read", "write", "sse", "queued",
                                 "busy", "resume"}]
        /\ IsFiniteSet(Suspended) /\ gauge = Cardinality(Suspended)
    BY DEF Inv, TypeInv, TypeOK
  <1>4. main \in {"run", "cleared"}
    BY <1>1 DEF Inv, TypeInv, TypeOK, PhaseInv, QuietInv
  <1>5. lease'[r] = new /\ \A s \in Readers : s # r => lease'[s] = lease[s]
    BY <1>1, <1>3
  <1>6. Suspended' = Suspended
    BY <1>1, <1>3 DEF Suspended
  <1>7. TypeInv'
    <2>1. lease' \in [Readers -> Lease \cup {None}]
      BY <1>1, <1>2, <1>3
    <2>2. conn' \in [Clients -> {"none", "read", "write", "sse", "queued",
                                 "busy", "resume"}]
      BY <1>1, <1>3
    <2>3. QED
      BY <1>1, <1>3, <1>6, <2>1, <2>2
         DEF Inv, TypeInv, TypeOK, stopVars, globalVars
  <1>8. PhaseInv' /\ QuietInv'
    BY <1>1, <1>4 DEF Inv, PhaseInv, QuietInv, stopVars, globalVars
  <1>9. \A s \in Readers : lease[s] # None =>
            /\ lease[s].client \in Clients /\ lease[s].client # c
            /\ conn[lease[s].client] = "busy"
    BY <1>1, <1>3 DEF Inv, LeaseInv, Lease
  <1>10. LeaseInv'
    <2>1. ASSUME NEW s \in Readers, lease'[s] # None
          PROVE  conn'[lease'[s].client] = "busy"
      BY <1>1, <1>2, <1>3, <1>5, <1>9, <2>1
    <2>2. ASSUME NEW s \in Readers, NEW q \in Readers, lease'[s] # None,
                 lease'[q] # None, lease'[s].client = lease'[q].client
          PROVE  s = q
      BY <1>2, <1>5, <1>9, <2>2 DEF Inv, LeaseInv
    <2>3. QED
      BY <2>1, <2>2 DEF LeaseInv
  <1>11. \A s \in Readers : Using(s)' <=> Using(s)
    BY <1>1, <1>2, <1>5 DEF Using
  <1>12. \A s \in Readers : Using(s) => lease'[s] = lease[s]
    BY <1>1, <1>5 DEF Using
  <1>13. PoolInv'
    BY <1>1, <1>11, <1>12 DEF Inv, PoolInv
  <1>14. QED
    BY <1>7, <1>8, <1>10, <1>13 DEF Inv

\* acquire: the front of the queue goes to the thread.  The pool is never closed
\* while a thread waits.
LEMMA InvAcquire ==
    ASSUME Inv, NEW r \in Readers, acquire(r)
    PROVE  Inv'
  <1> DEFINE d == Head(available)
             new == [lease[r] EXCEPT !.db = d]
  <1>1. lease[r] # None /\ lease[r].db = NoDb
    BY DEF acquire, Waiting
  <1>2. /\ lease \in [Readers -> Lease \cup {None}]
        /\ conn \in [Clients -> {"none", "read", "write", "sse", "queued",
                                 "busy", "resume"}]
        /\ available \in Seq(Connections) /\ IsInjective(available)
    BY DEF Inv, TypeInv, TypeOK, PoolInv
  <1>3. lease[r] \in Lease /\ lease[r].client \in Clients
    BY <1>1, <1>2 DEF Lease
  <1>4. main \in {"run", "cleared", "join"} /\ ~closed
    BY <1>1 DEF Inv, TypeInv, TypeOK, PhaseInv, QuietInv
  <1>5. /\ available # <<>>
        /\ available' = Tail(available)
        /\ lease' = [lease EXCEPT ![r] = new]
        /\ UNCHANGED <<main, stopVars, globalVars, jobs, gauge, accepts, closed,
                       open, writer_open, task, caller>>
    BY <1>4 DEF acquire
  <1>6. conn' = conn
    BY <1>2, <1>3, <1>4 DEF acquire
  <1>7. /\ d \in Connections /\ Tail(available) \in Seq(Connections)
        /\ IsInjective(Tail(available))
        /\ Range(available) = {d} \cup Range(Tail(available))
        /\ d \notin Range(Tail(available))
    BY <1>2, <1>5, PopQueue
  <1> HIDE DEF d
  <1>8. new \in Lease /\ new.client = lease[r].client /\ new.db = d /\ d # NoDb
    BY <1>3, <1>7, LeaseTakes
  <1>9. new # None
    BY <1>8, LeaseRecords
  <1> HIDE DEF new
  <1>10. lease'[r] = new /\ \A s \in Readers : s # r => lease'[s] = lease[s]
    BY <1>2, <1>5
  <1>11. TypeInv'
    <2>1. lease' \in [Readers -> Lease \cup {None}]
      BY <1>2, <1>5, <1>8
    <2>2. available' \in Seq(Connections)
      BY <1>5, <1>7
    <2>3. Suspended' = Suspended
      BY <1>6 DEF Suspended
    <2>4. QED
      BY <1>5, <1>6, <2>1, <2>2, <2>3
         DEF Inv, TypeInv, TypeOK, stopVars, globalVars
  <1>12. PhaseInv' /\ QuietInv'
    BY <1>4, <1>5, <1>6 DEF Inv, PhaseInv, QuietInv, stopVars, globalVars
  <1>13. LeaseInv'
    <2>1. \A s \in Readers : /\ lease'[s] # None <=> lease[s] # None
                             /\ lease'[s] # None => lease'[s].client = lease[s].client
      BY <1>1, <1>8, <1>9, <1>10
    <2>2. QED
      BY <1>6, <2>1 DEF Inv, LeaseInv
  <1>14. ~Using(r) /\ Using(r)'
    BY <1>1, <1>8, <1>9, <1>10 DEF Using
  <1>15. \A s \in Readers : s # r => (Using(s)' <=> Using(s))
    BY <1>10 DEF Using
  <1>16. \A s \in Readers : Using(s) => lease[s].db # d
    BY <1>7 DEF Inv, PoolInv
  <1>17. PoolInv'
    <2>1. \A s \in Readers : Using(s)' => lease'[s].db \notin Range(available')
      BY <1>5, <1>7, <1>8, <1>10, <1>15 DEF Inv, PoolInv
    <2>2. ASSUME NEW s \in Readers, NEW q \in Readers, Using(s)', Using(q)',
                 lease'[s].db = lease'[q].db
          PROVE  s = q
      BY <1>8, <1>10, <1>15, <1>16, <2>2 DEF Inv, PoolInv
    <2>3. ASSUME NEW e \in Connections
          PROVE  \/ e \in Range(available')
                 \/ \E s \in Readers : Using(s)' /\ lease'[s].db = e
      <3>1. CASE e = d
        BY <1>8, <1>10, <1>14, <3>1
      <3>2. CASE e # d /\ e \in Range(available)
        BY <1>5, <1>7, <3>2
      <3>3. CASE e \notin Range(available)
        <4>1. PICK s \in Readers : Using(s) /\ lease[s].db = e
          BY <1>4, <3>3 DEF Inv, PoolInv
        <4>2. s # r
          BY <4>1, <1>14
        <4>3. QED
          BY <4>1, <4>2, <1>10, <1>15
      <3>4. QED
        BY <3>1, <3>2, <3>3
    <2>4. QED
      BY <1>5, <1>7, <2>1, <2>2, <2>3 DEF PoolInv
  <1>18. QED
    BY <1>11, <1>12, <1>13, <1>17 DEF Inv

\* release: the connection goes back to the end of the queue.
LEMMA InvRelease ==
    ASSUME Inv, NEW r \in Readers, release(r)
    PROVE  Inv'
  <1> DEFINE d == lease[r].db
             c == lease[r].client
  <1>1. lease[r] # None /\ d # NoDb /\ Using(r)
    BY DEF release, Using
  <1>2. /\ lease \in [Readers -> Lease \cup {None}]
        /\ conn \in [Clients -> {"none", "read", "write", "sse", "queued",
                                 "busy", "resume"}]
        /\ available \in Seq(Connections) /\ IsInjective(available)
    BY DEF Inv, TypeInv, TypeOK, PoolInv
  <1>3. d \in Connections /\ c \in Clients /\ conn[c] = "busy"
    BY <1>1, <1>2 DEF Lease, Inv, LeaseInv
  <1>4. main \in {"run", "cleared", "join"} /\ ~closed
    BY <1>1 DEF Inv, TypeInv, TypeOK, PhaseInv, QuietInv
  <1>5. /\ available' = Append(available, d)
        /\ conn' = [conn EXCEPT ![c] = "resume"]
        /\ lease' = [lease EXCEPT ![r] = None]
        /\ UNCHANGED <<main, stopVars, globalVars, jobs, gauge, accepts, closed,
                       open, writer_open, task, caller>>
    BY <1>4 DEF release
  <1>6. d \notin Range(available)
    BY <1>1 DEF Inv, PoolInv
  <1>7. \A s \in Readers : (Using(s) /\ lease[s].db = d) => s = r
    BY <1>1 DEF Inv, PoolInv
  <1>8. \A s \in Readers : (lease[s] # None /\ s # r) =>
            /\ lease[s].client \in Clients /\ lease[s].client # c
            /\ conn[lease[s].client] = "busy"
    BY <1>1, <1>2 DEF Inv, LeaseInv, Lease
  <1> HIDE DEF d, c
  <1>9. /\ Append(available, d) \in Seq(Connections)
        /\ IsInjective(Append(available, d))
        /\ Range(Append(available, d)) = Range(available) \cup {d}
    BY <1>2, <1>3, <1>6, PushQueue
  <1>10. lease'[r] = None /\ \A s \in Readers : s # r => lease'[s] = lease[s]
    BY <1>2, <1>5
  <1>11. TypeInv'
    <2>1. lease' \in [Readers -> Lease \cup {None}]
      BY <1>2, <1>5
    <2>2. conn' \in [Clients -> {"none", "read", "write", "sse", "queued",
                                 "busy", "resume"}]
      BY <1>2, <1>5
    <2>3. Suspended' = Suspended
      BY <1>2, <1>3, <1>5 DEF Suspended
    <2>4. available' \in Seq(Connections)
      BY <1>5, <1>9
    <2>5. QED
      BY <1>5, <2>1, <2>2, <2>3, <2>4
         DEF Inv, TypeInv, TypeOK, stopVars, globalVars
  <1>12. PhaseInv' /\ QuietInv'
    BY <1>4, <1>5 DEF Inv, PhaseInv, QuietInv, stopVars, globalVars
  <1>13. LeaseInv'
    <2>1. ASSUME NEW s \in Readers, lease'[s] # None
          PROVE  conn'[lease'[s].client] = "busy"
      BY <1>2, <1>5, <1>8, <1>10, <2>1
    <2>2. ASSUME NEW s \in Readers, NEW q \in Readers, lease'[s] # None,
                 lease'[q] # None, lease'[s].client = lease'[q].client
          PROVE  s = q
      BY <1>10, <2>2 DEF Inv, LeaseInv
    <2>3. QED
      BY <2>1, <2>2 DEF LeaseInv
  <1>14. \A s \in Readers : Using(s)' <=> (s # r /\ Using(s))
    BY <1>10 DEF Using
  <1>15. PoolInv'
    <2>1. IsInjective(available') /\ Range(available') = Range(available) \cup {d}
      BY <1>5, <1>9
    <2>2. \A s \in Readers : Using(s)' => lease'[s].db \notin Range(available')
      BY <2>1, <1>7, <1>10, <1>14 DEF Inv, PoolInv
    <2>3. ASSUME NEW s \in Readers, NEW q \in Readers, Using(s)', Using(q)',
                 lease'[s].db = lease'[q].db
          PROVE  s = q
      BY <1>10, <1>14, <2>3 DEF Inv, PoolInv
    <2>4. ASSUME NEW e \in Connections
          PROVE  \/ e \in Range(available')
                 \/ \E s \in Readers : Using(s)' /\ lease'[s].db = e
      <3>1. CASE e = d \/ e \in Range(available)
        BY <2>1, <3>1
      <3>2. CASE ~(e = d \/ e \in Range(available))
        <4>1. PICK s \in Readers : Using(s) /\ lease[s].db = e
          BY <1>4, <3>2 DEF Inv, PoolInv
        <4>2. s # r
          BY <3>2, <4>1 DEF d
        <4>3. QED
          BY <4>1, <4>2, <1>10, <1>14
      <3>3. QED
        BY <3>1, <3>2
    <2>5. QED
      BY <2>1, <2>2, <2>3, <2>4 DEF PoolInv
  <1>16. QED
    BY <1>11, <1>12, <1>13, <1>15 DEF Inv

-----------------------------------------------------------------------------
(* Theorems *)

\* Every step keeps the invariant.
LEMMA InvNext == Inv /\ [Next]_vars => Inv'
  <1>1. SUFFICES ASSUME Inv, [Next]_vars PROVE Inv'
    OBVIOUS
  <1>2. CASE UNCHANGED vars
    <2>1. caller' \in [Callers -> {"idle", "push", "stop", "close"}]
      BY <1>1, <1>2 DEF vars, Inv, TypeInv, TypeOK
    <2>2. QED
      BY <1>1, <1>2, <2>1, InvFlags DEF vars, stopVars
  <1>3. CASE Main
    BY <1>1, <1>3, InvBoot, InvCreateServer, InvRun, InvRunFails, InvClearGlobals, InvStopPools,
       InvCloseDatabases, InvExit DEF Main
  <1>4. ASSUME NEW c \in Clients, Served(c) PROVE Inv'
    BY <1>1, <1>4, InvServed
  <1>5. ASSUME NEW t \in Tasks, Task(t) PROVE Inv'
    BY <1>1, <1>5, InvTask
  <1>6. ASSUME NEW r \in Readers, Reader(r) PROVE Inv'
    BY <1>1, <1>6, InvUseConnection, InvAcquire, InvRelease DEF Reader
  <1>7. CASE \/ Signal \/ \E error \in BOOLEAN : AcceptLoopEnds(error)
             \/ \E q \in Callers :
                  \/ \E function \in {"push", "stop"} : Test(q, function)
                  \/ PushToBacklog(q) \/ StopServer(q) \/ CloseAcceptor(q)
    BY <1>1, <1>7, InvCallers
  <1>8. QED
    BY <1>1, <1>2, <1>3, <1>4, <1>5, <1>6, <1>7 DEF Next, Served

\* The invariant holds in every reachable state.
LEMMA Invariance == Spec => []Inv
  BY InvInit, InvNext, PTL DEF Spec

\* The server's state keeps its types and the gauge of open HTTP connections is
\* exact, however a connection ends and whenever the server exits.
THEOREM TypeCorrect == Spec => []TypeOK
  <1>1. Inv => TypeOK
    BY DEF Inv, TypeInv
  <1>2. QED
    BY <1>1, Invariance, PTL

\* RunServer's teardown closes the databases when nothing uses them any more,
\* and clears the global pointers before their objects go.
THEOREM SafeNoUseAfterClose == Spec => []NoUseAfterClose
  <1>1. ASSUME Inv PROVE NoUseAfterClose
    <2>1. ASSUME NEW r \in Readers, Using(r) PROVE lease[r].db \in open
      <3>1. lease[r] # None /\ lease[r].db \in Connections
        BY <1>1, <2>1 DEF Using, Inv, TypeInv, Lease
      <3>2. main \in {"run", "cleared", "join"}
        BY <1>1, <3>1 DEF Inv, QuietInv, TypeInv, TypeOK
      <3>3. QED
        BY <1>1, <3>1, <3>2 DEF Inv, PhaseInv
    <2>2. ASSUME NEW t \in Tasks, task[t] = "running" PROVE writer_open
      <3>1. main \in {"run", "cleared", "join"}
        BY <1>1, <2>2 DEF Inv, QuietInv, TypeInv, TypeOK
      <3>2. QED
        BY <1>1, <3>1 DEF Inv, PhaseInv
    <2>3. /\ g_backlog => "backlog" \in alive \/ main = "failed"
          /\ g_server => "server" \in alive \/ main = "failed"
      BY <1>1 DEF Inv, PhaseInv
    <2>4. QED
      BY <2>1, <2>2, <2>3 DEF NoUseAfterClose
  <1>2. QED
    BY <1>1, Invariance, PTL

\* No two reader threads ever hold the same connection, and none is held and
\* queued at once: ReadDatabasePool hands each out to one thread at a time.
THEOREM SafeExclusiveLease == Spec => []ExclusiveLease
  <1>1. ASSUME Inv PROVE ExclusiveLease
    <2>1. Cardinality(Range(available)) = Len(available)
      BY <1>1, QueueCardinality DEF Inv, TypeInv, TypeOK, PoolInv
    <2>2. QED
      BY <1>1, <2>1 DEF ExclusiveLease, Inv, PoolInv
  <1>2. QED
    BY <1>1, Invariance, PTL

\* A thread that waits in acquire finds a connection: the connections that are
\* not queued are held by other threads, and there are as many connections as
\* threads.
LEMMA FreeConnection ==
    ASSUME Inv, NEW r \in Readers, Waiting(r), ~closed
    PROVE  available # <<>>
  <1>1. SUFFICES ASSUME available = <<>> PROVE FALSE
    OBVIOUS
  <1>2. lease[r] # None /\ ~Using(r)
    BY DEF Waiting, Using
  <1>3. main \in {"run", "cleared", "join"}
    BY <1>2 DEF Inv, QuietInv, TypeInv, TypeOK
  <1>4. \A d \in Connections : \E s \in Readers : Using(s) /\ lease[s].db = d
    BY <1>1, <1>3, EmptyQueue DEF Inv, PoolInv
  <1> DEFINE holder == [d \in Connections |->
                            CHOOSE s \in Readers : Using(s) /\ lease[s].db = d]
             Others == Readers \ {r}
  <1>5. \A d \in Connections : /\ holder[d] \in Others
                               /\ lease[holder[d]].db = d
    BY <1>2, <1>4
  <1>6. holder \in [Connections -> Others]
    BY <1>5
  <1>7. \A d, e \in Connections : holder[d] = holder[e] => d = e
    <2> HIDE DEF holder, Others
    <2>1. QED
      BY <1>5
  <1>8. holder \in Injection(Connections, Others)
    <2> HIDE DEF holder, Others
    <2>1. QED
      BY <1>6, <1>7, Fun_IsInj
  <1>9. /\ IsFiniteSet(Others)
        /\ Cardinality(Others) = Cardinality(Readers) - 1
    BY LifecycleAssumption, FS_RemoveElement
  <1>10. Cardinality(Connections) <= Cardinality(Others)
    <2> HIDE DEF holder, Others
    <2>1. QED
      BY <1>8, <1>9, FS_Injection
  <1>11. Cardinality(Readers) \in Nat
    BY LifecycleAssumption, FS_CardinalityType
  <1>12. QED
    BY <1>9, <1>10, <1>11, LifecycleAssumption

\* acquire never blocks a reader thread: with as many connections as threads
\* the condition variable of ReadDatabasePool is never waited on.
THEOREM SafeNeverWaits == Spec => []NeverWaits
  <1>1. Inv => NeverWaits
    BY FreeConnection DEF NeverWaits
  <1>2. QED
    BY <1>1, Invariance, PTL

=============================================================================
