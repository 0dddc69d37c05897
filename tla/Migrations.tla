------------------------------ MODULE Migrations ------------------------------
(***************************************************************************)
(* Migrations of one database by several processes: a server that rolls    *)
(* out what is pending when it starts, `migrate rollout`, which applies    *)
(* one migration, and `migrate rollback`, which asks neither whether the   *)
(* migration is applied nor what came after it.                            *)
(*                                                                         *)
(* SQLite: a transaction begins without a lock, takes the write lock with  *)
(* its first write, and cannot write any more once another process has     *)
(* committed since its first statement.  A writer that finds the lock      *)
(* taken waits for busy_timeout and fails, at any time here.  A write that *)
(* fails for another reason (a full disk, an I/O error) is undone alone,   *)
(* or SQLite ends the whole transaction.                                   *)
(***************************************************************************)
EXTENDS Naturals, Sequences

CONSTANTS
    Processes,
    Migrations,     \* cfg.migrations: records [version, rollout, rollback]
    Base,           \* the column that stands for the log table itself
    StartVersions,  \* bound: the -v of migrate rollout
    MaxCommands,    \* bound: processes started
    MaxCrashes,     \* bound: processes killed
    MaxFaults       \* bound: writes that fail for another reason than the lock

Version == {m.version : m \in Migrations}
NoMigration == 0
Free == "free"

ASSUME MigrationsAssumption ==
    /\ Version \subseteq Nat \ {NoMigration} /\ Free \notin Processes
    /\ \A m, n \in Migrations : m.version = n.version => m = n
    /\ StartVersions \subseteq Nat /\ MaxCommands \in Nat
    /\ MaxCrashes \in Nat /\ MaxFaults \in Nat

VARIABLES
    schema,         \* the columns of the log table, committed
    versions,       \* table versions, committed
    internal,       \* do the internal tables exist?
    lock, draft,    \* the write lock, and what its holder has changed
    stale,          \* processes whose open transaction has been overtaken
    pc, command, target, done,  \* per process; done: statements executed
    info,           \* per process: DatabaseCatalog::log_column_info
    commands, crashes, faults,
    runs,           \* history: per version, rollouts since the last rollback
    unordered,      \* history: was a version rolled back below another?
    undone,         \* history: the versions rolled back
    undeleted,      \* history: those of them that are still recorded
    left_out        \* history: has a -v of migrate rollout left out a version?
boundVars == <<commands, crashes, faults>>
dbVars == <<schema, versions, internal>>
txnVars == <<lock, draft, stale>>
procVars == <<pc, command, target, done, info>>
historyVars == <<runs, unordered, undone, undeleted, left_out>>
vars == <<dbVars, txnVars, procVars, boundVars, historyVars>>

Migration(v) == CHOOSE m \in Migrations : m.version = v
Commands == [kind : {"serve"}, auto_rollout : BOOLEAN]
            \cup [kind : {"rollout"}, start_version : StartVersions]
            \cup [kind : {"rollback"}, version : Version]
NoCommand == [kind |-> "none"]

Init ==
    /\ schema = {} /\ versions = {} /\ internal = FALSE
    /\ lock = Free /\ draft = [schema |-> {}, versions |-> {}] /\ stale = {}
    /\ pc = [p \in Processes |-> "idle"]
    /\ command = [p \in Processes |-> NoCommand]
    /\ target = [p \in Processes |-> NoMigration]
    /\ done = [p \in Processes |-> 0]
    /\ info = [p \in Processes |-> {}]
    /\ commands = 0 /\ crashes = 0 /\ faults = 0
    /\ runs = [v \in Version |-> 0] /\ unordered = FALSE /\ undone = {}
    /\ undeleted = {} /\ left_out = FALSE

-----------------------------------------------------------------------------
(* SQLite, as the migrations use it *)

\* CREATE TABLE IF NOT EXISTS, ADD COLUMN, DROP COLUMN, DROP TABLE IF EXISTS.
Executable(statement, columns) ==
    CASE statement.op \in {"create", "drop_table"} -> TRUE
      [] statement.op = "add" -> Base \in columns /\ statement.col \notin columns
      [] statement.op = "drop" -> statement.col \in columns

Executed(statement, columns) ==
    CASE statement.op = "create" ->
            IF Base \in columns THEN columns ELSE {Base}
      [] statement.op = "drop_table" -> {}
      [] statement.op = "add" -> columns \cup {statement.col}
      [] statement.op = "drop" -> columns \ {statement.col}

CanWrite(p) == lock = p \/ (lock = Free /\ p \notin stale)

\* What p sees inside its transaction.
Sees(p) == IF lock = p THEN draft ELSE [schema |-> schema, versions |-> versions]

Release(p) ==
    /\ lock' = IF lock = p THEN Free ELSE lock
    /\ draft' = IF lock = p THEN [schema |-> {}, versions |-> {}] ELSE draft

-----------------------------------------------------------------------------
(* The commands *)

Goto(p, label) == pc' = [pc EXCEPT ![p] = label]

\* The process ends, or the loop of Initialize goes on or is left.
Return(p, ok) ==
    /\ Goto(p, CASE command[p].kind = "serve" /\ ok -> "pending"
                 [] command[p].kind = "serve" /\ ~ok -> "refresh"
                 [] OTHER -> "idle")
    /\ target' = [target EXCEPT ![p] = NoMigration]
    /\ done' = [done EXCEPT ![p] = 0]

Start(p, c) ==
    /\ pc[p] = "idle" /\ commands < MaxCommands
    /\ commands' = commands + 1
    /\ command' = [command EXCEPT ![p] = c] /\ Goto(p, "tables")
    /\ UNCHANGED <<dbVars, txnVars, target, done, info, crashes, faults, historyVars>>

\* The tables are created if they are not there; a locked database throws.
CreateInternalTables(p) ==
    /\ pc[p] = "tables"
    /\ \/ /\ internal \/ lock = Free
          /\ internal' = TRUE
          /\ \/ /\ command[p].kind = "rollback"
                /\ Goto(p, "statements")
                /\ target' = [target EXCEPT ![p] = command[p].version]
             \/ /\ command[p].kind = "rollout" /\ Goto(p, "pending")
                /\ UNCHANGED target
             \/ /\ command[p].kind = "serve"
                /\ Goto(p, IF command[p].auto_rollout THEN "pending"
                                                      ELSE "refresh")
                /\ UNCHANGED target
       \/ /\ ~internal /\ lock # Free
          /\ Goto(p, "idle") /\ UNCHANGED <<internal, target>>
    /\ UNCHANGED <<schema, versions, txnVars, command, done, info, boundVars,
                   historyVars>>

\* The prompt of migrate rollback is answered with no.
Decline(p) ==
    /\ pc[p] = "statements" /\ command[p].kind = "rollback" /\ done[p] = 0
    /\ Return(p, FALSE)
    /\ UNCHANGED <<dbVars, txnVars, command, info, boundVars, historyVars>>

Pending(p) ==
    {v \in Version \ versions :
        command[p].kind = "rollout" => v > command[p].start_version}

\* History: does the -v of p leave out a version that is not recorded?
LeavesOut(p) ==
    /\ command[p].kind = "rollout"
    /\ \E v \in Version \ versions : v <= command[p].start_version

\* Mutated form of ApplyPendingMigrations: in the order of the list.
ApplyPendingAny(p) ==
    /\ pc[p] = "pending"
    /\ \/ /\ Pending(p) = {} /\ Return(p, FALSE) /\ UNCHANGED left_out
       \/ /\ \E v \in Pending(p) : target' = [target EXCEPT ![p] = v]
          /\ Goto(p, "check") /\ UNCHANGED done
          /\ left_out' = (left_out \/ LeavesOut(p))
    /\ UNCHANGED <<dbVars, txnVars, command, info, boundVars, runs, unordered,
                   undone, undeleted>>

\* The lowest pending version, by the versions read now.
ApplyPendingMigrations(p) ==
    /\ pc[p] = "pending"
    /\ \/ /\ Pending(p) = {} /\ Return(p, FALSE) /\ UNCHANGED left_out
       \/ \E v \in Pending(p) :
            /\ \A w \in Pending(p) : v <= w
            /\ target' = [target EXCEPT ![p] = v]
            /\ Goto(p, "check") /\ UNCHANGED done
            /\ left_out' = (left_out \/ LeavesOut(p))
    /\ UNCHANGED <<dbVars, txnVars, command, info, boundVars, runs, unordered,
                   undone, undeleted>>

\* ApplyMigration looks once more, then begins.
ApplyMigration(p) ==
    /\ pc[p] = "check"
    /\ \/ /\ target[p] \in versions /\ Return(p, TRUE)
       \/ /\ target[p] \notin versions /\ Goto(p, "statements")
          /\ UNCHANGED <<target, done>>
    /\ UNCHANGED <<dbVars, txnVars, command, info, boundVars, historyVars>>

Statements(p) ==
    LET m == Migration(target[p])
    IN  IF command[p].kind = "rollback" THEN m.rollback ELSE m.rollout

InTransaction(p) == pc[p] = "statements" /\ done[p] < Len(Statements(p))
Statement(p) == Statements(p)[done[p] + 1]
NoEffect(p) == Executed(Statement(p), Sees(p).schema) = Sees(p).schema

\* Mutated form of ExecSql: every statement commits by itself.
ExecSqlAutocommit(p) ==
    /\ InTransaction(p)
    /\ Executable(Statement(p), Sees(p).schema)
    /\ NoEffect(p) \/ CanWrite(p)
    /\ schema' = Executed(Statement(p), schema)
    /\ done' = [done EXCEPT ![p] = @ + 1]
    /\ UNCHANGED <<versions, internal, txnVars, pc, command, target, info,
                   boundVars, historyVars>>

\* One statement succeeds; one without effect needs no lock.
ExecSql(p) ==
    /\ InTransaction(p)
    /\ Executable(Statement(p), Sees(p).schema)
    /\ \/ /\ NoEffect(p) /\ UNCHANGED <<lock, draft>>
       \/ /\ ~NoEffect(p) /\ CanWrite(p)
          /\ lock' = p
          /\ draft' = [Sees(p) EXCEPT
                            !.schema = Executed(Statement(p), @)]
    /\ done' = [done EXCEPT ![p] = @ + 1]
    /\ UNCHANGED <<dbVars, stale, pc, command, target, info, boundVars,
                   historyVars>>

\* Mutated form of ExecSqlFails: a column that exists already is no error.
ExecSqlFailsGoesOn(p) ==
    LET exists == Statement(p).op = "add" /\ Statement(p).col \in Sees(p).schema
    IN  /\ InTransaction(p)
        /\ \/ ~Executable(Statement(p), Sees(p).schema)
           \/ ~NoEffect(p) /\ ~CanWrite(p)
        /\ \/ /\ exists
              /\ done' = [done EXCEPT ![p] = @ + 1]
              /\ UNCHANGED <<txnVars, pc, target>>
           \/ /\ ~exists
              /\ Release(p) /\ stale' = stale \ {p} /\ Return(p, FALSE)
        /\ UNCHANGED <<dbVars, command, info, boundVars, historyVars>>

\* Mutated form of ExecSqlFails: the transaction is not rolled back.
ExecSqlFailsKeepsLock(p) ==
    /\ InTransaction(p)
    /\ ~Executable(Statement(p), Sees(p).schema) \/ ~CanWrite(p)
    /\ Return(p, FALSE)
    /\ UNCHANGED <<dbVars, txnVars, command, info, boundVars, historyVars>>

\* One statement throws: ROLLBACK, and false.
ExecSqlFails(p) ==
    /\ InTransaction(p)
    /\ \/ ~Executable(Statement(p), Sees(p).schema)
       \/ ~NoEffect(p) /\ ~CanWrite(p)
    /\ Release(p) /\ stale' = stale \ {p} /\ Return(p, FALSE)
    /\ UNCHANGED <<dbVars, command, info, boundVars, historyVars>>

\* Mutated form of Record: a rollout is not entered into versions.
RecordNothing(p) ==
    /\ pc[p] = "statements" /\ done[p] = Len(Statements(p))
    /\ Goto(p, "commit")
    /\ UNCHANGED <<dbVars, txnVars, command, target, done, info, boundVars,
                   historyVars>>

\* INSERT INTO or DELETE FROM versions; its result is not looked at.
Record(p) ==
    /\ pc[p] = "statements" /\ done[p] = Len(Statements(p))
    /\ Goto(p, "commit")
    /\ \/ /\ CanWrite(p)
          /\ lock' = p
          /\ draft' = [Sees(p) EXCEPT
                !.versions = IF command[p].kind = "rollback"
                             THEN @ \ {target[p]} ELSE @ \cup {target[p]}]
       \/ /\ ~CanWrite(p) /\ UNCHANGED <<lock, draft>>
    /\ UNCHANGED <<dbVars, stale, command, target, done, info, boundVars,
                   historyVars>>

\* Transactions that have read before p commits cannot write afterwards.
Overtaken(p) == {q \in Processes \ {p} : pc[q] = "statements" /\ done[q] > 0}

\* History: is a higher version applied, recorded or not?
BelowAnother(v) == \E w \in Version : w > v /\ (w \in versions \/ runs[w] > 0)

\* COMMIT, and RefreshColumnInfo; true even if nothing was recorded.
Commit(p) ==
    /\ pc[p] = "commit"
    /\ \/ /\ lock = p
          /\ schema' = draft.schema /\ versions' = draft.versions
          /\ stale' = (stale \cup Overtaken(p)) \ {p}
          /\ \/ /\ command[p].kind = "rollback"
                /\ runs' = [runs EXCEPT ![target[p]] = 0]
                /\ unordered' = (unordered \/ BelowAnother(target[p]))
                /\ undone' = undone \cup {target[p]}
                /\ undeleted' = (undeleted \ {target[p]})
                                 \cup ({target[p]} \cap draft.versions)
             \/ /\ command[p].kind # "rollback"
                /\ runs' = [runs EXCEPT ![target[p]] = @ + 1]
                /\ undeleted' = undeleted \ {target[p]}
                /\ UNCHANGED <<unordered, undone>>
       \/ /\ lock # p /\ stale' = stale \ {p}
          /\ UNCHANGED <<schema, versions, runs, unordered, undone, undeleted>>
    /\ Release(p)
    /\ info' = [info EXCEPT ![p] = schema'] /\ Return(p, TRUE)
    /\ UNCHANGED <<internal, command, boundVars, left_out>>

\* INSERT or DELETE fails for another reason: the effects of the statements
\* are left to COMMIT.
RecordFails(p) ==
    /\ pc[p] = "statements" /\ done[p] = Len(Statements(p)) /\ faults < MaxFaults
    /\ faults' = faults + 1 /\ Goto(p, "commit")
    /\ UNCHANGED <<dbVars, txnVars, command, target, done, info, commands, crashes,
                   historyVars>>

\* COMMIT throws and leaves the transaction open: ROLLBACK, and false.
CommitFails(p) ==
    /\ pc[p] = "commit" /\ lock = p /\ faults < MaxFaults
    /\ faults' = faults + 1
    /\ Release(p) /\ stale' = stale \ {p} /\ Return(p, FALSE)
    /\ UNCHANGED <<dbVars, command, info, commands, crashes, historyVars>>

\* The process ends, and SQLite undoes what it has not committed.
Exit(p) ==
    /\ Release(p) /\ stale' = stale \ {p} /\ Goto(p, "idle")
    /\ target' = [target EXCEPT ![p] = NoMigration]
    /\ done' = [done EXCEPT ![p] = 0]

\* A statement, the INSERT or COMMIT fails and SQLite ends the transaction: the
\* ROLLBACK of the catch clause throws in its turn, out of Initialize.
RollbackThrows(p) ==
    /\ pc[p] \in {"statements", "commit"} /\ faults < MaxFaults
    /\ faults' = faults + 1 /\ Exit(p)
    /\ UNCHANGED <<dbVars, command, info, commands, crashes, historyVars>>

\* The end of Initialize.
RefreshColumnInfo(p) ==
    /\ pc[p] = "refresh" /\ Goto(p, "running")
    /\ info' = [info EXCEPT ![p] = schema]
    /\ UNCHANGED <<dbVars, txnVars, command, target, done, boundVars, historyVars>>

\* A running server inserts logs: it holds the write lock for a while.
Insert(p) ==
    /\ pc[p] = "running" /\ lock = Free
    /\ lock' = p /\ draft' = [schema |-> schema, versions |-> versions]
    /\ Goto(p, "insert")
    /\ UNCHANGED <<dbVars, stale, command, target, done, info, boundVars,
                   historyVars>>

Inserted(p) ==
    /\ pc[p] = "insert" /\ Release(p) /\ stale' = stale \cup Overtaken(p)
    /\ Goto(p, "running")
    /\ UNCHANGED <<dbVars, command, target, done, info, boundVars, historyVars>>

\* A process is killed.
Crash(p) ==
    /\ pc[p] # "idle" /\ crashes < MaxCrashes
    /\ crashes' = crashes + 1 /\ Exit(p)
    /\ UNCHANGED <<dbVars, command, info, commands, faults, historyVars>>

-----------------------------------------------------------------------------

\* What a process does once it has been started.
Proceed(p) ==
    \/ CreateInternalTables(p) \/ ApplyPendingMigrations(p) \/ ApplyMigration(p)
    \/ ExecSql(p) \/ ExecSqlFails(p) \/ Record(p) \/ Commit(p)
    \/ RefreshColumnInfo(p) \/ Inserted(p)

Next ==
    \E p \in Processes :
        \/ \E c \in Commands : Start(p, c)
        \/ Decline(p) \/ Insert(p) \/ Crash(p) \/ Proceed(p)
        \/ RecordFails(p) \/ CommitFails(p) \/ RollbackThrows(p)

Spec == Init /\ [][Next]_vars

\* The operating system runs every process.
FairSpec == Spec /\ \A p \in Processes : WF_vars(Proceed(p))

-----------------------------------------------------------------------------
(* Properties *)

\* Types; the write lock is held only inside a transaction.
TypeOK ==
    /\ versions \subseteq Version /\ internal \in BOOLEAN
    /\ lock \in Processes \cup {Free} /\ stale \subseteq Processes
    /\ pc \in [Processes -> {"idle", "tables", "pending", "check", "statements",
                             "commit", "refresh", "running", "insert"}]
    /\ target \in [Processes -> Version \cup {NoMigration}]
    /\ lock # Free => pc[lock] \in {"statements", "commit", "insert"}

\* The table and the columns that the rollout of v leaves behind: the ones it
\* adds and does not drop afterwards.
Effect(v) ==
    LET rollout == Migration(v).rollout
        drops(j, i) == \/ rollout[j].op = "drop_table"
                       \/ rollout[j].op = "drop" /\ rollout[j].col = rollout[i].col
        last == {i \in DOMAIN rollout :
                    /\ rollout[i].op = "add"
                    /\ \A j \in DOMAIN rollout : j > i => ~drops(j, i)}
    IN  {Base} \cup {rollout[i].col : i \in last}

\* A version in the table versions has its columns in the schema, whatever
\* processes race and crash, until a version below another is rolled back
\* (rollback checks no order) or the DELETE of a rollback fails unnoticed; and
\* no half of a rollout is ever committed, recorded or not, whatever statement
\* fails or a crash falls between (a rollback may leave what its author leaves).
AllOrNothing ==
    /\ unordered \/ \A v \in versions \ undeleted : Effect(v) \subseteq schema
    /\ \A v \in Version \ undone : \/ Effect(v) \subseteq schema
                                   \/ (Effect(v) \ {Base}) \cap schema = {}

\* Without a rollback the recorded versions have no gap, although each process
\* decides by a list it has read before its transaction, unless the -v of a
\* migrate rollout has left out a version that was not recorded.
InOrder ==
    (undone = {} /\ ~left_out) =>
        \A v \in versions, w \in Version : w < v => w \in versions

\* A rollout is committed twice only if all its statements can be repeated:
\* the race is decided by the statements, not by the table versions.
OnlyRepeatableTwice ==
    unordered \/ \A v \in Version : runs[v] > 1 =>
        \A i \in DOMAIN Migration(v).rollout :
            Migration(v).rollout[i].op = "create"

\* Every started process comes to its end or runs as a server: the loop of
\* Initialize, which repeats as long as ApplyMigration reports success, ends,
\* unless again and again the version cannot be recorded because another process
\* writes: then nothing is committed, true is returned, and the loop repeats.
BootTerminates ==
    \A p \in Processes :
        \/ (pc[p] # "idle") ~> (pc[p] \in {"idle", "running"})
        \/ []<>(pc[p] = "commit" /\ ~CanWrite(p))

=============================================================================
