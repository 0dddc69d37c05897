---------------------------- MODULE MigrationsProofs ----------------------------
(***************************************************************************)
(* Proofs about the migrations, for any processes and commands: the write  *)
(* lock; without a rollback the recorded versions have no gap; and, when   *)
(* rollouts add and rollbacks drop, what is recorded is applied, wholly    *)
(* and once.                                                               *)
(***************************************************************************)
EXTENDS Migrations, TLAPS

-----------------------------------------------------------------------------
(* The inductive invariant *)

\* Between the choice of a version and the end of its transaction.
Applying == {"check", "statements", "commit"}

\* Types; a process in a transaction has a version, and holds the write lock
\* only after a statement: the prompt of a rollback is answered without it.
TypeInv ==
    /\ TypeOK
    /\ command \in [Processes -> Commands \cup {NoCommand}]
    /\ done \in [Processes -> Nat]
    /\ draft = [schema |-> draft.schema, versions |-> draft.versions]
    /\ draft.versions \subseteq Version
    /\ \A p \in Processes : pc[p] \in Applying => target[p] \in Version
    /\ \A p \in Processes : lock = p /\ pc[p] = "statements" => done[p] > 0

\* What the holder of the lock will commit to the table versions: its version
\* entered or deleted, or nothing if that statement has failed.
DraftInv ==
    \A p \in Processes : lock = p =>
        /\ pc[p] = "statements" => draft.versions = versions
        /\ pc[p] = "commit" =>
              \/ draft.versions = versions
              \/ draft.versions = IF command[p].kind = "rollback"
                                  THEN versions \ {target[p]}
                                  ELSE versions \cup {target[p]}

\* Everything below v is recorded.
Below(v) == \A w \in Version : w < v => w \in versions

\* Without a rollback, and as long as no -v leaves out a version, none is chosen
\* and none recorded above one that is not recorded.
OrderInv ==
    (~left_out /\ undone = {}) =>
        /\ \A v \in versions : Below(v)
        /\ \A p \in Processes :
              (pc[p] \in Applying /\ command[p].kind # "rollback") => Below(target[p])

Inv == TypeInv /\ DraftInv /\ OrderInv

-----------------------------------------------------------------------------
(* Types and the write lock *)

\* How the loop of Initialize or the process goes on after Return: outside a
\* transaction, without a version.
LEMMA ReturnType ==
    ASSUME TypeInv, NEW p \in Processes, NEW ok, Return(p, ok),
           lock' \in {lock, Free}, lock' # p,
           draft' \in {draft, [schema |-> {}, versions |-> {}]},
           UNCHANGED <<internal, command>>,
           versions' \subseteq Version, stale' \subseteq Processes
    PROVE  TypeInv'
  <1> USE MigrationsAssumption DEF TypeInv, TypeOK
  <1>1. PICK l \in {"pending", "refresh", "idle"} : pc' = [pc EXCEPT ![p] = l]
    BY DEF Return, Goto
  <1>2. /\ target' = [target EXCEPT ![p] = NoMigration]
        /\ done' = [done EXCEPT ![p] = 0]
    BY DEF Return
  <1>3. \A q \in Processes \ {p} : /\ pc'[q] = pc[q] /\ target'[q] = target[q]
                                   /\ done'[q] = done[q]
    BY <1>1, <1>2
  <1>4. pc'[p] = l
    BY <1>1
  <1>5. TypeOK'
    BY <1>1, <1>2, <1>3
  <1>6. command' \in [Processes -> Commands \cup {NoCommand}] /\ done' \in [Processes -> Nat]
    BY <1>2
  <1>7. /\ draft' = [schema |-> draft'.schema, versions |-> draft'.versions]
        /\ draft'.versions \subseteq Version
    <2>1. CASE draft' = draft
      BY <2>1
    <2>2. CASE draft' = [schema |-> {}, versions |-> {}]
      BY <2>2
    <2> QED BY <2>1, <2>2
  <1>8. ASSUME NEW q \in Processes PROVE pc'[q] \in Applying => target'[q] \in Version
    BY <1>3, <1>4 DEF Applying
  <1>9. ASSUME NEW q \in Processes
        PROVE  lock' = q /\ pc'[q] = "statements" => done'[q] > 0
    BY <1>3, <1>4
  <1> QED BY <1>5, <1>6, <1>7, <1>8, <1>9

\* Release leaves the lock with another process or free, and an empty draft.
LEMMA ReleaseOf ==
    ASSUME TypeInv, NEW p \in Processes, Release(p)
    PROVE  /\ lock' \in {lock, Free} /\ lock' # p
           /\ draft' \in {draft, [schema |-> {}, versions |-> {}]}
  BY MigrationsAssumption DEF Release, TypeInv, TypeOK

\* Start of a process.
LEMMA TypeStart ==
    ASSUME TypeInv, NEW p \in Processes, NEW c \in Commands, Start(p, c)
    PROVE  TypeInv'
  <1> USE MigrationsAssumption DEF TypeInv, TypeOK, Start, Goto, dbVars, txnVars
  <1>1. \A q \in Processes : pc'[q] = IF q = p THEN "tables" ELSE pc[q]
    OBVIOUS
  <1>2. TypeOK'
    BY <1>1
  <1>3. command' \in [Processes -> Commands \cup {NoCommand}]
    OBVIOUS
  <1> QED BY <1>1, <1>2, <1>3 DEF Applying

\* The commands' shapes, which the provers need one at a time.
LEMMA CommandKinds ==
    ASSUME NEW c \in Commands \cup {NoCommand}
    PROVE  /\ c.kind \in {"serve", "rollout", "rollback", "none"}
           /\ c.kind = "rollback" => c.version \in Version
           /\ c.kind = "rollout" => c.start_version \in StartVersions
  BY DEF Commands, NoCommand

\* The internal tables exist, or the process ends.
LEMMA TypeCreateInternalTables ==
    ASSUME TypeInv, NEW p \in Processes, CreateInternalTables(p)
    PROVE  TypeInv'
  <1> USE MigrationsAssumption DEF TypeInv, TypeOK
  <1>1. /\ pc[p] = "tables" /\ internal' \in BOOLEAN
        /\ UNCHANGED <<schema, versions, lock, draft, stale, command, done>>
    BY DEF CreateInternalTables, txnVars
  <1>2. PICK l \in {"statements", "pending", "refresh", "idle"} :
            /\ pc' = [pc EXCEPT ![p] = l]
            /\ \/ /\ l = "statements"
                  /\ command[p].kind = "rollback"
                  /\ target' = [target EXCEPT ![p] = command[p].version]
               \/ l # "statements" /\ target' = target
    <2>1. CASE internal' = TRUE /\ command[p].kind = "rollback"
      BY <2>1 DEF CreateInternalTables, Goto
    <2>2. CASE internal' = TRUE /\ command[p].kind = "rollout"
      BY <2>2 DEF CreateInternalTables, Goto
    <2>3. CASE internal' = TRUE /\ command[p].kind = "serve"
      BY <2>3 DEF CreateInternalTables, Goto
    <2>4. CASE ~internal /\ internal' = internal
      BY <2>4 DEF CreateInternalTables, Goto
    <2> QED BY <2>1, <2>2, <2>3, <2>4 DEF CreateInternalTables
  <1>3. l = "statements" => command[p].version \in Version
    BY <1>2, CommandKinds
  <1>4. \A q \in Processes \ {p} : pc'[q] = pc[q] /\ target'[q] = target[q]
    BY <1>2
  <1>5. pc'[p] = l /\ (l = "statements" => target'[p] \in Version)
    BY <1>2, <1>3
  <1>6. lock # p
    BY <1>1
  <1>7. /\ pc' \in [Processes -> {"idle", "tables", "pending", "check", "statements",
                             "commit", "refresh", "running", "insert"}]
        /\ target' \in [Processes -> Version \cup {NoMigration}]
    BY <1>2, <1>3
  <1>8. TypeOK'
    BY <1>1, <1>4, <1>6, <1>7
  <1>9. ASSUME NEW q \in Processes PROVE pc'[q] \in Applying => target'[q] \in Version
    BY <1>4, <1>5 DEF Applying
  <1> QED BY <1>1, <1>4, <1>6, <1>8, <1>9

\* A version is chosen, or none is pending.
LEMMA TypeApplyPendingMigrations ==
    ASSUME TypeInv, NEW p \in Processes, ApplyPendingMigrations(p)
    PROVE  TypeInv'
  <1> USE MigrationsAssumption DEF TypeInv, TypeOK
  <1>1. /\ pc[p] = "pending"
        /\ UNCHANGED <<internal, versions, lock, draft, stale, command>>
    BY DEF ApplyPendingMigrations, dbVars, txnVars
  <1>2. CASE Return(p, FALSE)
    BY <1>1, <1>2, ReturnType
  <1>3. CASE \E v \in Pending(p) : /\ target' = [target EXCEPT ![p] = v]
                                   /\ Goto(p, "check") /\ UNCHANGED done
    <2>1. PICK v \in Version : /\ target' = [target EXCEPT ![p] = v]
                               /\ pc' = [pc EXCEPT ![p] = "check"] /\ UNCHANGED done
      BY <1>3 DEF Pending, Goto
    <2>2. \A q \in Processes \ {p} : pc'[q] = pc[q] /\ target'[q] = target[q]
      BY <2>1
    <2>3. pc'[p] = "check" /\ target'[p] \in Version
      BY <2>1
    <2>4. TypeOK'
      BY <1>1, <2>1, <2>2
    <2>5. ASSUME NEW q \in Processes PROVE pc'[q] \in Applying => target'[q] \in Version
      BY <2>2, <2>3
    <2>6. ASSUME NEW q \in Processes
          PROVE  lock' = q /\ pc'[q] = "statements" => done'[q] > 0
      BY <1>1, <2>1, <2>2, <2>3
    <2> QED BY <1>1, <2>1, <2>4, <2>5, <2>6
  <1> QED BY <1>2, <1>3 DEF ApplyPendingMigrations

\* The second look at the table versions.
LEMMA TypeApplyMigration ==
    ASSUME TypeInv, NEW p \in Processes, ApplyMigration(p)
    PROVE  TypeInv'
  <1> USE MigrationsAssumption DEF TypeInv, TypeOK
  <1>1. /\ pc[p] = "check"
        /\ UNCHANGED <<internal, versions, lock, draft, stale, command>>
    BY DEF ApplyMigration, dbVars, txnVars
  <1>2. CASE Return(p, TRUE)
    BY <1>1, <1>2, ReturnType
  <1>3. CASE Goto(p, "statements") /\ UNCHANGED <<target, done>>
    <2>1. \A q \in Processes : pc'[q] = IF q = p THEN "statements" ELSE pc[q]
      BY <1>3 DEF Goto
    <2>2. TypeOK'
      BY <1>1, <1>3, <2>1 DEF Goto
    <2> QED BY <1>1, <1>3, <2>1, <2>2 DEF Applying
  <1> QED BY <1>2, <1>3 DEF ApplyMigration

\* A statement succeeds.
LEMMA TypeExecSql ==
    ASSUME TypeInv, NEW p \in Processes, ExecSql(p)
    PROVE  TypeInv'
  <1> USE MigrationsAssumption DEF TypeInv, TypeOK
  <1>1. /\ pc[p] = "statements" /\ done' = [done EXCEPT ![p] = @ + 1]
        /\ UNCHANGED <<internal, versions, stale, pc, command, target>>
    BY DEF ExecSql, InTransaction, dbVars
  <1>2. /\ lock' \in {lock, p}
        /\ draft' = draft \/ \E s : draft' = [schema |-> s, versions |-> Sees(p).versions]
    <2> HIDE DEF TypeInv, TypeOK
    <2>1. CASE UNCHANGED <<lock, draft>>
      BY <2>1
    <2>2. CASE lock' = p /\ draft' = [Sees(p) EXCEPT !.schema = Executed(Statement(p), @)]
      <3>1. Sees(p) = [schema |-> Sees(p).schema, versions |-> Sees(p).versions]
        BY DEF Sees, TypeInv
      <3>2. draft' = [schema |-> Executed(Statement(p), Sees(p).schema),
                      versions |-> Sees(p).versions]
        BY <2>2, <3>1
      <3> QED BY <2>2, <3>2
    <2> QED BY <2>1, <2>2 DEF ExecSql
  <1>3. Sees(p).versions \subseteq Version
    BY DEF Sees
  <1>4. TypeOK'
    BY <1>1, <1>2
  <1>5. done' \in [Processes -> Nat]
    BY <1>1
  <1>6. /\ draft' = [schema |-> draft'.schema, versions |-> draft'.versions]
        /\ draft'.versions \subseteq Version
    BY <1>2, <1>3
  <1>7. ASSUME NEW q \in Processes
        PROVE  lock' = q /\ pc'[q] = "statements" => done'[q] > 0
    BY <1>1, <1>2
  <1> QED BY <1>1, <1>4, <1>5, <1>6, <1>7

\* A statement or COMMIT throws.
LEMMA TypeExecSqlFails ==
    ASSUME TypeInv, NEW p \in Processes, ExecSqlFails(p) \/ CommitFails(p)
    PROVE  TypeInv'
  <1>1. /\ Release(p) /\ Return(p, FALSE) /\ stale' = stale \ {p}
        /\ UNCHANGED <<internal, versions, command>>
    BY DEF ExecSqlFails, CommitFails, dbVars
  <1>2. versions' \subseteq Version /\ stale' \subseteq Processes
    BY <1>1 DEF TypeInv, TypeOK
  <1>3. /\ lock' \in {lock, Free} /\ lock' # p
        /\ draft' \in {draft, [schema |-> {}, versions |-> {}]}
    BY <1>1, ReleaseOf
  <1> QED BY <1>1, <1>2, <1>3, ReturnType

\* What Record does to the lock and to the draft.
LEMMA RecordDraft ==
    ASSUME TypeInv, NEW p \in Processes, Record(p)
    PROVE  \/ ~CanWrite(p) /\ UNCHANGED <<lock, draft>>
           \/ /\ CanWrite(p) /\ lock' = p
              /\ draft' = [schema |-> Sees(p).schema,
                           versions |-> IF command[p].kind = "rollback"
                                        THEN Sees(p).versions \ {target[p]}
                                        ELSE Sees(p).versions \cup {target[p]}]
  <1>1. Sees(p) = [schema |-> Sees(p).schema, versions |-> Sees(p).versions]
    BY DEF Sees, TypeInv
  <1>2. CASE ~CanWrite(p)
    BY <1>2 DEF Record
  <1>3. CASE CanWrite(p)
    <2>1. /\ lock' = p
          /\ draft' = [Sees(p) EXCEPT
                !.versions = IF command[p].kind = "rollback"
                             THEN @ \ {target[p]} ELSE @ \cup {target[p]}]
      BY <1>3 DEF Record
    <2> QED BY <1>1, <1>3, <2>1
  <1> QED BY <1>2, <1>3

\* The version is entered or deleted, or the table cannot be written.
LEMMA TypeRecord ==
    ASSUME TypeInv, NEW p \in Processes, Record(p) \/ RecordFails(p)
    PROVE  TypeInv'
  <1> USE MigrationsAssumption DEF TypeInv, TypeOK
  <1>1. /\ pc[p] = "statements" /\ pc' = [pc EXCEPT ![p] = "commit"]
        /\ UNCHANGED <<internal, versions, stale, command, target, done>>
    BY DEF Record, RecordFails, dbVars, txnVars, Goto
  <1>2. \A q \in Processes : pc'[q] = IF q = p THEN "commit" ELSE pc[q]
    BY <1>1
  <1>3. target[p] \in Version
    BY <1>1 DEF Applying
  <1>4. Sees(p).versions \subseteq Version
    BY DEF Sees
  <1>5. /\ lock' \in {lock, p}
        /\ draft' = [schema |-> draft'.schema, versions |-> draft'.versions]
        /\ draft'.versions \subseteq Version
    <2>1. CASE Record(p)
      BY <1>3, <1>4, <2>1, RecordDraft
    <2>2. CASE RecordFails(p)
      BY <2>2 DEF RecordFails, txnVars
    <2> QED BY <2>1, <2>2
  <1>6. TypeOK'
    BY <1>1, <1>2, <1>5
  <1>7. ASSUME NEW q \in Processes PROVE pc'[q] \in Applying => target'[q] \in Version
    BY <1>1, <1>2, <1>3
  <1>8. ASSUME NEW q \in Processes
        PROVE  lock' = q /\ pc'[q] = "statements" => done'[q] > 0
    BY <1>1, <1>2, <1>5
  <1> QED BY <1>1, <1>5, <1>6, <1>7, <1>8

\* The end of a transaction.
LEMMA TypeCommit ==
    ASSUME TypeInv, NEW p \in Processes, Commit(p)
    PROVE  TypeInv'
  <1>1. /\ Release(p) /\ Return(p, TRUE) /\ UNCHANGED <<internal, command>>
    BY DEF Commit
  <1>2. versions' \subseteq Version /\ stale' \subseteq Processes
    BY DEF Commit, TypeInv, TypeOK, Overtaken, historyVars
  <1>3. /\ lock' \in {lock, Free} /\ lock' # p
        /\ draft' \in {draft, [schema |-> {}, versions |-> {}]}
    BY <1>1, ReleaseOf
  <1> QED BY <1>1, <1>2, <1>3, ReturnType

\* The prompt is answered with no: before the first statement there is no lock.
LEMMA TypeDecline ==
    ASSUME TypeInv, NEW p \in Processes, Decline(p)
    PROVE  TypeInv'
  <1>1. /\ pc[p] = "statements" /\ done[p] = 0 /\ Return(p, FALSE)
        /\ UNCHANGED <<internal, versions, lock, draft, stale, command>>
    BY DEF Decline, dbVars, txnVars
  <1>2. lock # p
    BY <1>1 DEF TypeInv
  <1> QED BY <1>1, <1>2, ReturnType DEF TypeInv, TypeOK

\* A running server, and the end of its start.
LEMMA TypeServer ==
    ASSUME TypeInv, NEW p \in Processes,
           RefreshColumnInfo(p) \/ Insert(p) \/ Inserted(p)
    PROVE  TypeInv'
  <1> USE MigrationsAssumption DEF TypeInv, TypeOK
  <1>1. CASE RefreshColumnInfo(p)
    <2>1. /\ pc[p] = "refresh" /\ pc' = [pc EXCEPT ![p] = "running"]
          /\ UNCHANGED <<internal, versions, lock, draft, stale, command, target, done>>
      BY <1>1 DEF RefreshColumnInfo, Goto, dbVars, txnVars
    <2>2. \A q \in Processes : pc'[q] = IF q = p THEN "running" ELSE pc[q]
      BY <2>1
    <2>3. TypeOK'
      BY <2>1, <2>2
    <2> QED BY <2>1, <2>2, <2>3 DEF Applying
  <1>2. CASE Insert(p)
    <2>1. /\ pc[p] = "running" /\ pc' = [pc EXCEPT ![p] = "insert"] /\ lock' = p
          /\ draft' = [schema |-> schema, versions |-> versions]
          /\ UNCHANGED <<internal, versions, stale, command, target, done>>
      BY <1>2 DEF Insert, Goto, dbVars
    <2>2. \A q \in Processes : pc'[q] = IF q = p THEN "insert" ELSE pc[q]
      BY <2>1
    <2>3. TypeOK'
      BY <2>1, <2>2
    <2> QED BY <2>1, <2>2, <2>3 DEF Applying
  <1>3. CASE Inserted(p)
    <2>1. /\ pc[p] = "insert" /\ pc' = [pc EXCEPT ![p] = "running"] /\ Release(p)
          /\ stale' = stale \cup Overtaken(p)
          /\ UNCHANGED <<internal, versions, command, target, done>>
      BY <1>3 DEF Inserted, Goto, dbVars
    <2>2. /\ lock' \in {lock, Free} /\ lock' # p
          /\ draft' \in {draft, [schema |-> {}, versions |-> {}]}
      BY <2>1, ReleaseOf
    <2>3. \A q \in Processes : pc'[q] = IF q = p THEN "running" ELSE pc[q]
      BY <2>1
    <2>4. TypeOK'
      BY <2>1, <2>2, <2>3 DEF Overtaken
    <2>5. /\ draft' = [schema |-> draft'.schema, versions |-> draft'.versions]
          /\ draft'.versions \subseteq Version
      BY <2>2
    <2> QED BY <2>1, <2>2, <2>3, <2>4, <2>5 DEF Applying
  <1> QED BY <1>1, <1>2, <1>3

\* A process is killed, or an exception leaves Initialize.
LEMMA TypeCrash ==
    ASSUME TypeInv, NEW p \in Processes, Crash(p) \/ RollbackThrows(p)
    PROVE  TypeInv'
  <1> USE MigrationsAssumption DEF TypeInv, TypeOK
  <1>1. /\ Release(p) /\ stale' = stale \ {p} /\ pc' = [pc EXCEPT ![p] = "idle"]
        /\ target' = [target EXCEPT ![p] = NoMigration]
        /\ done' = [done EXCEPT ![p] = 0]
        /\ UNCHANGED <<internal, versions, command>>
    BY DEF Crash, RollbackThrows, Exit, Goto, dbVars
  <1>2. /\ lock' \in {lock, Free} /\ lock' # p
        /\ draft' \in {draft, [schema |-> {}, versions |-> {}]}
    BY <1>1, ReleaseOf
  <1>3. \A q \in Processes \ {p} : /\ pc'[q] = pc[q] /\ target'[q] = target[q]
                                   /\ done'[q] = done[q]
    BY <1>1
  <1>4. pc'[p] = "idle"
    BY <1>1
  <1>5. TypeOK'
    BY <1>1, <1>2, <1>3
  <1>6. /\ draft' = [schema |-> draft'.schema, versions |-> draft'.versions]
        /\ draft'.versions \subseteq Version
    BY <1>2
  <1>7. done' \in [Processes -> Nat]
    BY <1>1
  <1>8. ASSUME NEW q \in Processes PROVE pc'[q] \in Applying => target'[q] \in Version
    BY <1>3, <1>4 DEF Applying
  <1>9. ASSUME NEW q \in Processes
        PROVE  lock' = q /\ pc'[q] = "statements" => done'[q] > 0
    BY <1>2, <1>3
  <1> QED BY <1>1, <1>5, <1>6, <1>7, <1>8, <1>9

\* Every step keeps the types.
LEMMA TypeNext == TypeInv /\ [Next]_vars => TypeInv'
  <1> SUFFICES ASSUME TypeInv, [Next]_vars PROVE TypeInv'
    OBVIOUS
  <1>1. CASE UNCHANGED vars
    BY <1>1 DEF TypeInv, TypeOK, Applying, vars, dbVars, txnVars, procVars
  <1>2. ASSUME NEW p \in Processes, NEW c \in Commands, Start(p, c) PROVE TypeInv'
    BY <1>2, TypeStart
  <1>3. ASSUME NEW p \in Processes, \/ Decline(p) \/ Insert(p) \/ Crash(p)
                                   \/ RecordFails(p) \/ CommitFails(p) \/ RollbackThrows(p)
        PROVE  TypeInv'
    BY <1>3, TypeDecline, TypeServer, TypeCrash, TypeRecord, TypeExecSqlFails
  <1>4. ASSUME NEW p \in Processes, Proceed(p) PROVE TypeInv'
    BY <1>4, TypeCreateInternalTables, TypeApplyPendingMigrations,
       TypeApplyMigration, TypeExecSql, TypeExecSqlFails, TypeRecord,
       TypeCommit, TypeServer DEF Proceed
  <1> QED BY <1>1, <1>2, <1>3, <1>4 DEF Next

\* An empty database without processes.
LEMMA TypeInit == Init => TypeInv
  <1> SUFFICES ASSUME Init PROVE TypeInv
    OBVIOUS
  <1> USE MigrationsAssumption DEF Init
  <1>1. TypeOK
    BY DEF TypeOK
  <1>2. command \in [Processes -> Commands \cup {NoCommand}] /\ done \in [Processes -> Nat]
    OBVIOUS
  <1>3. draft.versions = {} /\ draft = [schema |-> draft.schema, versions |-> draft.versions]
    OBVIOUS
  <1>4. lock \notin Processes /\ \A p \in Processes : pc[p] = "idle"
    OBVIOUS
  <1> QED BY <1>1, <1>2, <1>3, <1>4 DEF TypeInv, Applying

\* TypeOK: whatever processes race and crash, the write lock is held only
\* inside a transaction, never by a process that has left ApplyMigration,
\* RollbackMigration or an insert.
THEOREM TypeCorrect == Spec => []TypeOK
  <1>1. TypeInv => TypeOK
    BY DEF TypeInv
  <1> QED BY <1>1, TypeInit, TypeNext, PTL DEF Spec

-----------------------------------------------------------------------------
(* The order of the versions *)

\* A process that leaves the transaction, or stays outside, and releases the
\* lock if it has it, disturbs neither the draft nor the order.
LEMMA Leaves ==
    ASSUME Inv, NEW p \in Processes, pc'[p] \notin Applying,
           \A q \in Processes \ {p} : /\ pc'[q] = pc[q] /\ target'[q] = target[q]
                                      /\ command'[q] = command[q],
           \A q \in Processes \ {p} : lock' = q => lock = q /\ draft' = draft,
           UNCHANGED <<versions, undone, left_out>>
    PROVE  DraftInv' /\ OrderInv'
  <1>1. DraftInv'
    BY DEF Inv, DraftInv, Applying
  <1>2. OrderInv'
    BY DEF Inv, OrderInv, Below
  <1> QED BY <1>1, <1>2

\* What Return leaves of the other processes.
LEMMA ReturnLeaves ==
    ASSUME TypeInv, NEW p \in Processes, NEW ok, Return(p, ok), UNCHANGED command
    PROVE  /\ pc'[p] \notin Applying
           /\ \A q \in Processes \ {p} : /\ pc'[q] = pc[q] /\ target'[q] = target[q]
                                         /\ command'[q] = command[q]
  <1>1. PICK l \in {"pending", "refresh", "idle"} : pc' = [pc EXCEPT ![p] = l]
    BY DEF Return, Goto
  <1>2. target' = [target EXCEPT ![p] = NoMigration]
    BY DEF Return
  <1> QED BY <1>1, <1>2 DEF TypeInv, TypeOK, Applying

\* Release leaves the draft of another holder.
LEMMA ReleaseLeaves ==
    ASSUME TypeInv, NEW p \in Processes, Release(p)
    PROVE  \A q \in Processes \ {p} : lock' = q => lock = q /\ draft' = draft
  BY MigrationsAssumption DEF Release, TypeInv, TypeOK

\* Start and the creation of the tables: only a rollback has its version then.
LEMMA OrderBegin ==
    ASSUME Inv, NEW p \in Processes,
           (\E c \in Commands : Start(p, c)) \/ CreateInternalTables(p)
    PROVE  DraftInv' /\ OrderInv'
  <1> USE MigrationsAssumption DEF Inv, TypeInv, TypeOK
  <1>1. CASE \E c \in Commands : Start(p, c)
    <2>1. PICK c \in Commands : Start(p, c)
      BY <1>1
    <2>2. /\ command' = [command EXCEPT ![p] = c] /\ pc' = [pc EXCEPT ![p] = "tables"]
          /\ UNCHANGED <<versions, undone, left_out, lock, draft, target>>
      BY <2>1 DEF Start, Goto, dbVars, txnVars, historyVars
    <2>3. pc'[p] \notin Applying
      BY <2>2 DEF Applying
    <2>4. \A q \in Processes \ {p} : /\ pc'[q] = pc[q] /\ target'[q] = target[q]
                                     /\ command'[q] = command[q]
      BY <2>2
    <2> HIDE DEF Inv
    <2> QED BY <2>2, <2>3, <2>4, Leaves
  <1>2. CASE CreateInternalTables(p)
    <2>1. /\ pc[p] = "tables"
          /\ UNCHANGED <<versions, undone, left_out, lock, draft, command>>
      BY <1>2 DEF CreateInternalTables, txnVars, historyVars
    <2>2. /\ \A q \in Processes \ {p} : pc'[q] = pc[q] /\ target'[q] = target[q]
          /\ pc'[p] \in Applying => command[p].kind = "rollback"
      <3>1. CASE internal' = TRUE /\ command[p].kind = "rollback"
        BY <1>2, <3>1 DEF CreateInternalTables, Goto
      <3>2. CASE internal' = TRUE /\ command[p].kind = "rollout"
        BY <1>2, <3>2 DEF CreateInternalTables, Goto, Applying
      <3>3. CASE internal' = TRUE /\ command[p].kind = "serve"
        BY <1>2, <3>3 DEF CreateInternalTables, Goto, Applying
      <3>4. CASE ~internal /\ internal' = internal
        BY <1>2, <3>4 DEF CreateInternalTables, Goto, Applying
      <3> QED BY <1>2, <3>1, <3>2, <3>3, <3>4 DEF CreateInternalTables
    <2>3. lock # p
      BY <2>1
    <2>4. DraftInv'
      BY <2>1, <2>2, <2>3 DEF DraftInv
    <2>5. OrderInv'
      BY <2>1, <2>2 DEF OrderInv, Below
    <2> QED BY <2>4, <2>5
  <1> QED BY <1>1, <1>2

\* The least pending version is above recorded ones only: the list a process
\* decides by is the list of the versions that are not recorded, unless its -v
\* leaves some out.
LEMMA LeastPending ==
    ASSUME TypeInv, NEW p \in Processes, ~LeavesOut(p), NEW v \in Pending(p),
           \A w \in Pending(p) : v <= w
    PROVE  Below(v)
  <1> SUFFICES ASSUME NEW w \in Version, w < v, w \notin versions PROVE FALSE
    BY DEF Below
  <1>1. v \in Nat /\ w \in Nat
    BY MigrationsAssumption DEF Pending
  <1>2. command[p].kind = "rollout" => w > command[p].start_version
    <2> SUFFICES ASSUME command[p].kind = "rollout" PROVE w > command[p].start_version
      OBVIOUS
    <2>1. command[p].start_version \in Nat
      BY CommandKinds, MigrationsAssumption DEF TypeInv
    <2>2. ~(w <= command[p].start_version)
      BY DEF LeavesOut
    <2> QED BY <1>1, <2>1, <2>2
  <1>3. w \in Pending(p)
    BY <1>2 DEF Pending
  <1> QED BY <1>1, <1>3

\* A version is chosen.
LEMMA OrderApplyPendingMigrations ==
    ASSUME Inv, NEW p \in Processes, ApplyPendingMigrations(p)
    PROVE  DraftInv' /\ OrderInv'
  <1> USE MigrationsAssumption DEF Inv, TypeInv, TypeOK
  <1>1. /\ pc[p] = "pending"
        /\ UNCHANGED <<versions, undone, lock, draft, command>>
    BY DEF ApplyPendingMigrations, dbVars, txnVars
  <1>2. CASE Return(p, FALSE) /\ UNCHANGED left_out
    <2> HIDE DEF TypeInv, TypeOK
    <2>1. /\ pc'[p] \notin Applying
          /\ \A q \in Processes \ {p} : /\ pc'[q] = pc[q] /\ target'[q] = target[q]
                                        /\ command'[q] = command[q]
      BY <1>1, <1>2, ReturnLeaves
    <2> HIDE DEF Inv
    <2> QED BY <1>1, <1>2, <2>1, Leaves
  <1>3. CASE \E v \in Pending(p) : /\ \A w \in Pending(p) : v <= w
                                   /\ target' = [target EXCEPT ![p] = v]
                                   /\ Goto(p, "check")
                                   /\ left_out' = (left_out \/ LeavesOut(p))
    <2>1. PICK v \in Pending(p) : /\ \A w \in Pending(p) : v <= w
                                  /\ target' = [target EXCEPT ![p] = v]
                                  /\ pc' = [pc EXCEPT ![p] = "check"]
      BY <1>3 DEF Goto
    <2>2. ~left_out' => ~left_out /\ Below(v)
      <3> HIDE DEF TypeInv
      <3>1. ~left_out' => ~left_out /\ ~LeavesOut(p)
        BY <1>3
      <3> QED BY <2>1, <3>1, LeastPending
    <2>3. \A q \in Processes \ {p} : pc'[q] = pc[q] /\ target'[q] = target[q]
      BY <2>1
    <2>4. pc'[p] = "check" /\ target'[p] = v
      BY <2>1
    <2>5. DraftInv'
      BY <1>1, <2>3, <2>4 DEF DraftInv
    <2>6. OrderInv'
      BY <1>1, <2>2, <2>3, <2>4 DEF OrderInv, Below
    <2> QED BY <2>5, <2>6
  <1> QED BY <1>2, <1>3 DEF ApplyPendingMigrations

\* The version is applied already, or its transaction begins.
LEMMA OrderApplyMigration ==
    ASSUME Inv, NEW p \in Processes, ApplyMigration(p)
    PROVE  DraftInv' /\ OrderInv'
  <1>1. /\ pc[p] = "check"
        /\ UNCHANGED <<versions, undone, left_out, lock, draft, command>>
    BY DEF ApplyMigration, dbVars, txnVars, historyVars
  <1>2. CASE Return(p, TRUE)
    <2>1. /\ pc'[p] \notin Applying
          /\ \A q \in Processes \ {p} : /\ pc'[q] = pc[q] /\ target'[q] = target[q]
                                        /\ command'[q] = command[q]
      BY <1>1, <1>2, ReturnLeaves DEF Inv
    <2> QED BY <1>1, <2>1, Leaves
  <1>3. CASE Goto(p, "statements") /\ UNCHANGED <<target, done>>
    <2>1. \A q \in Processes : pc'[q] = IF q = p THEN "statements" ELSE pc[q]
      BY <1>3 DEF Goto, Inv, TypeInv, TypeOK
    <2>2. lock # p
      BY <1>1, MigrationsAssumption DEF Inv, TypeInv, TypeOK
    <2>3. DraftInv'
      BY <1>1, <1>3, <2>1, <2>2 DEF Inv, DraftInv
    <2>4. OrderInv'
      BY <1>1, <1>3, <2>1 DEF Inv, OrderInv, Below, Applying
    <2> QED BY <2>3, <2>4
  <1> QED BY <1>2, <1>3 DEF ApplyMigration

\* A statement leaves the table versions as the process sees it.
LEMMA OrderExecSql ==
    ASSUME Inv, NEW p \in Processes, ExecSql(p)
    PROVE  DraftInv' /\ OrderInv'
  <1>1. /\ pc[p] = "statements" /\ UNCHANGED <<versions, undone, left_out, pc, command, target>>
    BY DEF ExecSql, InTransaction, dbVars, historyVars
  <1>2. \/ UNCHANGED <<lock, draft>>
        \/ lock' = p /\ draft'.versions = Sees(p).versions
    <2>1. Sees(p) = [schema |-> Sees(p).schema, versions |-> Sees(p).versions]
      BY DEF Sees, Inv, TypeInv
    <2>2. CASE lock' = p /\ draft' = [Sees(p) EXCEPT !.schema = Executed(Statement(p), @)]
      BY <2>1, <2>2
    <2> QED BY <2>2 DEF ExecSql
  <1>3. Sees(p).versions = versions
    BY <1>1 DEF Sees, Inv, DraftInv
  <1>4. DraftInv'
    BY <1>1, <1>2, <1>3 DEF Inv, DraftInv
  <1>5. OrderInv'
    BY <1>1 DEF Inv, OrderInv, Below
  <1> QED BY <1>4, <1>5

\* The version enters the draft, or the draft stays as it is.
LEMMA OrderRecord ==
    ASSUME Inv, NEW p \in Processes, Record(p) \/ RecordFails(p)
    PROVE  DraftInv' /\ OrderInv'
  <1> USE MigrationsAssumption DEF Inv, TypeInv, TypeOK
  <1>1. /\ pc[p] = "statements" /\ pc' = [pc EXCEPT ![p] = "commit"]
        /\ UNCHANGED <<versions, undone, left_out, command, target>>
    BY DEF Record, RecordFails, dbVars, historyVars, Goto
  <1>2. \A q \in Processes : pc'[q] = IF q = p THEN "commit" ELSE pc[q]
    BY <1>1
  <1>3. Sees(p).versions = versions
    BY <1>1 DEF Sees, DraftInv
  <1>4. \/ UNCHANGED <<lock, draft>>
        \/ /\ lock' = p
           /\ draft'.versions = IF command[p].kind = "rollback"
                                THEN versions \ {target[p]}
                                ELSE versions \cup {target[p]}
    <2> HIDE DEF TypeInv, TypeOK
    <2>1. CASE Record(p) /\ ~CanWrite(p)
      BY <2>1, RecordDraft
    <2>2. CASE Record(p) /\ CanWrite(p)
      <3>1. /\ lock' = p
            /\ draft' = [schema |-> Sees(p).schema,
                         versions |-> IF command[p].kind = "rollback"
                                      THEN Sees(p).versions \ {target[p]}
                                      ELSE Sees(p).versions \cup {target[p]}]
        BY <2>2, RecordDraft
      <3> QED BY <1>3, <3>1
    <2>3. CASE RecordFails(p)
      BY <2>3 DEF RecordFails, txnVars
    <2> QED BY <2>1, <2>2, <2>3
  <1>5. DraftInv'
    BY <1>1, <1>2, <1>4 DEF DraftInv
  <1>6. OrderInv'
    BY <1>1, <1>2 DEF OrderInv, Below, Applying
  <1> QED BY <1>5, <1>6

\* COMMIT: a rollout adds at most its version to the recorded ones, above no gap.
LEMMA OrderCommit ==
    ASSUME Inv, NEW p \in Processes, Commit(p)
    PROVE  DraftInv' /\ OrderInv'
  <1>1. /\ pc[p] = "commit" /\ Release(p) /\ Return(p, TRUE) /\ UNCHANGED command
    BY DEF Commit
  <1>2. /\ pc'[p] \notin Applying
        /\ \A q \in Processes \ {p} : /\ pc'[q] = pc[q] /\ target'[q] = target[q]
                                      /\ command'[q] = command[q]
    BY <1>1, ReturnLeaves DEF Inv
  <1>3. CASE lock # p
    <2>1. UNCHANGED <<versions, undone, left_out>>
      BY <1>3 DEF Commit
    <2>2. \A q \in Processes \ {p} : lock' = q => lock = q /\ draft' = draft
      BY <1>1, ReleaseLeaves DEF Inv
    <2> QED BY <1>2, <2>1, <2>2, Leaves
  <1>4. CASE lock = p
    <2>1. lock' = Free
      BY <1>1, <1>4 DEF Release
    <2>2. DraftInv'
      BY <2>1, MigrationsAssumption DEF DraftInv
    <2>3. CASE command[p].kind = "rollback"
      <3>1. undone' # {}
        BY <1>4, <2>3 DEF Commit
      <3> QED BY <2>2, <3>1 DEF OrderInv
    <2>4. CASE command[p].kind # "rollback"
      <3>1. undone' = undone /\ left_out' = left_out /\ versions' = draft.versions
        BY <1>4, <2>4 DEF Commit
      <3>2. versions' = versions \/ versions' = versions \cup {target[p]}
        BY <1>1, <1>4, <2>4, <3>1 DEF Inv, DraftInv
      <3>3. ~left_out /\ undone = {} => Below(target[p])
        BY <1>1, <2>4 DEF Inv, OrderInv, Applying
      <3>4. OrderInv'
        <4> SUFFICES ASSUME ~left_out', undone' = {} PROVE OrderInv'
          BY DEF OrderInv
        <4>1. ASSUME NEW v, Below(v) PROVE Below(v)'
          BY <3>2, <4>1 DEF Below
        <4>2. \A v \in versions' : Below(v)
          BY <3>1, <3>2, <3>3 DEF Inv, OrderInv
        <4>3. ASSUME NEW q \in Processes, pc'[q] \in Applying,
                     command'[q].kind # "rollback"
              PROVE  Below(target'[q])
          BY <1>2, <3>1, <4>3 DEF Inv, OrderInv
        <4> QED BY <3>2, <4>2, <4>3 DEF OrderInv, Below
      <3> QED BY <2>2, <3>4
    <2> QED BY <2>3, <2>4
  <1> QED BY <1>3, <1>4

\* The other ends of a transaction: a statement or COMMIT throws, the prompt is
\* answered with no, the process is killed or ends by an exception.
LEMMA OrderAbort ==
    ASSUME Inv, NEW p \in Processes,
           \/ ExecSqlFails(p) \/ CommitFails(p) \/ Decline(p)
           \/ Crash(p) \/ RollbackThrows(p)
    PROVE  DraftInv' /\ OrderInv'
  <1>1. UNCHANGED <<versions, undone, left_out, command>>
    BY DEF ExecSqlFails, CommitFails, Decline, Crash, RollbackThrows, dbVars, historyVars
  <1>2. /\ pc'[p] \notin Applying
        /\ \A q \in Processes \ {p} : /\ pc'[q] = pc[q] /\ target'[q] = target[q]
                                      /\ command'[q] = command[q]
    <2>1. CASE Return(p, FALSE)
      BY <1>1, <2>1, ReturnLeaves DEF Inv
    <2>2. CASE Exit(p)
      BY <1>1, <2>2 DEF Exit, Goto, Inv, TypeInv, TypeOK, Applying
    <2> QED BY <2>1, <2>2 DEF ExecSqlFails, CommitFails, Decline, Crash, RollbackThrows
  <1>3. \A q \in Processes \ {p} : lock' = q => lock = q /\ draft' = draft
    BY ReleaseLeaves DEF ExecSqlFails, CommitFails, Decline, Crash, RollbackThrows, Exit,
                         Inv, txnVars
  <1> QED BY <1>1, <1>2, <1>3, Leaves

\* A running server, and the end of its start.
LEMMA OrderServer ==
    ASSUME Inv, NEW p \in Processes,
           RefreshColumnInfo(p) \/ Insert(p) \/ Inserted(p)
    PROVE  DraftInv' /\ OrderInv'
  <1>1. UNCHANGED <<versions, undone, left_out, command, target>>
    BY DEF RefreshColumnInfo, Insert, Inserted, dbVars, historyVars
  <1>2. PICK l \in {"running", "insert"} : pc' = [pc EXCEPT ![p] = l]
    BY DEF RefreshColumnInfo, Insert, Inserted, Goto
  <1>3. /\ pc'[p] \notin Applying
        /\ \A q \in Processes \ {p} : pc'[q] = pc[q]
    BY <1>2 DEF Inv, TypeInv, TypeOK, Applying
  <1>4. \A q \in Processes \ {p} : lock' = q => lock = q /\ draft' = draft
    BY ReleaseLeaves DEF RefreshColumnInfo, Insert, Inserted, Inv, txnVars
  <1> QED BY <1>1, <1>3, <1>4, Leaves

\* Every step keeps the draft of the lock's holder and the order.
LEMMA InvNext == Inv /\ [Next]_vars => Inv'
  <1> SUFFICES ASSUME Inv, [Next]_vars PROVE Inv'
    OBVIOUS
  <1>1. TypeInv'
    BY TypeNext DEF Inv
  <1>2. CASE UNCHANGED vars
    BY <1>1, <1>2 DEF Inv, DraftInv, OrderInv, Below, vars, dbVars, txnVars,
                      procVars, historyVars
  <1>3. ASSUME NEW p \in Processes, \E c \in Commands : Start(p, c)
        PROVE  DraftInv' /\ OrderInv'
    BY <1>3, OrderBegin
  <1>4. ASSUME NEW p \in Processes, \/ Decline(p) \/ Insert(p) \/ Crash(p)
                                   \/ RecordFails(p) \/ CommitFails(p) \/ RollbackThrows(p)
        PROVE  DraftInv' /\ OrderInv'
    BY <1>4, OrderAbort, OrderServer, OrderRecord
  <1>5. ASSUME NEW p \in Processes, Proceed(p) PROVE DraftInv' /\ OrderInv'
    BY <1>5, OrderBegin, OrderApplyPendingMigrations, OrderApplyMigration,
       OrderExecSql, OrderAbort, OrderRecord, OrderCommit, OrderServer
       DEF Proceed
  <1> QED BY <1>1, <1>2, <1>3, <1>4, <1>5 DEF Next, Inv

\* No process, no draft, nothing recorded.
LEMMA InvInit == Init => Inv
  <1> SUFFICES ASSUME Init PROVE DraftInv /\ OrderInv
    BY TypeInit DEF Inv
  <1>1. lock \notin Processes
    BY MigrationsAssumption DEF Init
  <1>2. versions = {} /\ \A p \in Processes : pc[p] = "idle"
    BY DEF Init
  <1> QED BY <1>1, <1>2 DEF DraftInv, OrderInv, Applying

\* InOrder: as long as nothing is rolled back and no -v of migrate rollout
\* leaves out a version, the recorded versions have no gap, although every
\* process chooses by a list it has read before its transaction, others commit
\* in between, writes fail and processes are killed: a draft begins with the
\* table as it is when the write lock is taken, so that a commit adds at most
\* its own version.
THEOREM SafeInOrder == Spec => []InOrder
  <1>1. Inv => InOrder
    BY DEF Inv, OrderInv, InOrder, Below
  <1> QED BY <1>1, InvInit, InvNext, PTL DEF Spec

-----------------------------------------------------------------------------
(* Additive migrations *)

Out(v) == Migration(v).rollout
Back(v) == Migration(v).rollback

\* The columns that the first k statements of the rollout of v add.
Added(v, k) == {Out(v)[i].col : i \in {j \in 1..k : Out(v)[j].op = "add"}}
All(v) == Added(v, Len(Out(v)))

\* A rollout creates the table or adds columns, each migration its own; a
\* rollback drops columns of its own or, that of the lowest version, the table.
Additive ==
    /\ \A v \in Version :
          /\ DOMAIN Out(v) = 1..Len(Out(v)) /\ Len(Out(v)) \in Nat \ {0}
          /\ \A i \in 1..Len(Out(v)) : /\ Out(v)[i].op \in {"create", "add"}
                                       /\ Out(v)[i].op = "add" => Out(v)[i].col # Base
          /\ Len(Back(v)) \in Nat
          /\ \A i \in 1..Len(Back(v)) :
                \/ Back(v)[i].op = "drop" /\ Back(v)[i].col \in All(v)
                \/ Back(v)[i].op = "drop_table" /\ \A w \in Version : v <= w
    /\ \A v, w \in Version : v # w => All(v) \cap All(w) = {}

\* The committed schema: a table that has columns exists; the columns of a
\* version are there together or not at all; what is recorded has run, recorded
\* or not what has run is there, and only what adds nothing has run twice.
SchemaInv ==
    /\ schema = {} \/ Base \in schema
    /\ \A v \in Version \ undone : All(v) \subseteq schema \/ All(v) \cap schema = {}
    /\ runs \in [Version -> Nat]
    /\ \A v \in versions \ undeleted : runs[v] > 0
    /\ unordered \/ \A v \in Version : runs[v] > 0 => {Base} \cup All(v) \subseteq schema
    /\ unordered \/ \A v \in Version : runs[v] > 1 => All(v) = {}
    /\ unordered \in BOOLEAN

schemaHistory == <<runs, unordered, undone, undeleted>>

\* Statements are counted inside a transaction only.
CountInv(p) ==
    /\ pc[p] \notin {"statements", "commit"} => done[p] = 0
    /\ pc[p] = "commit" => done[p] = Len(Statements(p))

\* A rollout that does not hold the lock has added nothing, and the table that
\* it has found is there unless it has been overtaken.
UnlockedInv(p) ==
    (pc[p] = "statements" /\ command[p].kind # "rollback" /\ lock # p) =>
        /\ Added(target[p], done[p]) = {}
        /\ (done[p] > 0 /\ p \notin stale) => Base \in schema

\* The draft of the holder of the lock: a rollout has added columns that were
\* not there; a rollback has dropped some of its own, or the table.
LockedInv(p) ==
    (lock = p /\ pc[p] \in {"statements", "commit"}) =>
        IF command[p].kind = "rollback"
        THEN \/ draft.schema = {} /\ \A w \in Version : target[p] <= w
             \/ schema \ All(target[p]) \subseteq draft.schema /\ draft.schema \subseteq schema
        ELSE /\ draft.schema = schema \cup {Base} \cup Added(target[p], done[p])
             /\ Added(target[p], done[p]) \cap schema = {}

TxnInv(p) == CountInv(p) /\ UnlockedInv(p) /\ LockedInv(p)

FullInv == Inv /\ SchemaInv /\ \A p \in Processes : TxnInv(p)

-----------------------------------------------------------------------------
(* What the statements of additive migrations add *)

\* Statement by statement.
LEMMA AddedStep ==
    ASSUME NEW v, NEW k \in Nat
    PROVE  /\ Added(v, 0) = {}
           /\ Out(v)[k + 1].op = "add" => Added(v, k + 1) = Added(v, k) \cup {Out(v)[k + 1].col}
           /\ Out(v)[k + 1].op # "add" => Added(v, k + 1) = Added(v, k)
  <1>1. Added(v, 0) = {}
    BY DEF Added
  <1>2. 1..(k + 1) = 1..k \cup {k + 1}
    OBVIOUS
  <1>3. CASE Out(v)[k + 1].op = "add"
    <2>1. {j \in 1..(k + 1) : Out(v)[j].op = "add"}
            = {j \in 1..k : Out(v)[j].op = "add"} \cup {k + 1}
      BY <1>2, <1>3
    <2> QED BY <1>1, <1>3, <2>1 DEF Added
  <1>4. CASE Out(v)[k + 1].op # "add"
    <2>1. {j \in 1..(k + 1) : Out(v)[j].op = "add"} = {j \in 1..k : Out(v)[j].op = "add"}
      BY <1>2, <1>4
    <2> QED BY <1>1, <1>4, <2>1 DEF Added
  <1> QED BY <1>3, <1>4

\* The table is not one of the columns.
LEMMA BaseNotAdded ==
    ASSUME Additive, NEW v \in Version
    PROVE  Base \notin All(v)
  BY DEF Additive, All, Added

\* A rollout that leaves no column behind consists of statements that create
\* the table if it does not exist; and what is left behind is what is added.
LEMMA EffectAll ==
    ASSUME Additive, NEW v \in Version
    PROVE  /\ Effect(v) = {Base} \cup All(v)
           /\ All(v) = {} => \A i \in DOMAIN Migration(v).rollout :
                                Migration(v).rollout[i].op = "create"
  <1>1. /\ DOMAIN Out(v) = 1..Len(Out(v))
        /\ \A i \in 1..Len(Out(v)) : Out(v)[i].op \in {"create", "add"}
    BY DEF Additive
  <1>2. All(v) = {Out(v)[i].col : i \in {j \in DOMAIN Out(v) : Out(v)[j].op = "add"}}
    BY <1>1 DEF All, Added
  <1>3. Effect(v) = {Base} \cup All(v)
    BY <1>1, <1>2 DEF Effect, Out
  <1>4. ASSUME All(v) = {}, NEW i \in DOMAIN Out(v) PROVE Out(v)[i].op = "create"
    BY <1>1, <1>2, <1>4
  <1> QED BY <1>3, <1>4 DEF Out

-----------------------------------------------------------------------------
(* Transactions that a step leaves alone *)

\* A process outside a transaction.
LEMMA OutsideTxn ==
    ASSUME NEW q \in Processes, done'[q] = 0, pc'[q] \notin {"statements", "commit"}
    PROVE  TxnInv(q)'
  BY DEF TxnInv, CountInv, UnlockedInv, LockedInv

\* A process of which nothing changes, while the schema that it works on
\* changes only if it does not hold the lock and is overtaken.
LEMMA OtherTxn ==
    ASSUME NEW q \in Processes, TxnInv(q),
           pc'[q] = pc[q], target'[q] = target[q], command'[q] = command[q],
           done'[q] = done[q], (lock' = q) <=> (lock = q),
           lock = q => draft' = draft /\ schema' = schema,
           (pc[q] = "statements" /\ done[q] > 0 /\ q \notin stale')
                => q \notin stale /\ (Base \in schema => Base \in schema')
    PROVE  TxnInv(q)'
  <1>1. CountInv(q)'
    BY DEF TxnInv, CountInv, Statements
  <1>2. UnlockedInv(q)'
    BY DEF TxnInv, UnlockedInv
  <1>3. LockedInv(q)'
    BY DEF TxnInv, LockedInv
  <1> QED BY <1>1, <1>2, <1>3 DEF TxnInv

\* A process that leaves its transaction or stays outside, with what it has
\* changed undone.
LEMMA LeavesTxn ==
    ASSUME FullInv, NEW p \in Processes, done'[p] = 0,
           pc'[p] \notin {"statements", "commit"},
           \A q \in Processes \ {p} : /\ pc'[q] = pc[q] /\ target'[q] = target[q]
                                      /\ command'[q] = command[q] /\ done'[q] = done[q],
           \A q \in Processes \ {p} : /\ (lock' = q) <=> (lock = q)
                                      /\ lock = q => draft' = draft
                                      /\ q \notin stale' => q \notin stale,
           UNCHANGED <<schema, versions, schemaHistory>>
    PROVE  SchemaInv' /\ \A q \in Processes : TxnInv(q)'
  <1>1. SchemaInv'
    BY DEF FullInv, SchemaInv, schemaHistory
  <1>2. ASSUME NEW q \in Processes, q # p PROVE TxnInv(q)'
    BY <1>2, OtherTxn DEF FullInv
  <1>3. TxnInv(p)'
    BY OutsideTxn
  <1> QED BY <1>1, <1>2, <1>3

\* A process that begins a transaction has executed nothing.
LEMMA EntersTxn ==
    ASSUME FullInv, NEW p \in Processes, pc[p] \in {"tables", "check"},
           lock # p, pc'[p] = "statements", done'[p] = done[p],
           \A q \in Processes \ {p} : /\ pc'[q] = pc[q] /\ target'[q] = target[q]
                                      /\ command'[q] = command[q] /\ done'[q] = done[q],
           UNCHANGED <<schema, versions, schemaHistory, lock, draft, stale>>
    PROVE  SchemaInv' /\ \A q \in Processes : TxnInv(q)'
  <1>1. SchemaInv'
    BY DEF FullInv, SchemaInv, schemaHistory
  <1>2. ASSUME NEW q \in Processes, q # p PROVE TxnInv(q)'
    BY <1>2, OtherTxn DEF FullInv
  <1>3. done'[p] = 0
    BY DEF FullInv, TxnInv, CountInv
  <1>4. TxnInv(p)'
    BY <1>3, AddedStep DEF TxnInv, CountInv, UnlockedInv, LockedInv
  <1> QED BY <1>1, <1>2, <1>4

\* Return leaves the transaction.
LEMMA ReturnTxn ==
    ASSUME TypeInv, NEW p \in Processes, NEW ok, Return(p, ok), UNCHANGED command
    PROVE  /\ done'[p] = 0 /\ pc'[p] \notin {"statements", "commit"}
           /\ \A q \in Processes \ {p} : /\ pc'[q] = pc[q] /\ target'[q] = target[q]
                                         /\ command'[q] = command[q] /\ done'[q] = done[q]
  <1>1. PICK l \in {"pending", "refresh", "idle"} : pc' = [pc EXCEPT ![p] = l]
    BY DEF Return, Goto
  <1>2. /\ target' = [target EXCEPT ![p] = NoMigration]
        /\ done' = [done EXCEPT ![p] = 0]
    BY DEF Return
  <1> QED BY <1>1, <1>2 DEF TypeInv, TypeOK

\* Release leaves the lock and the draft of another holder.
LEMMA ReleaseTxn ==
    ASSUME TypeInv, NEW p \in Processes, Release(p)
    PROVE  \A q \in Processes \ {p} : /\ (lock' = q) <=> (lock = q)
                                      /\ lock = q => draft' = draft
  BY MigrationsAssumption DEF Release, TypeInv, TypeOK

-----------------------------------------------------------------------------
(* Additive migrations, step by step *)

\* The steps before a transaction.
LEMMA SchemaBegin ==
    ASSUME FullInv, NEW p \in Processes,
           \/ \E c \in Commands : Start(p, c)
           \/ CreateInternalTables(p) \/ ApplyPendingMigrations(p) \/ ApplyMigration(p)
    PROVE  SchemaInv' /\ \A q \in Processes : TxnInv(q)'
  <1>1. TypeInv /\ CountInv(p)
    BY DEF FullInv, Inv, TxnInv
  <1>2. UNCHANGED <<schema, versions, schemaHistory, lock, draft, stale>>
    BY DEF Start, CreateInternalTables, ApplyPendingMigrations, ApplyMigration,
           dbVars, txnVars, historyVars, schemaHistory
  <1>3. CASE \E c \in Commands : Start(p, c)
    <2>1. PICK c \in Commands : Start(p, c)
      BY <1>3
    <2>2. /\ command' = [command EXCEPT ![p] = c] /\ pc' = [pc EXCEPT ![p] = "tables"]
          /\ pc[p] = "idle" /\ UNCHANGED <<target, done>>
      BY <2>1 DEF Start, Goto
    <2>3. /\ done'[p] = 0 /\ pc'[p] \notin {"statements", "commit"}
          /\ \A q \in Processes \ {p} : /\ pc'[q] = pc[q] /\ target'[q] = target[q]
                                        /\ command'[q] = command[q] /\ done'[q] = done[q]
      BY <1>1, <2>2 DEF TypeInv, TypeOK, CountInv
    <2> QED BY <1>2, <2>3, LeavesTxn
  <1>4. CASE CreateInternalTables(p)
    <2>1. pc[p] = "tables" /\ UNCHANGED <<command, done>>
      BY <1>4 DEF CreateInternalTables
    <2>2. PICK l \in {"statements", "pending", "refresh", "idle"} :
              pc' = [pc EXCEPT ![p] = l]
      <3>1. CASE command[p].kind = "serve"
        BY <1>4, <3>1 DEF CreateInternalTables, Goto
      <3>2. CASE command[p].kind # "serve"
        BY <1>4, <3>2 DEF CreateInternalTables, Goto
      <3> QED BY <3>1, <3>2
    <2>3. target' = target \/ \E v : target' = [target EXCEPT ![p] = v]
      BY <1>4 DEF CreateInternalTables
    <2>4. \A q \in Processes \ {p} : /\ pc'[q] = pc[q] /\ target'[q] = target[q]
                                     /\ command'[q] = command[q] /\ done'[q] = done[q]
      BY <1>1, <2>1, <2>2, <2>3 DEF TypeInv, TypeOK
    <2>5. pc'[p] = l /\ done'[p] = 0 /\ done'[p] = done[p]
      BY <1>1, <2>1, <2>2 DEF TypeInv, TypeOK, CountInv
    <2>6. lock # p
      BY <1>1, <2>1, MigrationsAssumption DEF TypeInv, TypeOK
    <2>7. CASE l = "statements"
      BY <1>2, <2>1, <2>4, <2>5, <2>6, <2>7, EntersTxn
    <2>8. CASE l # "statements"
      BY <1>2, <2>4, <2>5, <2>8, LeavesTxn
    <2> QED BY <2>7, <2>8
  <1>5. CASE ApplyPendingMigrations(p)
    <2>1. pc[p] = "pending" /\ UNCHANGED command
      BY <1>5 DEF ApplyPendingMigrations
    <2>2. CASE Return(p, FALSE)
      BY <1>1, <1>2, <2>1, <2>2, ReturnTxn, LeavesTxn
    <2>3. CASE ~Return(p, FALSE)
      <3>1. PICK v : /\ target' = [target EXCEPT ![p] = v]
                     /\ pc' = [pc EXCEPT ![p] = "check"] /\ UNCHANGED done
        BY <1>5, <2>3 DEF ApplyPendingMigrations, Goto
      <3>2. /\ done'[p] = 0 /\ pc'[p] \notin {"statements", "commit"}
            /\ \A q \in Processes \ {p} : /\ pc'[q] = pc[q] /\ target'[q] = target[q]
                                          /\ command'[q] = command[q] /\ done'[q] = done[q]
        BY <1>1, <2>1, <3>1 DEF TypeInv, TypeOK, CountInv
      <3> QED BY <1>2, <3>2, LeavesTxn
    <2> QED BY <2>2, <2>3
  <1>6. CASE ApplyMigration(p)
    <2>1. pc[p] = "check" /\ UNCHANGED command
      BY <1>6 DEF ApplyMigration
    <2>2. CASE Return(p, TRUE)
      BY <1>1, <1>2, <2>1, <2>2, ReturnTxn, LeavesTxn
    <2>3. CASE ~Return(p, TRUE)
      <3>1. pc' = [pc EXCEPT ![p] = "statements"] /\ UNCHANGED <<target, done>>
        BY <1>6, <2>3 DEF ApplyMigration, Goto
      <3>2. lock # p
        BY <1>1, <2>1, MigrationsAssumption DEF TypeInv, TypeOK
      <3>3. /\ pc'[p] = "statements" /\ done'[p] = done[p]
            /\ \A q \in Processes \ {p} : /\ pc'[q] = pc[q] /\ target'[q] = target[q]
                                          /\ command'[q] = command[q] /\ done'[q] = done[q]
        BY <1>1, <2>1, <3>1 DEF TypeInv, TypeOK
      <3> QED BY <1>2, <2>1, <3>2, <3>3, EntersTxn
    <2> QED BY <2>2, <2>3
  <1> QED BY <1>3, <1>4, <1>5, <1>6

\* The ends without a commit, and a running server.
LEMMA SchemaLeaves ==
    ASSUME FullInv, NEW p \in Processes,
           \/ ExecSqlFails(p) \/ CommitFails(p) \/ Decline(p)
           \/ Crash(p) \/ RollbackThrows(p)
           \/ RefreshColumnInfo(p) \/ Insert(p) \/ Inserted(p)
    PROVE  SchemaInv' /\ \A q \in Processes : TxnInv(q)'
  <1>1. TypeInv /\ CountInv(p)
    BY DEF FullInv, Inv, TxnInv
  <1>2. UNCHANGED <<schema, versions, schemaHistory, command>>
    BY DEF ExecSqlFails, CommitFails, Decline, Crash, RollbackThrows, RefreshColumnInfo,
           Insert, Inserted, dbVars, historyVars, schemaHistory
  <1>3. /\ done'[p] = 0 /\ pc'[p] \notin {"statements", "commit"}
        /\ \A q \in Processes \ {p} : /\ pc'[q] = pc[q] /\ target'[q] = target[q]
                                      /\ command'[q] = command[q] /\ done'[q] = done[q]
    <2>1. CASE Return(p, FALSE)
      BY <1>1, <1>2, <2>1, ReturnTxn
    <2>2. CASE Exit(p)
      BY <1>1, <1>2, <2>2 DEF Exit, Goto, TypeInv, TypeOK
    <2>3. CASE RefreshColumnInfo(p)
      BY <1>1, <2>3 DEF RefreshColumnInfo, Goto, TypeInv, TypeOK, CountInv
    <2>4. CASE Insert(p)
      BY <1>1, <2>4 DEF Insert, Goto, TypeInv, TypeOK, CountInv
    <2>5. CASE Inserted(p)
      BY <1>1, <2>5 DEF Inserted, Goto, TypeInv, TypeOK, CountInv
    <2> QED BY <2>1, <2>2, <2>3, <2>4, <2>5
            DEF ExecSqlFails, CommitFails, Decline, Crash, RollbackThrows
  <1>4. \A q \in Processes \ {p} : /\ (lock' = q) <=> (lock = q)
                                   /\ lock = q => draft' = draft
    <2>1. CASE Release(p)
      BY <1>1, <2>1, ReleaseTxn
    <2>2. CASE UNCHANGED <<lock, draft>>
      BY <2>2
    <2>3. CASE Insert(p)
      BY <2>3, MigrationsAssumption DEF Insert
    <2> QED BY <2>1, <2>2, <2>3
            DEF ExecSqlFails, CommitFails, Decline, Crash, RollbackThrows, Exit,
                RefreshColumnInfo, Inserted, txnVars
  <1>5. \A q \in Processes \ {p} : q \notin stale' => q \notin stale
    BY DEF ExecSqlFails, CommitFails, Decline, Crash, RollbackThrows, Exit,
           RefreshColumnInfo, Insert, Inserted, txnVars
  <1> QED BY <1>2, <1>3, <1>4, <1>5, LeavesTxn

\* What one statement of a rollout does to the columns it finds.
LEMMA RolloutStatement ==
    ASSUME Additive, NEW v \in Version, NEW k \in Nat, k < Len(Out(v)),
           NEW columns, Executable(Out(v)[k + 1], columns),
           columns = {} \/ Base \in columns
    PROVE  /\ Out(v)[k + 1].op = "add" =>
                /\ Executed(Out(v)[k + 1], columns) = columns \cup {Out(v)[k + 1].col}
                /\ Base \in columns /\ Out(v)[k + 1].col \notin columns
                /\ Added(v, k + 1) = Added(v, k) \cup {Out(v)[k + 1].col}
           /\ Out(v)[k + 1].op # "add" =>
                /\ Executed(Out(v)[k + 1], columns) = columns \cup {Base}
                /\ Added(v, k + 1) = Added(v, k)
  <1>1. k + 1 \in 1..Len(Out(v)) /\ Out(v)[k + 1].op \in {"create", "add"}
    BY DEF Additive
  <1>2. CASE Out(v)[k + 1].op = "create"
    <2>1. Executed(Out(v)[k + 1], columns) = IF Base \in columns THEN columns ELSE {Base}
      BY <1>2 DEF Executed
    <2>2. Added(v, k + 1) = Added(v, k)
      BY <1>2, AddedStep
    <2> QED BY <1>2, <2>1, <2>2
  <1>3. CASE Out(v)[k + 1].op = "add"
    <2>1. Executed(Out(v)[k + 1], columns) = columns \cup {Out(v)[k + 1].col}
      BY <1>3 DEF Executed
    <2>2. Base \in columns /\ Out(v)[k + 1].col \notin columns
      BY <1>3 DEF Executable
    <2>3. Added(v, k + 1) = Added(v, k) \cup {Out(v)[k + 1].col}
      BY <1>3, AddedStep
    <2> QED BY <1>3, <2>1, <2>2, <2>3
  <1> QED BY <1>1, <1>2, <1>3

\* A statement of a rollout: without the lock it finds the table and adds
\* nothing, with it the draft grows by a column that was not there.
LEMMA RolloutExecSql ==
    ASSUME Additive, FullInv, NEW p \in Processes, ExecSql(p),
           command[p].kind # "rollback"
    PROVE  TxnInv(p)'
  <1>1. /\ pc[p] = "statements" /\ done[p] < Len(Statements(p))
        /\ done' = [done EXCEPT ![p] = @ + 1]
        /\ Executable(Statement(p), Sees(p).schema)
        /\ UNCHANGED <<schema, stale, pc, command, target>>
    BY DEF ExecSql, InTransaction, dbVars
  <1>2. TypeInv /\ SchemaInv /\ TxnInv(p)
    BY DEF FullInv, Inv
  <1>3. PICK v \in Version : v = target[p]
    BY <1>1, <1>2 DEF TypeInv, Applying
  <1>4. PICK k \in Nat : k = done[p]
    BY <1>2 DEF TypeInv
  <1>5. k < Len(Out(v)) /\ Statement(p) = Out(v)[k + 1]
    BY <1>1, <1>3, <1>4 DEF Statement, Statements, Out
  <1>6. done'[p] = k + 1
    BY <1>1, <1>2, <1>4 DEF TypeInv
  <1>7. PICK columns : columns = Sees(p).schema
    OBVIOUS
  <1>8. /\ lock # p => columns = schema /\ Added(v, k) = {}
        /\ lock = p => /\ columns = draft.schema
                       /\ draft.schema = schema \cup {Base} \cup Added(v, k)
                       /\ Added(v, k) \cap schema = {}
    BY <1>1, <1>2, <1>3, <1>4, <1>7 DEF Sees, TxnInv, UnlockedInv, LockedInv
  <1>9. columns = {} \/ Base \in columns
    BY <1>2, <1>8 DEF SchemaInv
  <1>10. /\ Out(v)[k + 1].op = "add" =>
                /\ Executed(Out(v)[k + 1], columns) = columns \cup {Out(v)[k + 1].col}
                /\ Base \in columns /\ Out(v)[k + 1].col \notin columns
                /\ Added(v, k + 1) = Added(v, k) \cup {Out(v)[k + 1].col}
         /\ Out(v)[k + 1].op # "add" =>
                /\ Executed(Out(v)[k + 1], columns) = columns \cup {Base}
                /\ Added(v, k + 1) = Added(v, k)
    <2>1. Executable(Out(v)[k + 1], columns)
      BY <1>1, <1>5, <1>7
    <2> QED BY <1>5, <1>9, <2>1, RolloutStatement
  <1>11. CountInv(p)'
    BY <1>1 DEF CountInv
  <1>12. CASE NoEffect(p) /\ UNCHANGED <<lock, draft>>
    <2>1. Executed(Out(v)[k + 1], columns) = columns
      BY <1>5, <1>7, <1>12 DEF NoEffect
    <2>2. Out(v)[k + 1].op # "add" /\ Base \in columns
      BY <1>10, <2>1
    <2>3. UnlockedInv(p)'
      BY <1>1, <1>3, <1>6, <1>8, <1>10, <1>12, <2>2 DEF UnlockedInv
    <2>4. LockedInv(p)'
      BY <1>1, <1>3, <1>6, <1>8, <1>10, <1>12, <2>2 DEF LockedInv
    <2> QED BY <1>11, <2>3, <2>4 DEF TxnInv
  <1>13. CASE ~NoEffect(p)
    <2>1. lock' = p /\ draft' = [Sees(p) EXCEPT !.schema = Executed(Statement(p), @)]
      BY <1>13 DEF ExecSql
    <2>2. Sees(p) = [schema |-> Sees(p).schema, versions |-> Sees(p).versions]
      BY <1>2 DEF Sees, TypeInv
    <2>3. draft'.schema = Executed(Out(v)[k + 1], columns)
      BY <1>5, <1>7, <2>1, <2>2
    <2>4. UnlockedInv(p)'
      BY <2>1 DEF UnlockedInv
    <2>5. /\ draft'.schema = schema \cup {Base} \cup Added(v, k + 1)
          /\ Added(v, k + 1) \cap schema = {}
      <3>1. CASE Out(v)[k + 1].op = "add"
        BY <1>8, <1>10, <2>3, <3>1
      <3>2. CASE Out(v)[k + 1].op # "add"
        BY <1>8, <1>10, <2>3, <3>2
      <3> QED BY <3>1, <3>2
    <2>6. LockedInv(p)'
      BY <1>1, <1>3, <1>6, <2>5 DEF LockedInv
    <2> QED BY <1>11, <2>4, <2>6 DEF TxnInv
  <1> QED BY <1>12, <1>13 DEF ExecSql

\* A statement of a rollback drops a column of its own, or the table.
LEMMA RollbackExecSql ==
    ASSUME Additive, FullInv, NEW p \in Processes, ExecSql(p),
           command[p].kind = "rollback"
    PROVE  TxnInv(p)'
  <1>1. /\ pc[p] = "statements" /\ done[p] < Len(Statements(p))
        /\ done' = [done EXCEPT ![p] = @ + 1]
        /\ Executable(Statement(p), Sees(p).schema)
        /\ UNCHANGED <<schema, stale, pc, command, target>>
    BY DEF ExecSql, InTransaction, dbVars
  <1>2. TypeInv /\ SchemaInv /\ TxnInv(p)
    BY DEF FullInv, Inv
  <1>3. PICK v \in Version : v = target[p]
    BY <1>1, <1>2 DEF TypeInv, Applying
  <1>4. PICK k \in Nat : k = done[p]
    BY <1>2 DEF TypeInv
  <1>5. k < Len(Back(v)) /\ Statement(p) = Back(v)[k + 1]
    BY <1>1, <1>3, <1>4 DEF Statement, Statements, Back
  <1>6. PICK columns : columns = Sees(p).schema
    OBVIOUS
  <1>7. \/ columns = {} /\ \A w \in Version : v <= w
        \/ schema \ All(v) \subseteq columns /\ columns \subseteq schema
    <2>1. CASE lock = p
      BY <1>1, <1>2, <1>3, <1>6, <2>1 DEF Sees, TxnInv, LockedInv
    <2>2. CASE lock # p
      BY <1>6, <2>2 DEF Sees
    <2> QED BY <2>1, <2>2
  <1>8. CountInv(p)' /\ UnlockedInv(p)'
    BY <1>1 DEF CountInv, UnlockedInv
  <1>9. CASE UNCHANGED <<lock, draft>>
    <2>1. LockedInv(p)'
      BY <1>1, <1>2, <1>9 DEF TxnInv, LockedInv
    <2> QED BY <1>8, <2>1 DEF TxnInv
  <1>10. CASE lock' = p /\ draft' = [Sees(p) EXCEPT !.schema = Executed(Statement(p), @)]
    <2>1. Sees(p) = [schema |-> Sees(p).schema, versions |-> Sees(p).versions]
      BY <1>2 DEF Sees, TypeInv
    <2>2. draft'.schema = Executed(Back(v)[k + 1], columns)
      BY <1>5, <1>6, <1>10, <2>1
    <2>3. k + 1 \in 1..Len(Back(v))
      BY <1>5 DEF Additive
    <2>4. \/ draft'.schema = {} /\ \A w \in Version : v <= w
          \/ schema \ All(v) \subseteq draft'.schema /\ draft'.schema \subseteq schema
      <3>1. CASE Back(v)[k + 1].op = "drop" /\ Back(v)[k + 1].col \in All(v)
        <4>1. Executed(Back(v)[k + 1], columns) = columns \ {Back(v)[k + 1].col}
          BY <3>1 DEF Executed
        <4> QED BY <1>7, <2>2, <3>1, <4>1
      <3>2. CASE Back(v)[k + 1].op = "drop_table" /\ \A w \in Version : v <= w
        <4>1. Executed(Back(v)[k + 1], columns) = {}
          BY <3>2 DEF Executed
        <4> QED BY <2>2, <3>2, <4>1
      <3> QED BY <2>3, <3>1, <3>2 DEF Additive
    <2>5. LockedInv(p)'
      BY <1>1, <1>3, <2>4 DEF LockedInv
    <2> QED BY <1>8, <2>5 DEF TxnInv
  <1> QED BY <1>9, <1>10 DEF ExecSql

\* A statement succeeds.
LEMMA SchemaExecSql ==
    ASSUME Additive, FullInv, NEW p \in Processes, ExecSql(p)
    PROVE  SchemaInv' /\ \A q \in Processes : TxnInv(q)'
  <1>1. /\ UNCHANGED <<schema, versions, schemaHistory, stale, pc, command, target>>
        /\ done' = [done EXCEPT ![p] = @ + 1]
    BY DEF ExecSql, dbVars, historyVars, schemaHistory
  <1>2. SchemaInv'
    BY <1>1 DEF FullInv, SchemaInv, schemaHistory
  <1>3. (lock' = lock /\ draft' = draft) \/ (lock' = p /\ lock \in {p, Free})
    <2>1. CASE NoEffect(p)
      BY <2>1 DEF ExecSql
    <2>2. CASE ~NoEffect(p)
      <3>1. CanWrite(p) /\ lock' = p
        BY <2>2 DEF ExecSql
      <3> QED BY <3>1 DEF CanWrite
    <2> QED BY <2>1, <2>2
  <1>4. ASSUME NEW q \in Processes, q # p PROVE TxnInv(q)'
    <2>1. TxnInv(q) /\ done'[q] = done[q]
      BY <1>1, <1>4 DEF FullInv, Inv, TypeInv
    <2>2. (lock' = q <=> lock = q) /\ (lock = q => draft' = draft)
      BY <1>3, <1>4, MigrationsAssumption
    <2> QED BY <1>1, <2>1, <2>2, OtherTxn
  <1>5. TxnInv(p)'
    BY RolloutExecSql, RollbackExecSql
  <1> QED BY <1>2, <1>4, <1>5

\* The version is recorded in the draft: a rollout that takes the lock only now
\* has added nothing and has not been overtaken since it found the table.
LEMMA SchemaRecord ==
    ASSUME Additive, FullInv, NEW p \in Processes, Record(p)
    PROVE  SchemaInv' /\ \A q \in Processes : TxnInv(q)'
  <1>1. /\ UNCHANGED <<schema, versions, schemaHistory, stale, command, target, done>>
        /\ pc[p] = "statements" /\ done[p] = Len(Statements(p))
        /\ pc' = [pc EXCEPT ![p] = "commit"]
    BY DEF Record, dbVars, Goto, historyVars, schemaHistory
  <1>2. SchemaInv'
    BY <1>1 DEF FullInv, SchemaInv, schemaHistory
  <1>3. TypeInv /\ TxnInv(p)
    BY DEF FullInv, Inv
  <1>4. \/ ~CanWrite(p) /\ UNCHANGED <<lock, draft>>
        \/ CanWrite(p) /\ lock' = p /\ draft'.schema = Sees(p).schema
    BY <1>3, RecordDraft
  <1>5. pc'[p] = "commit" /\ \A q \in Processes \ {p} : pc'[q] = pc[q]
    BY <1>1, <1>3 DEF TypeInv, TypeOK
  <1>6. ASSUME NEW q \in Processes, q # p PROVE TxnInv(q)'
    <2>1. TxnInv(q) /\ pc'[q] = pc[q]
      BY <1>5, <1>6 DEF FullInv
    <2>2. (lock' = q <=> lock = q) /\ (lock = q => draft' = draft)
      BY <1>4, <1>6, MigrationsAssumption DEF CanWrite
    <2> QED BY <1>1, <2>1, <2>2, OtherTxn
  <1>7. TxnInv(p)'
    <2>1. CountInv(p)' /\ UnlockedInv(p)'
      BY <1>1, <1>5 DEF CountInv, UnlockedInv, Statements
    <2>2. CASE lock = p
      <3>1. lock' = p /\ draft'.schema = draft.schema
        BY <1>4, <2>2 DEF CanWrite, Sees
      <3>2. LockedInv(p)'
        BY <1>1, <1>3, <1>5, <2>2, <3>1 DEF TxnInv, LockedInv
      <3> QED BY <2>1, <3>2 DEF TxnInv
    <2>3. CASE lock # p /\ CanWrite(p)
      <3>1. lock' = p /\ draft'.schema = schema /\ p \notin stale
        BY <1>4, <2>3 DEF CanWrite, Sees
      <3>2. CASE command[p].kind = "rollback"
        <4>1. LockedInv(p)'
          BY <1>1, <3>1, <3>2 DEF LockedInv
        <4> QED BY <2>1, <4>1 DEF TxnInv
      <3>3. CASE command[p].kind # "rollback"
        <4>1. target[p] \in Version
          BY <1>1, <1>3 DEF TypeInv, Applying
        <4>2. done[p] > 0
          BY <1>1, <3>3, <4>1 DEF Additive, Statements, Out
        <4>3. Added(target[p], done[p]) = {} /\ Base \in schema
          BY <1>1, <1>3, <2>3, <3>1, <3>3, <4>2 DEF TxnInv, UnlockedInv
        <4>4. LockedInv(p)'
          BY <1>1, <3>1, <3>3, <4>3 DEF LockedInv
        <4> QED BY <2>1, <4>4 DEF TxnInv
      <3> QED BY <3>2, <3>3
    <2>4. CASE ~CanWrite(p)
      <3>1. LockedInv(p)'
        BY <1>4, <2>4 DEF LockedInv, CanWrite
      <3> QED BY <2>1, <3>1 DEF TxnInv
    <2> QED BY <2>2, <2>3, <2>4
  <1> QED BY <1>2, <1>6, <1>7

\* The version cannot be recorded: the draft is left to COMMIT as it is.
LEMMA SchemaRecordFails ==
    ASSUME FullInv, NEW p \in Processes, RecordFails(p)
    PROVE  SchemaInv' /\ \A q \in Processes : TxnInv(q)'
  <1>1. /\ UNCHANGED <<schema, versions, schemaHistory, lock, draft, stale, command,
                       target, done>>
        /\ pc[p] = "statements" /\ done[p] = Len(Statements(p))
        /\ pc' = [pc EXCEPT ![p] = "commit"]
    BY DEF RecordFails, dbVars, txnVars, Goto, historyVars, schemaHistory
  <1>2. SchemaInv'
    BY <1>1 DEF FullInv, SchemaInv, schemaHistory
  <1>3. TxnInv(p) /\ pc'[p] = "commit" /\ \A q \in Processes \ {p} : pc'[q] = pc[q]
    BY <1>1 DEF FullInv, Inv, TypeInv, TypeOK
  <1>4. ASSUME NEW q \in Processes, q # p PROVE TxnInv(q)'
    BY <1>1, <1>3, <1>4, OtherTxn DEF FullInv
  <1>5. TxnInv(p)'
    <2>1. CountInv(p)' /\ UnlockedInv(p)'
      BY <1>1, <1>3 DEF CountInv, UnlockedInv, Statements
    <2>2. LockedInv(p)'
      BY <1>1, <1>3 DEF TxnInv, LockedInv
    <2> QED BY <2>1, <2>2 DEF TxnInv
  <1> QED BY <1>2, <1>4, <1>5

\* A rollout commits: its columns come together, and if they are there already
\* there are none.
LEMMA CommitRollout ==
    ASSUME Additive, FullInv, NEW p \in Processes, Commit(p), lock = p,
           command[p].kind # "rollback"
    PROVE  SchemaInv' /\ schema \subseteq schema'
  <1>1. /\ pc[p] = "commit" /\ schema' = draft.schema /\ versions' = draft.versions
        /\ runs' = [runs EXCEPT ![target[p]] = @ + 1] /\ UNCHANGED <<unordered, undone>>
        /\ undeleted' = undeleted \ {target[p]}
    BY DEF Commit
  <1>2. TypeInv /\ DraftInv /\ SchemaInv /\ TxnInv(p)
    BY DEF FullInv, Inv
  <1>3. PICK v \in Version : v = target[p]
    BY <1>1, <1>2 DEF TypeInv, Applying
  <1>4. versions' \subseteq versions \cup {v} /\ versions \subseteq Version
    BY <1>1, <1>2, <1>3 DEF DraftInv, TypeInv, TypeOK
  <1>5. done[p] = Len(Out(v))
    BY <1>1, <1>2, <1>3 DEF TxnInv, CountInv, Statements, Out
  <1>6. schema' = schema \cup {Base} \cup All(v) /\ All(v) \cap schema = {}
    BY <1>1, <1>2, <1>3, <1>5 DEF TxnInv, LockedInv, All
  <1>7. \A w \in Version : Base \notin All(w) /\ (w # v => All(w) \cap All(v) = {})
    BY BaseNotAdded DEF Additive
  <1>8. ASSUME NEW w \in Version \ undone
        PROVE  All(w) \subseteq schema' \/ All(w) \cap schema' = {}
    <2>1. All(w) \subseteq schema \/ All(w) \cap schema = {}
      BY <1>2 DEF SchemaInv
    <2> QED BY <1>6, <1>7, <2>1
  <1>9. /\ runs' \in [Version -> Nat] /\ runs'[v] = runs[v] + 1 /\ runs[v] \in Nat
        /\ \A w \in Version : w # v => runs'[w] = runs[w]
    BY <1>1, <1>2, <1>3 DEF SchemaInv
  <1>10. /\ \A w \in versions' \ undeleted' : runs'[w] > 0
         /\ unordered \/ \A w \in Version : runs'[w] > 0 => {Base} \cup All(w) \subseteq schema'
    <2>1. ASSUME NEW w \in versions' \ undeleted' PROVE runs'[w] > 0
      BY <1>1, <1>2, <1>3, <1>4, <1>9, <2>1 DEF SchemaInv
    <2>2. ASSUME ~unordered, NEW w \in Version, runs'[w] > 0
          PROVE  {Base} \cup All(w) \subseteq schema'
      BY <1>2, <1>6, <1>9, <2>2 DEF SchemaInv
    <2> QED BY <2>1, <2>2
  <1>11. ASSUME ~unordered, NEW w \in Version, runs'[w] > 1 PROVE All(w) = {}
    <2>1. CASE w # v
      BY <1>2, <1>9, <1>11, <2>1 DEF SchemaInv
    <2>2. CASE w = v
      <3>1. runs[v] > 0
        BY <1>9, <1>11, <2>2
      <3>2. All(v) \subseteq schema
        BY <1>2, <1>11, <3>1 DEF SchemaInv
      <3> QED BY <1>6, <2>2, <3>2
    <2> QED BY <2>1, <2>2
  <1>12. (schema' = {} \/ Base \in schema') /\ unordered' \in BOOLEAN
    BY <1>1, <1>2, <1>6 DEF SchemaInv
  <1> QED BY <1>1, <1>6, <1>8, <1>9, <1>10, <1>11, <1>12 DEF SchemaInv

\* A rollback commits: it takes columns of its own, or the table, which leaves
\* a gap below recorded versions unless its version is the highest.
LEMMA CommitRollback ==
    ASSUME Additive, FullInv, NEW p \in Processes, Commit(p), lock = p,
           command[p].kind = "rollback"
    PROVE  SchemaInv'
  <1>1. /\ pc[p] = "commit" /\ schema' = draft.schema /\ versions' = draft.versions
        /\ runs' = [runs EXCEPT ![target[p]] = 0]
        /\ unordered' = (unordered \/ BelowAnother(target[p]))
        /\ undone' = undone \cup {target[p]}
        /\ undeleted' = (undeleted \ {target[p]}) \cup ({target[p]} \cap draft.versions)
    BY DEF Commit
  <1>2. TypeInv /\ DraftInv /\ SchemaInv /\ TxnInv(p) /\ versions \subseteq Version
    BY DEF FullInv, Inv, TypeInv, TypeOK
  <1>3. PICK v \in Version : v = target[p]
    BY <1>1, <1>2 DEF TypeInv, Applying
  <1>4. versions' \subseteq versions /\ (v \in versions' => v \in undeleted')
    BY <1>1, <1>2, <1>3 DEF DraftInv
  <1>5. \/ schema' = {} /\ \A w \in Version : v <= w
        \/ schema \ All(v) \subseteq schema' /\ schema' \subseteq schema
    BY <1>1, <1>2, <1>3 DEF TxnInv, LockedInv
  <1>6. \A w \in Version : Base \notin All(w) /\ (w # v => All(w) \cap All(v) = {})
    BY BaseNotAdded DEF Additive
  <1>7. schema' = {} \/ Base \in schema'
    BY <1>2, <1>5, <1>6 DEF SchemaInv
  <1>8. ASSUME NEW w \in Version \ undone'
        PROVE  All(w) \subseteq schema' \/ All(w) \cap schema' = {}
    <2>1. w # v /\ (All(w) \subseteq schema \/ All(w) \cap schema = {})
      BY <1>1, <1>2, <1>3 DEF SchemaInv
    <2> QED BY <1>5, <1>6, <2>1
  <1>9. /\ runs' \in [Version -> Nat]
        /\ \A w \in Version : runs'[w] = IF w = v THEN 0 ELSE runs[w]
    BY <1>1, <1>2, <1>3 DEF SchemaInv
  <1>10. ASSUME ~unordered', NEW w \in Version, runs'[w] > 0
         PROVE  {Base} \cup All(w) \subseteq schema'
    <2>1. w # v /\ runs[w] > 0
      BY <1>9, <1>10
    <2>2. ~unordered /\ ~BelowAnother(v)
      BY <1>1, <1>3, <1>10, Zenon
    <2>3. ~(w > v)
      BY <2>1, <2>2 DEF BelowAnother
    <2>4. ~(v <= w)
      BY <2>1, <2>3, MigrationsAssumption
    <2>5. {Base} \cup All(w) \subseteq schema
      BY <1>2, <2>1, <2>2 DEF SchemaInv
    <2> QED BY <1>5, <1>6, <2>1, <2>4, <2>5
  <1>11. ASSUME NEW w \in versions' \ undeleted' PROVE runs'[w] > 0
    <2>1. w # v /\ w \in versions /\ w \notin undeleted
      BY <1>1, <1>3, <1>4, <1>11
    <2> QED BY <1>2, <1>9, <2>1 DEF SchemaInv
  <1>12. unordered' \in BOOLEAN /\ (~unordered' => ~unordered)
    BY <1>1, <1>2 DEF SchemaInv
  <1>13. unordered' \/ \A w \in Version : runs'[w] > 1 => All(w) = {}
    BY <1>2, <1>9, <1>12 DEF SchemaInv
  <1> QED BY <1>7, <1>8, <1>9, <1>10, <1>11, <1>12, <1>13 DEF SchemaInv

\* COMMIT: who has read before cannot write afterwards.
LEMMA SchemaCommit ==
    ASSUME Additive, FullInv, NEW p \in Processes, Commit(p)
    PROVE  SchemaInv' /\ \A q \in Processes : TxnInv(q)'
  <1>1. Release(p) /\ Return(p, TRUE) /\ UNCHANGED command
    BY DEF Commit
  <1>2. TypeInv
    BY DEF FullInv, Inv
  <1>3. /\ done'[p] = 0 /\ pc'[p] \notin {"statements", "commit"}
        /\ \A q \in Processes \ {p} : /\ pc'[q] = pc[q] /\ target'[q] = target[q]
                                      /\ command'[q] = command[q] /\ done'[q] = done[q]
    BY <1>1, <1>2, ReturnTxn
  <1>4. \A q \in Processes \ {p} : /\ (lock' = q) <=> (lock = q)
                                   /\ lock = q => draft' = draft
    BY <1>1, <1>2, ReleaseTxn
  <1>5. CASE lock # p
    <2>1. UNCHANGED <<schema, versions, schemaHistory>> /\ stale' = stale \ {p}
      BY <1>5 DEF Commit, schemaHistory
    <2> QED BY <1>3, <1>4, <2>1, LeavesTxn
  <1>6. CASE lock = p
    <2>1. stale' = (stale \cup Overtaken(p)) \ {p}
      BY <1>6 DEF Commit
    <2>2. SchemaInv'
      BY <1>6, CommitRollout, CommitRollback
    <2>3. ASSUME NEW q \in Processes, q # p PROVE TxnInv(q)'
      <3>1. TxnInv(q) /\ lock # q
        BY <1>6, <2>3 DEF FullInv
      <3>2. (pc[q] = "statements" /\ done[q] > 0) => q \in stale'
        BY <2>1, <2>3 DEF Overtaken
      <3> QED BY <1>3, <1>4, <2>3, <3>1, <3>2, OtherTxn
    <2>4. TxnInv(p)'
      BY <1>3, OutsideTxn
    <2> QED BY <2>2, <2>3, <2>4
  <1> QED BY <1>5, <1>6

\* Every step keeps the schema in accordance with the versions.
LEMMA FullInvNext ==
    ASSUME Additive PROVE FullInv /\ [Next]_vars => FullInv'
  <1> SUFFICES ASSUME FullInv, [Next]_vars PROVE FullInv'
    OBVIOUS
  <1>1. Inv'
    BY InvNext DEF FullInv
  <1>2. CASE UNCHANGED vars
    <2>1. SchemaInv'
      BY <1>2 DEF FullInv, SchemaInv, vars, dbVars, historyVars
    <2>2. ASSUME NEW q \in Processes PROVE TxnInv(q)'
      BY <1>2, OtherTxn DEF FullInv, vars, dbVars, txnVars, procVars
    <2> QED BY <1>1, <2>1, <2>2 DEF FullInv
  <1>3. ASSUME NEW p \in Processes,
               \/ (\E c \in Commands : Start(p, c)) \/ Decline(p) \/ Insert(p) \/ Crash(p)
               \/ RecordFails(p) \/ CommitFails(p) \/ RollbackThrows(p)
        PROVE  SchemaInv' /\ \A q \in Processes : TxnInv(q)'
    BY <1>3, SchemaBegin, SchemaLeaves, SchemaRecordFails
  <1>4. ASSUME NEW p \in Processes, Proceed(p)
        PROVE  SchemaInv' /\ \A q \in Processes : TxnInv(q)'
    BY <1>4, SchemaBegin, SchemaLeaves, SchemaExecSql, SchemaRecord, SchemaCommit
       DEF Proceed
  <1> QED BY <1>1, <1>2, <1>3, <1>4 DEF Next, FullInv

\* An empty database.
LEMMA FullInvInit == Init => FullInv
  <1> SUFFICES ASSUME Init PROVE FullInv
    OBVIOUS
  <1>1. Inv
    BY InvInit
  <1>2. SchemaInv
    <2>1. schema = {} /\ versions = {} /\ unordered = FALSE
      BY DEF Init
    <2>2. runs \in [Version -> Nat] /\ \A v \in Version : runs[v] = 0
      BY DEF Init
    <2>3. \A v \in Version \ undone : All(v) \subseteq schema \/ All(v) \cap schema = {}
      BY <2>1
    <2>4. \A v \in Version : ~(runs[v] > 0) /\ ~(runs[v] > 1)
      BY <2>2
    <2>5. \A v \in versions \ undeleted : runs[v] > 0
      BY <2>1
    <2>6. unordered \in BOOLEAN
      BY <2>1
    <2> QED BY <2>1, <2>2, <2>3, <2>4, <2>5, <2>6 DEF SchemaInv
  <1>3. ASSUME NEW p \in Processes PROVE TxnInv(p)
    BY DEF Init, TxnInv, CountInv, UnlockedInv, LockedInv
  <1> QED BY <1>1, <1>2, <1>3 DEF FullInv

\* AllOrNothing: what is recorded is applied, unless the DELETE of its rollback
\* has failed unnoticed, and no half of a rollout is ever committed, whatever
\* processes race, statements, INSERT and COMMIT fail and crashes fall between,
\* for any additive migrations.
THEOREM SafeAllOrNothing ==
    ASSUME Additive PROVE Spec => []AllOrNothing
  <1>1. ASSUME FullInv PROVE AllOrNothing
    <2>1. SchemaInv /\ versions \subseteq Version
      BY <1>1 DEF FullInv, Inv, TypeInv, TypeOK
    <2>2. \A v \in Version : Effect(v) = {Base} \cup All(v) /\ Base \notin All(v)
      BY EffectAll, BaseNotAdded
    <2>3. unordered \/ \A v \in versions \ undeleted : Effect(v) \subseteq schema
      BY <2>1, <2>2 DEF SchemaInv
    <2>4. ASSUME NEW v \in Version \ undone
          PROVE  Effect(v) \subseteq schema \/ (Effect(v) \ {Base}) \cap schema = {}
      <3>1. CASE All(v) \cap schema = {}
        BY <2>2, <3>1
      <3>2. CASE All(v) \subseteq schema /\ All(v) \cap schema # {}
        BY <2>1, <2>2, <3>2 DEF SchemaInv
      <3> QED BY <2>1, <3>1, <3>2 DEF SchemaInv
    <2> QED BY <2>3, <2>4 DEF AllOrNothing
  <1>2. FullInv => AllOrNothing
    BY <1>1
  <1> QED BY <1>2, FullInvInit, FullInvNext, PTL DEF Spec

\* OnlyRepeatableTwice: of several processes that have found the same version
\* pending only one commits its rollout, for any additive migrations, unless
\* the rollout does nothing but create the table if it does not exist.
THEOREM SafeOnlyRepeatableTwice ==
    ASSUME Additive PROVE Spec => []OnlyRepeatableTwice
  <1>1. FullInv => OnlyRepeatableTwice
    BY EffectAll DEF FullInv, SchemaInv, OnlyRepeatableTwice
  <1> QED BY <1>1, FullInvInit, FullInvNext, PTL DEF Spec

=============================================================================
