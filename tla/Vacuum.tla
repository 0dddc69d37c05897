------------------------------- MODULE Vacuum --------------------------------
(***************************************************************************)
(* The vacuum task: one pass is a job on the write strand that, statement  *)
(* by statement, gives free pages back (auto_vacuum INCREMENTAL), deletes  *)
(* the rows that are too old, deletes the oldest rows when the database is *)
(* too large, and rebuilds the file (auto_vacuum FULL).  Each statement is *)
(* a transaction of its own, so a crash may fall between two of them.      *)
(*                                                                         *)
(* A row fills one page; the other tables fill BasePages.                  *)
(***************************************************************************)
EXTENDS Naturals, Integers, FiniteSets, FiniteSetsExt

CONSTANTS
    PageSize,       \* bytes in a page
    BasePages,      \* pages of everything but the Log table
    MaxSize,        \* vacuum_max_size_bytes, in pages
    TargetSize,     \* vacuum_target_size_bytes, in pages
    MaxAge,         \* vacuum_max_days, in clock ticks
    Budget,         \* task_vacuum_max_size, in pages
    HasTimestamp,   \* does Log have the column log_timestamp_field?
    MaxTime,        \* bound: the clock
    MaxInserts,     \* bound: rows inserted
    MaxStops        \* bound: crashes and shutdowns

ASSUME VacuumAssumption ==
    /\ PageSize \in Nat \ {0} /\ BasePages \in Nat \ {0}
    /\ MaxSize \in Nat /\ TargetSize \in Nat /\ MaxAge \in Nat
    /\ Budget \in Nat /\ HasTimestamp \in BOOLEAN
    /\ MaxTime \in Nat \ {0} /\ MaxInserts \in Nat /\ MaxStops \in Nat

VARIABLES
    log,        \* rows of the Log table: [id, ts]
    free,       \* PRAGMA freelist_count
    mode,       \* PRAGMA auto_vacuum: 0 NONE, 1 FULL, 2 INCREMENTAL
    now,        \* the system clock
    pc,         \* "down", "idle", or the next statement of the running pass
    inserts, stops

vars == <<log, free, mode, now, pc, inserts, stops>>

Init ==
    /\ log = {} /\ free = 0 /\ mode \in 0..2 /\ now = 1
    /\ pc = "down" /\ inserts = 0 /\ stops = 0

-----------------------------------------------------------------------------
(* What the database reports about itself *)

Ids == {row.id : row \in log}
GetMaxLogId == IF log = {} THEN 0 ELSE Max(Ids)
GetMinLogId == IF log = {} THEN 0 ELSE Min(Ids)
GetMinTimestamp == Min({row.ts : row \in log})

\* page_count - freelist_count: the pages in use.
UsedPages == BasePages + Cardinality(log)
GetSizeBytes == UsedPages * PageSize

\* From the ids alone: gaps count as rows.
EstimateLogRowCount ==
    IF log = {} THEN 0 ELSE GetMaxLogId - GetMinLogId + 1

EstimateAvgRowBytes ==
    LET rowcnt == EstimateLogRowCount
        avg == GetSizeBytes \div (IF rowcnt = 0 THEN 1 ELSE rowcnt)
    IN  IF avg = 0 THEN 1 ELSE avg

\* Rows worth the budget of an incremental pass.
MaxRows == (Budget * PageSize) \div EstimateAvgRowBytes

-----------------------------------------------------------------------------
(* Statements *)

\* DELETE: the pages go to the free list, except that auto_vacuum FULL
\* truncates the file when the statement commits.
DeleteLogs(rows) ==
    /\ log' = log \ rows
    /\ free' = IF mode = 1 THEN 0 ELSE free + Cardinality(rows)

\* limit_mb is 0, no limit, in the other modes.
Limited == mode = 2 /\ Budget > 0

Cutoff == now - MaxAge

\* Mutated form of StaleRows: the cap is taken for every mode.
StaleRowsAlwaysCapped ==
    {row \in log : row.ts <= Cutoff /\ row.id <= GetMinLogId + MaxRows - 1}

StaleRows ==
    LET cap == IF GetMinLogId + MaxRows - 1 < GetMaxLogId
               THEN GetMinLogId + MaxRows - 1 ELSE GetMaxLogId
    IN  {row \in log : /\ row.ts <= Cutoff
                       /\ Limited => row.id <= cap}

RemoveStaleLogs ==
    /\ pc = "stale"
    /\ pc' = "excess"
    /\ IF log # {} /\ GetMinTimestamp < Cutoff
       THEN DeleteLogs(StaleRows) ELSE UNCHANGED <<log, free>>
    /\ UNCHANGED <<mode, now, inserts, stops>>

\* static_cast<int64_t>(rowcnt * ratio): truncation, where a product that is
\* a whole number may have been rounded below it.
Shares ==
    LET rowcnt == GetMaxLogId - GetMinLogId + 1
        product == rowcnt * (UsedPages - TargetSize)
        whole == product \div UsedPages
    IN  IF UsedPages <= TargetSize THEN {0}
        ELSE IF product % UsedPages = 0 /\ whole > 0
             THEN {whole - 1, whole} ELSE {whole}

\* Mutated forms of ExcessMaxId: from the wrong end, and without any row.
ExcessMaxIdFromMax(share) == GetMaxLogId + share - 1

ExcessMaxIdNoRows(share) == GetMinLogId - 1

ExcessMaxId(share) ==
    LET byRatio == GetMinLogId + share - 1
        byBudget == GetMinLogId + MaxRows - 1
    IN  IF Limited /\ byBudget < byRatio THEN byBudget ELSE byRatio

RemoveExcessiveLogs ==
    /\ pc = "excess"
    /\ pc' = IF mode = 1 THEN "full" ELSE "idle"
    /\ IF UsedPages > MaxSize
       THEN \E share \in Shares :
                DeleteLogs({row \in log : row.id <= ExcessMaxId(share)})
       ELSE UNCHANGED <<log, free>>
    /\ UNCHANGED <<mode, now, inserts, stops>>

\* VACUUM and a checkpoint.
FullVacuum ==
    /\ pc = "full" /\ pc' = "idle"
    /\ free' = 0
    /\ UNCHANGED <<log, mode, now, inserts, stops>>

-----------------------------------------------------------------------------
(* The task *)

\* PRAGMA incremental_vacuum(n) empties the free list when n < 1.
Remain == IF Budget = 0 \/ Budget >= free THEN 0 ELSE free - Budget

AfterIncremental == IF HasTimestamp THEN "stale" ELSE "excess"

\* Mutated form of VacuumWake: the pass goes on although free pages remain.
VacuumWakeGoesOn ==
    /\ pc = "idle"
    /\ free' = IF mode = 2 THEN Remain ELSE free
    /\ pc' = AfterIncremental
    /\ UNCHANGED <<log, mode, now, inserts, stops>>

\* The timer has expired and the job starts.  In mode 2 it gives pages back
\* first, and the pass is over when free pages remain.
VacuumWake ==
    /\ pc = "idle"
    /\ free' = IF mode = 2 THEN Remain ELSE free
    /\ pc' = IF mode = 2 /\ Remain > 0 THEN "idle" ELSE AfterIncremental
    /\ UNCHANGED <<log, mode, now, inserts, stops>>

-----------------------------------------------------------------------------
(* Everything else *)

\* The flush task inserts a row; clients choose the timestamps.
Insert(ts) ==
    /\ pc = "idle" /\ inserts < MaxInserts
    /\ log' = log \cup {[id |-> GetMaxLogId + 1, ts |-> ts]}
    /\ free' = IF free > 0 THEN free - 1 ELSE 0
    /\ inserts' = inserts + 1
    /\ UNCHANGED <<mode, now, pc, stops>>

Tick ==
    /\ now < MaxTime /\ now' = now + 1
    /\ UNCHANGED <<log, free, mode, pc, inserts, stops>>

\* A crash, a shutdown, or a statement that throws: the task's exception
\* reaches on_task_error, which stops the server.
Stop ==
    /\ pc # "down" /\ stops < MaxStops
    /\ pc' = "down" /\ stops' = stops + 1
    /\ UNCHANGED <<log, free, mode, now, inserts>>

\* apply_params: another auto_vacuum value is followed by a VACUUM.
Open(value) ==
    /\ pc = "down" /\ pc' = "idle"
    /\ mode' = value
    /\ free' = IF value # mode THEN 0 ELSE free
    /\ UNCHANGED <<log, now, inserts, stops>>

Pass == VacuumWake \/ RemoveStaleLogs \/ RemoveExcessiveLogs \/ FullVacuum

Next ==
    \/ Pass
    \/ \E ts \in 1..MaxTime : Insert(ts)
    \/ Tick \/ Stop
    \/ \E value \in 0..2 : Open(value)

Spec == Init /\ [][Next]_vars

\* The timer expires again and again and the strand runs the job; a server
\* that is down is started again.
FairSpec ==
    /\ Spec
    /\ WF_vars(Pass) /\ WF_vars(\E value \in 0..2 : Open(value))

-----------------------------------------------------------------------------
(* Properties *)

Row == [id : 1..MaxInserts, ts : 1..MaxTime]

\* Types; in incremental mode a pass deletes rows only when no free page is left
\* to give back (vacuum.hpp:133), and the file is rebuilt only in full mode.
TypeOK ==
    /\ log \subseteq Row /\ free \in Nat /\ mode \in 0..2
    /\ now \in 1..MaxTime /\ stops \in 0..MaxStops
    /\ pc \in {"down", "idle", "stale", "excess", "full"}
    /\ mode = 2 /\ pc = AfterIncremental => free = 0
    /\ pc = "full" => mode = 1

\* remove_stale_logs and remove_excessive_logs together: a row that has not
\* reached its age is deleted only when the database is too large, no row with
\* a smaller id stays behind, and it is never the newest one, whatever the ratio
\* and the gaps are (its id would be assigned to another row).
FreshOnlyWhenOver ==
    [][\A row \in log \ log' :
            row.ts > Cutoff => /\ UsedPages > MaxSize
                               /\ \A kept \in log' : kept.id > row.id
                               /\ TargetSize > 0 => row.id # GetMaxLogId]_vars

\* remove_excessive_logs has no row to delete: what the database is over the
\* target is worth less than one row of the estimate, or (in incremental mode) a
\* row of average size exceeds the budget.
Stuck ==
    \/ Limited /\ Budget * PageSize < EstimateAvgRowBytes
    \/ \E share \in Shares : share = 0

\* The database gets below its maximal size and stays there, unless the task is
\* stuck.
Trimmed == <>[](UsedPages <= MaxSize \/ Stuck)

\* remove_stale_logs does not reach the row: its id is above the cap of a pass in
\* incremental mode.
AboveCap(row) == Limited /\ row.id > GetMinLogId + MaxRows - 1

\* No pass raises the cap: a row of average size exceeds the budget, or the row
\* with the smallest id is too young to go.
CapStays ==
    \/ MaxRows = 0
    \/ \E young \in log : young.id = GetMinLogId /\ young.ts > Cutoff

\* A row past its age is deleted for good, unless (in incremental mode) younger
\* rows hold the ids up to the cap of every pass, or a row of average size
\* exceeds the budget.
ExpiredGone ==
    <>[](HasTimestamp => \A row \in log :
            row.ts < Cutoff => AboveCap(row) /\ CapStays)

=============================================================================
