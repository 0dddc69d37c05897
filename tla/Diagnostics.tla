----------------------------- MODULE Diagnostics ------------------------------
(***************************************************************************)
(* The metrics registry, the diagnostics task that turns it into samples,  *)
(* and GET /stats, which reads the samples back.                           *)
(*                                                                         *)
(* Threads call Collect: it reads the clock, waits for the mutex, drops    *)
(* what has left the window and appends.  The task wakes every interval,   *)
(* reads the clock, flushes the registry and posts a job to the write      *)
(* strand whose statements commit one by one.  The window of the registry  *)
(* is the interval of the task (api.cpp:54).                               *)
(*                                                                         *)
(* The registry and the timer use the steady clock, the windows and the    *)
(* retention the system clock, which may be set at any time, also while    *)
(* the server is down.  Durations and sizes (min, max, avg, cost) are left *)
(* out; ingest_request and backlog_drop are counted like query_request.    *)
(***************************************************************************)
EXTENDS Naturals, Integers, Sequences, FiniteSets

CONSTANTS
    Threads,        \* threads that record observations
    Interval,       \* task_diagnostics_interval
    Retention,      \* stats_retention_hours, in clock ticks
    MaxTime,        \* bound: the clock
    MaxObservations,    \* bound: observations
    MaxItems,       \* bound: item_count of a batch
    MaxStops,       \* bound: crashes
    MaxSets         \* bound: times the system clock is set

ASSUME DiagnosticsAssumption ==
    /\ Interval \in Nat \ {0} /\ Retention \in Nat
    /\ MaxTime \in Nat \ {0} /\ MaxObservations \in Nat
    /\ MaxItems \in Nat \ {0} /\ MaxStops \in Nat /\ MaxSets \in Nat

VARIABLES
    now,            \* the steady clock
    system,         \* the system clock
    reading,        \* per thread: the time Collect has read, 0 outside Collect
    observations,   \* MetricsRegistry::observations_
    pc,             \* "down", "wait", "flush", or the next statement of the job
    armed,          \* when the timer was armed, or expired
    window_since, window_until, row, cutoff,    \* locals of the task
    activity,       \* table activity_stats
    database,       \* table database_stats: the timestamps
    ask,            \* the GET /stats in progress: its activity rows, or None
    stops, sets,
    made, reported, gone,   \* history: items observed, written in a row, and
                    \* dropped by prune or lost with the process
    set_back,       \* history: has the system clock been set back?
    horizon         \* history: the latest cutoff so far

clockVars == <<now, system, sets, set_back>>
taskVars == <<pc, armed, window_since, window_until, row, cutoff>>
tableVars == <<activity, database>>
historyVars == <<made, reported, gone>>
vars == <<clockVars, reading, observations, taskVars, tableVars, ask, stops,
          historyVars, horizon>>

Names == {"query_request", "insert_batch"}
None == [rows |-> {}, open |-> FALSE]
NoRow == [since |-> 0]

\* ObservationSummary: sample_count and item_count of one name.  An item is a
\* pair of its observation's place and its number in the observation.
Named(samples, name) == {i \in 1..Len(samples) : samples[i].name = name}
ItemSet(samples, name) ==
    UNION {{i} \X (1..samples[i].item_count) : i \in Named(samples, name)}
Samples(samples, name) == Cardinality(Named(samples, name))
Items(samples, name) == Cardinality(ItemSet(samples, name))

Tally(samples) == [name \in Names |-> Items(samples, name)]
Plus(f, g) == [name \in Names |-> f[name] + g[name]]
Zero == [name \in Names |-> 0]

Init ==
    /\ now = 1 /\ system = 1 /\ sets = 0 /\ set_back = FALSE
    /\ reading = [t \in Threads |-> 0] /\ observations = <<>>
    /\ pc = "wait" /\ armed = 1 /\ window_since = 1 /\ window_until = 0
    /\ row = NoRow /\ cutoff = 0
    /\ activity = {} /\ database = {}
    /\ ask = None /\ stops = 0
    /\ made = Zero /\ reported = Zero /\ gone = Zero /\ horizon = 0

-----------------------------------------------------------------------------
(* MetricsRegistry *)

\* prune pops from the front while the front has left the window; an older
\* observation behind a younger one stays.
Pruned(time) ==
    LET out == {k \in 0..Len(observations) :
                    \A i \in 1..k : time - observations[i].at >= Interval}
    IN  CHOOSE k \in out : \A j \in out : j <= k

\* Collect reads the clock before it takes the lock.
CollectStart(t) ==
    /\ pc # "down" /\ reading[t] = 0
    /\ made["query_request"] + made["insert_batch"] < MaxObservations
    /\ reading' = [reading EXCEPT ![t] = now]
    /\ UNCHANGED <<clockVars, observations, taskVars, tableVars, ask, stops,
                   historyVars, horizon>>

Collect(t, name, items) ==
    /\ reading[t] # 0
    /\ LET k == Pruned(reading[t])
       IN  /\ gone' = Plus(gone, Tally(SubSeq(observations, 1, k)))
           /\ observations' =
                Append(SubSeq(observations, k + 1, Len(observations)),
                       [at |-> reading[t], name |-> name,
                        item_count |-> items])
    /\ reading' = [reading EXCEPT ![t] = 0]
    /\ made' = [made EXCEPT ![name] = @ + items]
    /\ UNCHANGED <<clockVars, taskVars, tableVars, ask, stops, reported, horizon>>

\* What MetricsRegistry::Flush answers, by the clock it has read.
Flushed(time) ==
    SubSeq(observations, Pruned(time) + 1, Len(observations))

-----------------------------------------------------------------------------
(* DiagnosticsTask *)

\* The timer expires at the end of the interval or later.
TimerFires ==
    /\ pc = "wait" /\ now >= armed + Interval
    /\ armed' = now
    /\ window_until' = system /\ pc' = "flush"
    /\ UNCHANGED <<clockVars, reading, observations, window_since, row, cutoff,
                   tableVars, ask, stops, historyVars, horizon>>

ActivityStats(samples) ==
    [since |-> window_since, until |-> window_until,
     query_count |-> Samples(samples, "query_request"),
     insert_batch_count |-> Samples(samples, "insert_batch"),
     insert_total_count |-> Items(samples, "insert_batch")]

\* The cutoff of the pass, and the latest of all passes.
Cutoff ==
    /\ cutoff' = window_until - Retention
    /\ horizon' = IF cutoff' > horizon THEN cutoff' ELSE horizon

\* Mutated forms of Flush: the registry is not emptied; the next window starts
\* at a clock that is read again.
FlushCopies ==
    /\ pc = "flush" /\ pc' = "activity"
    /\ gone' = Plus(gone, Tally(SubSeq(observations, 1, Pruned(now))))
    /\ row' = ActivityStats(Flushed(now))
    /\ observations' = Flushed(now)
    /\ Cutoff
    /\ window_since' = window_until /\ window_until' = 0
    /\ UNCHANGED <<clockVars, reading, armed, tableVars, ask, stops, made, reported>>

FlushReadsAgain ==
    /\ pc = "flush" /\ pc' = "activity"
    /\ row' = ActivityStats(observations) /\ observations' = <<>>
    /\ Cutoff
    /\ window_since' = system /\ window_until' = 0
    /\ UNCHANGED <<clockVars, reading, armed, tableVars, ask, stops, historyVars>>

\* Flush too reads its clock before it takes the lock.
Flush ==
    /\ pc = "flush" /\ pc' = "activity"
    /\ \E time \in armed..now :
        /\ gone' = Plus(gone, Tally(SubSeq(observations, 1, Pruned(time))))
        /\ row' = ActivityStats(Flushed(time))
    /\ observations' = <<>>
    /\ Cutoff
    /\ window_since' = window_until /\ window_until' = 0
    /\ UNCHANGED <<clockVars, reading, armed, tableVars, ask, stops, made, reported>>

RowTally == [query_request |-> row.query_count,
             insert_batch |-> row.insert_total_count]

InsertActivityStats ==
    /\ pc = "activity" /\ pc' = "database"
    /\ activity' = activity \cup {row}
    /\ reported' = Plus(reported, RowTally)
    /\ UNCHANGED <<clockVars, reading, observations, armed, window_since,
                   window_until, row, cutoff, database, ask, stops,
                   made, gone, horizon>>

\* Mutated form of InsertDatabaseStats: stamped with the time of the job.
InsertDatabaseStatsNow ==
    /\ pc = "database" /\ pc' = "delete_activity"
    /\ database' = database \cup {system}
    /\ UNCHANGED <<clockVars, reading, observations, armed, window_since,
                   window_until, row, cutoff, activity, ask, stops,
                   historyVars, horizon>>

InsertDatabaseStats ==
    /\ pc = "database" /\ pc' = "delete_activity"
    /\ database' = database \cup {row.until}
    /\ UNCHANGED <<clockVars, reading, observations, armed, window_since,
                   window_until, row, cutoff, activity, ask, stops,
                   historyVars, horizon>>

\* DeleteStatsBefore, first statement.
DeleteActivityStats ==
    /\ pc = "delete_activity" /\ pc' = "delete_database"
    /\ activity' = {r \in activity : r.until >= cutoff}
    /\ UNCHANGED <<clockVars, reading, observations, armed, window_since,
                   window_until, row, cutoff, database, ask, stops,
                   historyVars, horizon>>

\* DeleteStatsBefore, second statement; the task arms its timer again.
DeleteDatabaseStats ==
    /\ pc = "delete_database" /\ pc' = "wait"
    /\ database' = {t \in database : t >= cutoff}
    /\ armed' = now /\ row' = NoRow
    /\ UNCHANGED <<clockVars, reading, observations, window_since, window_until,
                   cutoff, activity, ask, stops, historyVars, horizon>>

-----------------------------------------------------------------------------
(* GET /stats: two queries, each on a reader connection of its own turn *)

\* until >= since and until <= until, so both ends are in.
InRange(range, time) == range.since <= time /\ time <= range.until

QueryActivityStats(range) ==
    /\ pc # "down" /\ ~ask.open /\ range.until > range.since
    /\ activity # {}                    \* bound: there is something to ask for
    /\ ask' = [rows |-> {r \in activity : InRange(range, r.until)},
               range |-> range, open |-> TRUE]
    /\ UNCHANGED <<clockVars, reading, observations, taskVars, tableVars, stops,
                   historyVars, horizon>>

\* The timestamps the second query returns.
DatabaseAnswer == {t \in database : InRange(ask.range, t)}

QueryDatabaseStats ==
    /\ ask.open
    /\ ask' = None
    /\ UNCHANGED <<clockVars, reading, observations, taskVars, tableVars, stops,
                   historyVars, horizon>>

-----------------------------------------------------------------------------

Tick ==
    /\ now < MaxTime
    /\ now' = now + 1 /\ system' = system + 1
    /\ UNCHANGED <<sets, set_back, reading, observations, taskVars, tableVars,
                   ask, stops, historyVars, horizon>>

\* The system clock is set; a slewed one is set back again and again.
SetClock(time) ==
    /\ time # system /\ sets < MaxSets
    /\ system' = time /\ sets' = sets + 1
    /\ set_back' = (set_back \/ time < system)
    /\ UNCHANGED <<now, reading, observations, taskVars, tableVars, ask, stops,
                   historyVars, horizon>>

\* A crash or a shutdown: the registry is memory, the tables stay, and the
\* row that was not written is lost.
Stop ==
    /\ pc # "down" /\ stops < MaxStops
    /\ pc' = "down" /\ stops' = stops + 1
    /\ gone' = Plus(gone, Plus(Tally(observations),
            IF pc = "activity" THEN RowTally ELSE Zero))
    /\ observations' = <<>> /\ reading' = [t \in Threads |-> 0]
    /\ ask' = None /\ row' = NoRow
    /\ armed' = 0 /\ window_since' = 0 /\ window_until' = 0
    /\ UNCHANGED <<clockVars, cutoff, tableVars, made, reported, horizon>>

\* Mutated form of Start: the first window ends now instead of starting now.
StartInThePast ==
    /\ pc = "down" /\ pc' = "wait"
    /\ armed' = now
    /\ window_since' = IF system > Interval THEN system - Interval ELSE 1
    /\ UNCHANGED <<clockVars, reading, observations, window_until, row, cutoff,
                   tableVars, ask, stops, historyVars, horizon>>

Start ==
    /\ pc = "down" /\ pc' = "wait"
    /\ armed' = now /\ window_since' = system
    /\ UNCHANGED <<clockVars, reading, observations, window_until, row, cutoff,
                   tableVars, ask, stops, historyVars, horizon>>

\* Bound: the range asked for; later samples fall outside.  Ranges of more than
\* a day, and texts that are no timestamps, are refused before any query.
Ranges == {[since |-> 1, until |-> MaxTime - 1]}

\* Only a batch stands for several items; bound: for MaxItems.
ItemCount(name) == IF name = "insert_batch" THEN MaxItems ELSE 1

Next ==
    \/ Tick \/ Stop \/ Start
    \/ \E time \in 1..MaxTime : SetClock(time)
    \/ \E t \in Threads :
        \/ CollectStart(t)
        \/ \E name \in Names : Collect(t, name, ItemCount(name))
    \/ TimerFires \/ Flush \/ InsertActivityStats \/ InsertDatabaseStats
    \/ DeleteActivityStats \/ DeleteDatabaseStats
    \/ \E range \in Ranges : QueryActivityStats(range)
    \/ QueryDatabaseStats

Spec == Init /\ [][Next]_vars

-----------------------------------------------------------------------------
(* Properties *)

\* The task has a row to write, or is writing it.
Writing == {"activity", "database", "delete_activity", "delete_database"}

\* Types; a thread's clock reading is past, and the window that is written ends
\* where the next one of the process begins.
TypeOK ==
    /\ now \in 1..MaxTime /\ system \in Nat \ {0}
    /\ reading \in [Threads -> 0..now] /\ armed \in 0..now
    /\ observations \in Seq([at : 1..now, name : Names,
                             item_count : 1..MaxItems])
    /\ pc \in {"down", "wait", "flush"} \cup Writing
    /\ {window_since, window_until} \subseteq Nat
    /\ {cutoff, horizon} \subseteq Int /\ database \subseteq Nat \ {0}
    /\ \A r \in activity : r.since \in Nat \ {0} /\ r.until \in Nat \ {0}
    /\ {made, reported, gone} \subseteq [Names -> Nat]
    /\ pc \in Writing => row.until = window_since

\* Every observation is reported in one row, or still in the registry, or
\* was dropped from it, or was lost with the process; none is reported twice,
\* although Collect and Flush race for the registry.
Accounted ==
    made = Plus(Plus(reported, gone),
                Plus(Tally(observations),
                     IF pc = "activity" THEN RowTally ELSE Zero))

\* The windows of two samples never overlap, across restarts too, and each is at
\* least an interval long, unless the system clock was set back: the windows are
\* read from it (diagnostics.hpp:116, 128), the timer runs on the steady clock.
DisjointWindows ==
    set_back \/ \A r, q \in activity :
        /\ r.until - r.since >= Interval
        /\ r # q => r.until <= q.since \/ q.until <= r.since

\* A row of database_stats has the activity row of the same pass, whatever
\* statement a crash fell between, until retention removes both.  GET /stats
\* reads the tables in two queries: of the samples that retention has not yet
\* reached, one may lack its database row because it was being written, and one
\* for every crash.  The clock may be set at any time: what counts is the latest
\* cutoff so far.
AnswerPaired ==
    /\ \A t \in database : t < horizon \/ \E r \in activity : r.until = t
    /\ ask.open =>
          Cardinality({r \in ask.rows : /\ r.until \notin DatabaseAnswer
                                        /\ r.until >= horizon}) <= 1 + stops

=============================================================================
