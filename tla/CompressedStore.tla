--------------------------- MODULE CompressedStore ----------------------------
(***************************************************************************)
(* Dictionary compression of columns: ColumnDictionary's in-memory lookup, *)
(* the column_dictionary table it persists to, and the rows that hold ids  *)
(* instead of values.                                                      *)
(*                                                                         *)
(* New entries are persisted on the writer connection, so inside the       *)
(* transaction of the batch being inserted: they commit and roll back with *)
(* its rows.  The in-memory lookup is not rolled back.                     *)
(*                                                                         *)
(* The value column of column_dictionary is declared JSON, which gives it  *)
(* NUMERIC affinity: SQLite stores a text that looks like a number as that *)
(* number, and reads it back as the number's text, so "05" comes back as   *)
(* "5".  The lookup keeps the text it was given until the process ends.    *)
(*                                                                         *)
(* A dictionary entry is a record [col, text, id]; a row keeps, next to    *)
(* the ids it is stored as, the values it was inserted with, for the       *)
(* properties only.                                                        *)
(*                                                                         *)
(* GET /logs builds its WHERE clause from the lookup, then counts, then    *)
(* selects, while the writer goes on.  A filter is the set of texts that   *)
(* its operator and value accept; limit and offset are left out, and so    *)
(* are the vacuum and the query without filters, whose total is an         *)
(* estimate.                                                               *)
(***************************************************************************)
EXTENDS Naturals, FiniteSets

CONSTANTS
    Columns,        \* the compressed columns
    Values,         \* JSON values other than null
    Text,           \* the canonical text of a value: a string itself,
                    \* anything else as serialize_value and dump write it
    Affinity,       \* what SQLite reads back for a text stored in the column
                    \* value: the text itself, unless it looks like a number
    Null,
    Filters,        \* bound: the queries asked, functions from the columns
                    \* filtered to sets of texts
    MaxRows,        \* bound: rows ever tried
    MaxRestarts     \* bound: starts of the process after the first

ASSUME CompressedStoreAssumption ==
    /\ DOMAIN Text = Values
    /\ DOMAIN Affinity = {Text[v] : v \in Values}
    /\ Null \notin Values
    /\ \A filter \in Filters :
            DOMAIN filter \subseteq Columns /\ DOMAIN filter # {}
    /\ MaxRows \in Nat
    /\ MaxRestarts \in Nat

VARIABLES
    lookup,     \* ColumnDictionary::lookup_
    dict,       \* committed rows of column_dictionary
    dict_txn,   \* those of the open transaction
    rows,       \* committed log rows
    rows_txn,   \* those of the open transaction
    writer,     \* "idle", "begun", "broken" (the transaction was ended by
                \* SQLite in the middle of the batch), "dead" (the flush task
                \* has ended; readers still run), "down" (no process)
    ended,      \* has SQLite ended a transaction in the middle of a batch:
                \* "never", "now" (in this process), "before" (in an earlier one)
    tried,      \* number of rows tried
    restarts,
    query       \* the GET /logs under way, or its answer

storeVars == <<lookup, dict, dict_txn, rows, rows_txn, writer, ended, tried,
               restarts>>
vars == <<storeVars, query>>

Texts == UNION {{Text[v], Affinity[Text[v]]} : v \in Values}
Entry == [col : Columns, text : Texts, id : Nat \ {0}]
Log == [Columns -> Values \cup {Null}]

\* The texts that come back from the database as they are, and that no other
\* text comes back as.
Plain ==
    {t \in Texts : \A v \in Values : Affinity[Text[v]] = t <=> Text[v] = t}

NoQuery == [pc |-> "none"]

Init ==
    /\ lookup = {} /\ dict = {} /\ dict_txn = {}
    /\ rows = {} /\ rows_txn = {}
    /\ writer = "idle"
    /\ ended = "never"
    /\ tried = 0
    /\ restarts = 0
    /\ query = NoQuery

-----------------------------------------------------------------------------
(* ColumnDictionary *)

Known(c, t) == \E e \in lookup : e.col = c /\ e.text = t

IdsOf(c) == {e.id : e \in {x \in lookup : x.col = c}}

\* Mutated form of NextValueId: the largest id is given out again.
NextValueIdReused(c) ==
    IF IdsOf(c) = {} THEN 1
    ELSE CHOOSE i \in IdsOf(c) : \A j \in IdsOf(c) : j <= i

\* Mutated form of NextValueId: the first id is 0, which stands for NULL.
NextValueIdFromZero(c) ==
    IF IdsOf(c) = {} THEN 0
    ELSE 1 + (CHOOSE i \in IdsOf(c) : \A j \in IdsOf(c) : j <= i)

\* One more than the largest id of the column, 1 for the first.
NextValueId(c) ==
    IF IdsOf(c) = {} THEN 1
    ELSE 1 + (CHOOSE i \in IdsOf(c) : \A j \in IdsOf(c) : j <= i)

\* What GetOrCreate adds for the non-null values of log in the columns done.
NewEntries(log, done) ==
    {[col |-> c, text |-> Text[log[c]], id |-> NextValueId(c)] :
        c \in {d \in done : log[d] # Null /\ ~Known(d, Text[log[d]])}}

\* GetOrCreate's answer in a lookup table that has the entry.
IdOf(table, c, t) == (CHOOSE e \in table : e.col = c /\ e.text = t).id

\* The row as stored: ids for values, 0 for NULL.
Stored(table, log) ==
    [log |-> log,
     ids |-> [c \in Columns |-> IF log[c] = Null THEN 0
                                ELSE IdOf(table, c, Text[log[c]])]]

\* GetValue(col, id) answers text: some entry for the id, and none for it with
\* another text, so that the scan of the table finds this one.
Decodes(table, c, id, text) ==
    /\ \E e \in table : e.col = c /\ e.id = id
    /\ \A e \in table : e.col = c /\ e.id = id => e.text = text

-----------------------------------------------------------------------------
(* WriterDatabase::Insert *)

Begin ==
    /\ writer = "idle"
    /\ writer' = "begun"
    /\ UNCHANGED <<lookup, dict, dict_txn, rows, rows_txn, ended, tried, restarts, query>>

\* The rows of column_dictionary that InsertColumnDictValue makes of entries.
Persisted(entries) == {[e EXCEPT !.text = Affinity[e.text]] : e \in entries}

\* Where a statement's effects go: to the transaction, or, when SQLite has
\* ended it, to the database at once.
Write(entries, newRows) ==
    \/ /\ writer = "begun"
       /\ dict_txn' = dict_txn \cup Persisted(entries)
       /\ rows_txn' = rows_txn \cup newRows
       /\ UNCHANGED <<dict, rows>>
    \/ /\ writer = "broken"
       /\ dict' = dict \cup Persisted(entries)
       /\ rows' = rows \cup newRows
       /\ UNCHANGED <<dict_txn, rows_txn>>

\* Mutated form of InsertRow: new entries are not persisted.
InsertRowNoPersist(log) ==
    LET new == NewEntries(log, Columns)
    IN  /\ tried < MaxRows
        /\ Write({}, {Stored(lookup \cup new, log)})
        /\ lookup' = lookup \cup new
        /\ tried' = tried + 1
        /\ UNCHANGED <<writer, ended, restarts, query>>

\* Every column of the log is encoded, and the row's step succeeds.
InsertRow(log) ==
    LET new == NewEntries(log, Columns)
    IN  /\ tried < MaxRows
        /\ Write(new, {Stored(lookup \cup new, log)})
        /\ lookup' = lookup \cup new
        /\ tried' = tried + 1
        /\ UNCHANGED <<writer, ended, restarts, query>>

\* The log is skipped: a required column is null, found after the columns done
\* (any of them: the table may order them in any way) were encoded; or its step
\* fails, all of them encoded.
SkipRow(log, done) ==
    LET new == NewEntries(log, done)
    IN  /\ tried < MaxRows
        /\ Write(new, {})
        /\ lookup' = lookup \cup new
        /\ tried' = tried + 1
        /\ UNCHANGED <<writer, ended, restarts, query>>

\* The row's step fails and SQLite rolls the transaction back; Insert logs the
\* error and goes on with the next row, in autocommit mode.
StepEndsTransaction(log) ==
    LET new == NewEntries(log, Columns)
    IN  /\ writer = "begun"
        /\ tried < MaxRows
        /\ lookup' = lookup \cup new
        /\ dict_txn' = {} /\ rows_txn' = {}
        /\ writer' = "broken"
        /\ ended' = IF ended = "before" THEN "before" ELSE "now"
        /\ tried' = tried + 1
        /\ UNCHANGED <<dict, rows, restarts, query>>

\* GetOrCreate throws after the columns done: ROLLBACK, and the flush task
\* ends with the exception.  In autocommit mode what was written stays.
PersistFails(log, done) ==
    LET new == NewEntries(log, done)
    IN  /\ writer \in {"begun", "broken"}
        /\ tried < MaxRows
        /\ lookup' = lookup \cup new
        /\ dict' = IF writer = "broken" THEN dict \cup Persisted(new) ELSE dict
        /\ dict_txn' = {} /\ rows_txn' = {}
        /\ writer' = "dead"
        /\ tried' = tried + 1
        /\ UNCHANGED <<rows, ended, restarts, query>>

\* COMMIT.
Commit ==
    /\ writer = "begun"
    /\ dict' = dict \cup dict_txn
    /\ rows' = rows \cup rows_txn
    /\ dict_txn' = {} /\ rows_txn' = {}
    /\ writer' = "idle"
    /\ UNCHANGED <<lookup, ended, tried, restarts, query>>

\* COMMIT fails (always, when there is no transaction left): ROLLBACK, and the
\* exception ends the flush task.
CommitFails ==
    /\ writer \in {"begun", "broken"}
    /\ dict_txn' = {} /\ rows_txn' = {}
    /\ writer' = "dead"
    /\ UNCHANGED <<lookup, dict, rows, ended, tried, restarts, query>>

-----------------------------------------------------------------------------
(* ReaderDatabase::Query *)

\* QueryCandidates: the ids of the texts a filter accepts.
QueryCandidates(c, accepts) ==
    {e.id : e \in {x \in lookup : x.col = c /\ x.text \in accepts}}

\* Mutated form of build_where_clause: a filter without candidates is left out.
build_where_clause_lax(filter) ==
    [c \in {d \in DOMAIN filter : QueryCandidates(d, filter[d]) # {}} |->
        QueryCandidates(c, filter[c])]

\* The ids admitted in each filtered column; "1=0" when one has none.
build_where_clause(filter) ==
    [c \in DOMAIN filter |-> QueryCandidates(c, filter[c])]

Selected(where) == {row \in rows : \A c \in DOMAIN where : row.ids[c] \in where[c]}

\* Bound: one query in the life of a process.
QueryWhere(filter) ==
    /\ writer # "down" /\ query = NoQuery
    /\ query' = [pc |-> "count", filter |-> filter, before |-> rows,
                 where |-> build_where_clause(filter)]
    /\ UNCHANGED storeVars

QueryCount ==
    /\ query.pc = "count"
    /\ LET total == Cardinality(Selected(query.where))
       IN  query' = [pc |-> IF total = 0 THEN "answer" ELSE "select",
                     filter |-> query.filter, before |-> query.before,
                     where |-> query.where, total |-> total, results |-> {}]
    /\ UNCHANGED storeVars

QuerySelect ==
    /\ query.pc = "select"
    /\ query' = [query EXCEPT !.pc = "answer",
                              !.results = Selected(query.where)]
    /\ UNCHANGED storeVars

-----------------------------------------------------------------------------
(* The process *)

\* The server has shut down or was killed; an open transaction is gone.
Down ==
    /\ writer # "down"
    /\ writer' = "down"
    /\ lookup' = {} /\ query' = NoQuery
    /\ dict_txn' = {} /\ rows_txn' = {}
    /\ UNCHANGED <<dict, rows, ended, tried, restarts>>

\* The lookup made of the rows of column_dictionary: they are read in the order
\* of their ids, and of those with the same text the last one stays.
Loaded(table) ==
    {e \in table : \A f \in table :
        (f.col = e.col /\ f.text = e.text) => f.id <= e.id}

\* WriterDatabase::Initialize loads the lookup from column_dictionary.
Initialize ==
    /\ writer = "down"
    /\ restarts < MaxRestarts
    /\ restarts' = restarts + 1
    /\ lookup' = Loaded(dict)
    /\ writer' = "idle"
    /\ ended' = IF ended = "never" THEN "never" ELSE "before"
    /\ UNCHANGED <<dict, dict_txn, rows, rows_txn, tried, query>>

Next ==
    \/ Begin
    \/ \E log \in Log : InsertRow(log) \/ StepEndsTransaction(log)
    \/ \E log \in Log, done \in SUBSET Columns :
          SkipRow(log, done) \/ PersistFails(log, done)
    \/ Commit
    \/ CommitFails
    \/ Down
    \/ Initialize
    \/ \E filter \in Filters : QueryWhere(filter)
    \/ QueryCount \/ QuerySelect

Spec == Init /\ [][Next]_vars

-----------------------------------------------------------------------------
(* Properties *)

\* The values the variables of the dictionary store range over.
TypeOK ==
    /\ lookup \subseteq Entry /\ dict \subseteq Entry /\ dict_txn \subseteq Entry
    /\ rows \subseteq [log : Log, ids : [Columns -> Nat]]
    /\ rows_txn \subseteq [log : Log, ids : [Columns -> Nat]]
    /\ writer \in {"idle", "begun", "broken", "dead", "down"}
    /\ ended \in {"never", "now", "before"}
    /\ tried \in Nat /\ restarts \in Nat
    /\ query.pc \in {"none", "count", "select", "answer"}

\* The texts the process can be relied on to read back: all that it was given
\* itself, the plain ones when it has loaded the work of an earlier process.
Reliable == IF restarts = 0 THEN Texts ELSE Plain

\* Each cell of row whose text is one of texts reads back, through table, as
\* that text, the canonical one of the value inserted, and NULL as NULL.
ReadsBack(table, row, texts) ==
    \A c \in Columns :
        IF row.log[c] = Null THEN row.ids[c] = 0
        ELSE Text[row.log[c]] \in texts =>
                Decodes(table, c, row.ids[c], Text[row.log[c]])

\* The database can be read after any crash or restart: every plain value of a
\* committed row reads back through the committed dictionary alone
\* (column_dict.hpp:35: "Persists new entries via PersistFn before returning the
\* new id").
ReadableAfterRestart == \A row \in rows : ReadsBack(dict, row, Plain)

\* A reader of the running process never gets a wrong value, nor "No value for
\* id": every committed row reads back through the in-memory lookup, which
\* rollbacks leave ahead of the database, even when SQLite ends a transaction in
\* the middle of a batch of this process; and as long as that has not happened
\* the database can be read after any crash.  After a restart this is so for the
\* values whose texts are plain: "05" has become "5", and with it both may have
\* lost the id of the one that was stored first.
Readable ==
    /\ (writer # "down" /\ ended # "before")
            => \A row \in rows : ReadsBack(lookup, row, Reliable)
    /\ ended = "never" => ReadableAfterRestart

\* The values of row pass filter.
Passes(row, filter) ==
    \A c \in DOMAIN filter : row.log[c] # Null /\ Text[row.log[c]] \in filter[c]

\* The values of row in the columns filtered can be relied on.
Covered(row, filter) ==
    \A c \in DOMAIN filter : row.log[c] # Null => Text[row.log[c]] \in Reliable

\* A filter on a compressed column selects by value, although it is turned into
\* ids once, and counting and selecting come later: among the rows whose values
\* can be relied on, the answer has none that fails the filter and every one that
\* passed it when the query began, and total lies between those and the whole
\* answer (reader_database.cpp:34-68).
QueryExact ==
    (query.pc = "answer" /\ ended # "before") =>
        LET passing == {row \in query.before :
                            Covered(row, query.filter) /\ Passes(row, query.filter)}
        IN  /\ passing \subseteq query.results
            /\ \A row \in query.results :
                  Covered(row, query.filter) => Passes(row, query.filter)
            /\ Cardinality(passing) <= query.total
            /\ query.total <= Cardinality(query.results)

\* The dictionary is one-to-one across rollbacks and restarts: in memory, per
\* column, one id for a text and one text for an id; on disk one text for an id,
\* and one id for a text that is plain; and an id stands for the same text in
\* memory and on disk, but for what storing it makes of the text.
OneToOne ==
    /\ \A e, f \in lookup : e.col = f.col => (e.id = f.id <=> e.text = f.text)
    /\ \A e, f \in dict \cup dict_txn : e.col = f.col =>
          /\ e.id = f.id => e.text = f.text
          /\ e.text = f.text /\ e.text \in Plain => e.id = f.id
    /\ \A e \in lookup, f \in dict \cup dict_txn : e.col = f.col =>
          /\ e.id = f.id => f.text = e.text \/ f.text = Affinity[e.text]
          /\ e.text = f.text /\ e.text \in Plain => e.id = f.id

=============================================================================
