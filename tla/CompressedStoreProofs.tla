------------------------- MODULE CompressedStoreProofs -------------------------
(***************************************************************************)
(* Proofs about the column dictionary, for any columns, values and         *)
(* filters: the dictionary is one-to-one, rows read back as what was       *)
(* inserted, and a filter on a compressed column selects by value.         *)
(***************************************************************************)
EXTENDS CompressedStore, WellFoundedInduction, FiniteSetTheorems, TLAPS

-----------------------------------------------------------------------------
(* A fact about sets of naturals *)

\* A bounded set of naturals that is not empty has a largest element: the one
\* whose distance from the bound is least.
LEMMA MaxExists ==
    ASSUME NEW S, S \subseteq Nat, S # {}, NEW n \in Nat, \A i \in S : i <= n
    PROVE  \E m \in S : \A i \in S : i <= m
  <1> DEFINE R == OpToRel(<, Nat)
             D == {n - i : i \in S}
  <1>1. IsWellFoundedOn(R, Nat)
    BY NatLessThanWellFounded
  <1>2. \A y, x \in Nat : y < x => <<y, x>> \in R
    BY DEF OpToRel
  <1>3. D \subseteq Nat /\ D # {}
    <2>1. D \subseteq Nat
      BY SMT
    <2>2. QED
      BY <2>1
  <1>4. PICK x \in D : \A y \in D : ~(<<y, x>> \in R)
    <2> HIDE DEF R, D
    <2>1. QED
      BY <1>1, <1>3, WFMin
  <1>5. PICK m \in S : x = n - m
    OBVIOUS
  <1>6. ASSUME NEW i \in S PROVE i <= m
    <2>1. n - i \in D /\ n - i \in Nat /\ n - m \in Nat
      BY <1>3, <1>5
    <2>2. ~(n - i < n - m)
      <3> HIDE DEF R, D
      <3>1. QED
        BY <2>1, <1>2, <1>4, <1>5
    <2>3. i \in Nat /\ m \in Nat
      OBVIOUS
    <2>4. QED
      BY <2>2, <2>3
  <1>7. QED
    BY <1>6

-----------------------------------------------------------------------------
(* The inductive invariant *)

\* Types; ids are at most the number of rows tried, so a column has a largest
\* id, and the log is finite, so that it can be counted.
TypeInv ==
    /\ TypeOK
    /\ \A e \in lookup \cup dict \cup dict_txn : e.id <= tried
    /\ IsFiniteSet(rows) /\ IsFiniteSet(rows_txn)

\* Per column, one id for a text and one text for an id.
Injective(table) ==
    \A e, f \in table : e.col = f.col => (e.id = f.id <=> e.text = f.text)

\* On disk an id has one text, and a plain text one id.
DiskInv(table) ==
    \A e, f \in table : e.col = f.col =>
        /\ e.id = f.id => e.text = f.text
        /\ e.text = f.text /\ e.text \in Plain => e.id = f.id

\* What the lookup of a running process has to do with the table on disk: no id
\* on disk is above all of its column's; it has every plain entry; and an id is
\* for the text stored or for one that is stored as that.
Ahead(table) ==
    /\ \A e \in table : \E f \in lookup : f.col = e.col /\ e.id <= f.id
    /\ \A e \in table : e.text \in Plain => e \in lookup
    /\ \A e \in lookup, f \in table :
          (e.col = f.col /\ e.id = f.id) => f.text = e.text \/ f.text = Affinity[e.text]

\* The lookup of a running process is ahead of the database, and as long as
\* inserts go on it has no plain entry that the database has not; a process that
\* is down has neither a lookup nor a transaction.
LookupInv ==
    /\ writer # "down" => Ahead(dict \cup dict_txn)
    /\ writer \in {"idle", "begun"} =>
          \A e \in lookup : e.text \in Plain => e \in dict \cup dict_txn
    /\ writer \in {"idle", "dead", "down"} => dict_txn = {} /\ rows_txn = {}
    /\ writer = "broken" => dict_txn = {} /\ rows_txn = {} /\ ended # "never"
    /\ writer = "down" => lookup = {} /\ query = NoQuery
    /\ Injective(lookup) /\ DiskInv(dict \cup dict_txn)

\* Readable, with the rows of the open transaction.
RowsInv ==
    /\ (writer # "down" /\ ended # "before")
            => \A row \in rows \cup rows_txn : ReadsBack(lookup, row, Reliable)
    /\ ended = "never" => \A row \in rows : ReadsBack(dict, row, Plain)

Passing ==
    {row \in query.before : Covered(row, query.filter) /\ Passes(row, query.filter)}

\* The WHERE clause, made from an earlier lookup, admits only ids of texts that
\* the filter accepts, and every row that passed when the query began.
WhereInv ==
    /\ query.filter \in Filters /\ query.before \subseteq rows
    /\ DOMAIN query.where = DOMAIN query.filter
    /\ \A c \in DOMAIN query.filter :
          \A i \in query.where[c] :
             \E e \in lookup : /\ e.col = c /\ e.id = i
                               /\ e.text \in query.filter[c]
    /\ Passing \subseteq Selected(query.where)

\* A query under way.
QueryInv ==
    /\ query.pc = "select" =>
          query = [pc |-> "select", filter |-> query.filter,
                   before |-> query.before, where |-> query.where,
                   total |-> query.total, results |-> {}]
    /\ (query.pc \in {"count", "select"} /\ ended # "before") => WhereInv
    /\ (query.pc = "select" /\ ended # "before") =>
          /\ query.total \in Nat
          /\ Cardinality(Passing) <= query.total
          /\ query.total <= Cardinality(Selected(query.where))
    /\ QueryExact

Inv == TypeInv /\ LookupInv /\ RowsInv /\ QueryInv

-----------------------------------------------------------------------------
(* ColumnDictionary *)

StoredRow == [log : Log, ids : [Columns -> Nat]]

\* A new id is larger than every id of its column, and ids are at most the
\* number of rows tried: GetOrCreate never gives out an id in use.
LEMMA NextIdFresh ==
    ASSUME TypeInv, NEW c \in Columns
    PROVE  /\ NextValueId(c) \in 1..(tried + 1)
           /\ \A e \in lookup : e.col = c => e.id < NextValueId(c)
  <1>1. tried \in Nat /\ lookup \subseteq Entry /\ \A e \in lookup : e.id <= tried
    BY DEF TypeInv, TypeOK
  <1>2. IdsOf(c) \subseteq Nat \ {0} /\ \A i \in IdsOf(c) : i <= tried
    BY <1>1 DEF IdsOf, Entry
  <1>3. \A e \in lookup : e.col = c => e.id \in IdsOf(c)
    BY DEF IdsOf
  <1>4. CASE IdsOf(c) = {}
    BY <1>1, <1>3, <1>4 DEF NextValueId
  <1>5. CASE IdsOf(c) # {}
    <2> DEFINE m == CHOOSE i \in IdsOf(c) : \A j \in IdsOf(c) : j <= i
    <2>1. \E i \in IdsOf(c) : \A j \in IdsOf(c) : j <= i
      BY <1>1, <1>2, <1>5, MaxExists
    <2>2. m \in IdsOf(c) /\ \A j \in IdsOf(c) : j <= m
      BY <2>1
    <2>3. NextValueId(c) = 1 + m
      BY <1>5 DEF NextValueId
    <2> HIDE DEF m
    <2>4. m \in Nat \ {0} /\ m <= tried
      BY <1>2, <2>2
    <2>5. ASSUME NEW e \in lookup, e.col = c PROVE e.id < 1 + m
      <3>1. e.id <= m /\ e.id \in Nat
        BY <1>2, <1>3, <2>2, <2>5
      <3>2. QED
        BY <2>4, <3>1
    <2>6. QED
      BY <1>1, <2>3, <2>4, <2>5
  <1>6. QED
    BY <1>4, <1>5

\* A value has a text, and so has what is read back of it.
LEMMA TextsOf ==
    ASSUME NEW v \in Values
    PROVE  Text[v] \in Texts /\ Affinity[Text[v]] \in Texts
  BY DEF Texts

\* A plain text is stored as it is, and no other text is stored as it.
LEMMA PlainStored ==
    ASSUME NEW v \in Values
    PROVE  /\ Text[v] \in Plain => Affinity[Text[v]] = Text[v]
           /\ Affinity[Text[v]] \in Plain => Affinity[Text[v]] = Text[v]
  BY DEF Plain

\* Every text that can be relied on is the text of something.
LEMMA PlainReliable == Plain \subseteq Reliable
  BY DEF Reliable, Plain

\* What GetOrCreate adds keeps the lookup one-to-one.
LEMMA NewEntriesLaws ==
    ASSUME TypeInv, Injective(lookup), NEW log \in Log, NEW done \in SUBSET Columns
    PROVE  /\ NewEntries(log, done) \subseteq Entry
           /\ \A e \in NewEntries(log, done) :
                 /\ e.id <= tried + 1
                 /\ \E v \in Values : e.text = Text[v]
                 /\ \A f \in lookup : f.col = e.col => f.id < e.id /\ f.text # e.text
                 /\ \A f \in NewEntries(log, done) : f.col = e.col => f = e
           /\ Injective(lookup \cup NewEntries(log, done))
           /\ \A c \in done : log[c] # Null =>
                 \E e \in lookup \cup NewEntries(log, done) :
                    e.col = c /\ e.text = Text[log[c]]
  <1> DEFINE new == NewEntries(log, done)
  <1>1. tried \in Nat /\ lookup \subseteq Entry
    BY DEF TypeInv, TypeOK
  <1>2. ASSUME NEW e \in new
        PROVE  /\ e.col \in done /\ e.col \in Columns
               /\ log[e.col] # Null /\ ~Known(e.col, Text[log[e.col]])
               /\ e = [col |-> e.col, text |-> Text[log[e.col]],
                       id |-> NextValueId(e.col)]
    BY DEF NewEntries
  <1>3. ASSUME NEW e \in new
        PROVE  /\ e.text \in Texts /\ e.id \in 1..(tried + 1)
               /\ e.text = Text[log[e.col]] /\ e.id = NextValueId(e.col)
               /\ \E v \in Values : e.text = Text[v]
    <2>1. e.text = Text[log[e.col]] /\ e.id = NextValueId(e.col)
      BY <1>2
    <2>2. log[e.col] \in Values
      BY <1>2 DEF Log
    <2>3. e.text \in Texts
      BY <2>1, <2>2, TextsOf
    <2>4. e.id \in 1..(tried + 1)
      BY <1>2, <2>1, NextIdFresh
    <2>5. QED
      BY <2>1, <2>2, <2>3, <2>4
  <1>4. ASSUME NEW e \in new PROVE e \in Entry /\ e.id <= tried + 1
    <2>1. e.col \in Columns /\ e.text \in Texts /\ e.id \in Nat \ {0}
      BY <1>1, <1>2, <1>3
    <2>2. e \in Entry
      BY <1>2, <1>3, <2>1 DEF Entry
    <2>3. QED
      BY <1>1, <1>3, <2>2
  <1>5. ASSUME NEW e \in new, NEW f \in lookup, e.col = f.col
        PROVE  f.id < e.id /\ e.id # f.id /\ e.text # f.text
    <2>1. f.id < NextValueId(f.col) /\ f.id \in Nat /\ f.col \in Columns
      BY <1>1, <1>2, <1>5, NextIdFresh DEF Entry
    <2>2. f.id < e.id /\ e.id # f.id
      BY <1>1, <1>3, <1>5, <2>1
    <2>3. e.text # f.text
      BY <1>2, <1>3, <1>5 DEF Known
    <2>4. QED
      BY <2>2, <2>3
  <1>6. ASSUME NEW e \in new, NEW f \in new, e.col = f.col
        PROVE  e.id = f.id /\ e.text = f.text /\ f = e
    BY <1>2, <1>3, <1>6
  <1>7. Injective(lookup \cup new)
    <2>1. SUFFICES ASSUME NEW e \in lookup \cup new, NEW f \in lookup \cup new,
                          e.col = f.col
                   PROVE  e.id = f.id <=> e.text = f.text
      BY DEF Injective
    <2>2. CASE e \in lookup /\ f \in lookup
      BY <2>1, <2>2 DEF Injective
    <2>3. CASE e \in new /\ f \in lookup
      BY <1>5, <2>1, <2>3
    <2>4. CASE e \in lookup /\ f \in new
      <3>1. f.id # e.id /\ f.text # e.text
        BY <1>5, <2>1, <2>4
      <3>2. QED
        BY <3>1
    <2>5. CASE e \in new /\ f \in new
      BY <1>6, <2>1, <2>5
    <2>6. QED
      BY <2>1, <2>2, <2>3, <2>4, <2>5
  <1>8. ASSUME NEW c \in done, log[c] # Null
        PROVE  \E e \in lookup \cup new : e.col = c /\ e.text = Text[log[c]]
    <2>1. CASE Known(c, Text[log[c]])
      BY <2>1 DEF Known
    <2>2. CASE ~Known(c, Text[log[c]])
      <3> DEFINE n == [col |-> c, text |-> Text[log[c]], id |-> NextValueId(c)]
      <3>1. n \in new
        BY <1>8, <2>2 DEF NewEntries
      <3>2. n.col = c /\ n.text = Text[log[c]]
        OBVIOUS
      <3>3. QED
        BY <3>1, <3>2
    <2>3. QED
      BY <2>1, <2>2
  <1>9. QED
    BY <1>3, <1>4, <1>5, <1>6, <1>7, <1>8

\* A row encoded through a dictionary reads back through it.
LEMMA StoredReadsBack ==
    ASSUME NEW table, table \subseteq Entry, Injective(table), NEW log \in Log,
           \A c \in Columns : log[c] # Null =>
                \E e \in table : e.col = c /\ e.text = Text[log[c]]
    PROVE  /\ Stored(table, log) \in StoredRow
           /\ \A texts : ReadsBack(table, Stored(table, log), texts)
  <1> DEFINE ids == [c \in Columns |-> IF log[c] = Null THEN 0
                                       ELSE IdOf(table, c, Text[log[c]])]
             row == [log |-> log, ids |-> ids]
  <1>1. Stored(table, log) = row
    BY DEF Stored
  <1>2. ASSUME NEW c \in Columns, log[c] # Null
        PROVE  \E e \in table : /\ e.col = c /\ e.text = Text[log[c]]
                                /\ IdOf(table, c, Text[log[c]]) = e.id
    BY <1>2 DEF IdOf
  <1>3. ids \in [Columns -> Nat]
    <2>1. ASSUME NEW c \in Columns, log[c] # Null
          PROVE  IdOf(table, c, Text[log[c]]) \in Nat
      BY <1>2, <2>1 DEF Entry
    <2>2. QED
      BY <2>1
  <1>4. row \in StoredRow
    BY <1>3 DEF StoredRow
  <1>5. ASSUME NEW c \in Columns
        PROVE  IF log[c] = Null THEN ids[c] = 0
               ELSE Decodes(table, c, ids[c], Text[log[c]])
    <2>1. CASE log[c] = Null
      BY <2>1
    <2>2. CASE log[c] # Null
      <3>1. PICK e \in table : /\ e.col = c /\ e.text = Text[log[c]]
                               /\ ids[c] = e.id
        BY <1>2, <2>2
      <3>2. QED
        BY <2>2, <3>1 DEF Decodes, Injective
    <2>3. QED
      BY <2>1, <2>2
  <1>6. row.log = log /\ row.ids = ids
    OBVIOUS
  <1> HIDE DEF row, ids
  <1>7. QED
    BY <1>1, <1>4, <1>5, <1>6 DEF ReadsBack

\* What is written of new entries keeps the table on disk in order, and the
\* lookup, to which the entries are added, ahead of it.
LEMMA PersistedLaws ==
    ASSUME TypeInv, Injective(lookup), NEW log \in Log, NEW done \in SUBSET Columns,
           NEW table, table \subseteq Entry, Ahead(table), DiskInv(table),
           NEW new, new = NewEntries(log, done), lookup' = lookup \cup new
    PROVE  /\ Persisted(new) \subseteq Entry
           /\ \A e \in Persisted(new) : e.id <= tried + 1
           /\ \A t \in SUBSET (table \cup Persisted(new)) : DiskInv(t) /\ Ahead(t)'
           /\ \A e \in new : e.text \in Plain => e \in Persisted(new)
  <1> PICK written : written = Persisted(new)
    OBVIOUS
  <1>1. /\ new \subseteq Entry /\ Injective(lookup \cup new)
        /\ \A e \in new :
                 /\ e.id <= tried + 1
                 /\ \E v \in Values : e.text = Text[v]
                 /\ \A f \in lookup : f.col = e.col => f.id < e.id /\ f.text # e.text
                 /\ \A f \in new : f.col = e.col => f = e
    <2>1. /\ NewEntries(log, done) \subseteq Entry
          /\ Injective(lookup \cup NewEntries(log, done))
          /\ \A e \in NewEntries(log, done) :
                 /\ e.id <= tried + 1
                 /\ \E v \in Values : e.text = Text[v]
                 /\ \A f \in lookup : f.col = e.col => f.id < e.id /\ f.text # e.text
                 /\ \A f \in NewEntries(log, done) : f.col = e.col => f = e
      BY NewEntriesLaws, Zenon
    <2>2. QED
      BY <2>1, Zenon
  <1>2. ASSUME NEW w \in written
        PROVE  \E e \in new : /\ w = [e EXCEPT !.text = Affinity[e.text]]
                              /\ w.col = e.col /\ w.id = e.id /\ w.text = Affinity[e.text]
                              /\ w \in Entry
                              /\ w.text \in Plain => w = e
    <2>1. PICK e \in new : w = [e EXCEPT !.text = Affinity[e.text]]
      BY DEF Persisted
    <2>2. e \in Entry
      BY <1>1
    <2>3. PICK v \in Values : e.text = Text[v]
      BY <1>1
    <2>4. Affinity[e.text] \in Texts
      BY <2>3, TextsOf
    <2>5. w.col = e.col /\ w.id = e.id /\ w.text = Affinity[e.text] /\ w \in Entry
      BY <2>1, <2>2, <2>4 DEF Entry
    <2>6. w.text \in Plain => w.text = e.text
      BY <2>3, <2>5, PlainStored
    <2>7. w.text \in Plain => w = e
      BY <2>2, <2>5, <2>6 DEF Entry
    <2>8. QED
      BY <2>1, <2>5, <2>7
  <1>3. written \subseteq Entry /\ \A w \in written : w.id <= tried + 1
    BY <1>1, <1>2
  <1>4. ASSUME NEW e \in new, e.text \in Plain PROVE e \in written
    <2>1. Affinity[e.text] = e.text
      BY <1>1, <1>4, PlainStored
    <2>2. [e EXCEPT !.text = Affinity[e.text]] = e
      BY <1>1, <2>1 DEF Entry
    <2>3. QED
      BY <2>2 DEF Persisted
  <1>5. ASSUME NEW w \in written, NEW f \in table, w.col = f.col
        PROVE  f.id < w.id /\ (w.text = f.text => w.text \notin Plain)
    <2>1. PICK e \in new : /\ w.col = e.col /\ w.id = e.id
                           /\ w.text \in Plain => w = e
      BY <1>2
    <2>2. PICK g \in lookup : g.col = f.col /\ f.id <= g.id
      BY DEF Ahead
    <2>3. g.id < e.id
      BY <1>1, <1>5, <2>1, <2>2
    <2>4. f.id \in Nat /\ g.id \in Nat /\ e.id \in Nat
      BY <1>1 DEF Entry, TypeInv, TypeOK
    <2>5. f.id < w.id
      BY <2>1, <2>2, <2>3, <2>4
    <2>6. ASSUME w.text = f.text, w.text \in Plain PROVE FALSE
      <3>1. f \in lookup /\ f.col = e.col /\ f.text = e.text
        BY <1>5, <2>1, <2>6 DEF Ahead
      <3>2. QED
        BY <1>1, <3>1
    <2>7. QED
      BY <2>5, <2>6
  <1>6. ASSUME NEW w \in written, NEW x \in written, w.col = x.col PROVE w = x
    <2>1. PICK e \in new : w = [e EXCEPT !.text = Affinity[e.text]] /\ w.col = e.col
      BY <1>2
    <2>2. PICK f \in new : x = [f EXCEPT !.text = Affinity[f.text]] /\ x.col = f.col
      BY <1>2
    <2>3. e = f
      BY <1>1, <1>6, <2>1, <2>2
    <2>4. QED
      BY <2>1, <2>2, <2>3
  <1>7. DiskInv(table \cup written)
    <2>1. SUFFICES ASSUME NEW e \in table \cup written, NEW f \in table \cup written,
                          e.col = f.col
                   PROVE  /\ e.id = f.id => e.text = f.text
                          /\ e.text = f.text /\ e.text \in Plain => e.id = f.id
      BY DEF DiskInv
    <2>2. CASE e \in table /\ f \in table
      BY <2>1, <2>2 DEF DiskInv
    <2>3. CASE e \in written /\ f \in table
      <3>1. f.id < e.id /\ (e.text = f.text => e.text \notin Plain)
        BY <1>5, <2>1, <2>3
      <3>2. f.id \in Nat /\ e.id \in Nat
        BY <1>3, <2>3 DEF Entry
      <3>3. QED
        BY <3>1, <3>2
    <2>4. CASE e \in table /\ f \in written
      <3>1. e.id < f.id /\ (f.text = e.text => f.text \notin Plain)
        BY <1>5, <2>1, <2>4
      <3>2. f.id \in Nat /\ e.id \in Nat
        BY <1>3, <2>4 DEF Entry
      <3>3. QED
        BY <3>1, <3>2
    <2>5. CASE e \in written /\ f \in written
      BY <1>6, <2>1, <2>5
    <2>6. QED
      BY <2>2, <2>3, <2>4, <2>5
  <1>8. ASSUME NEW t, t \subseteq table \cup written PROVE Ahead(t)'
    <2>1. ASSUME NEW e \in t PROVE \E f \in lookup' : f.col = e.col /\ e.id <= f.id
      <3>1. CASE e \in table
        BY <3>1 DEF Ahead
      <3>2. CASE e \in written
        <4>1. PICK f \in new : e.col = f.col /\ e.id = f.id
          BY <1>2, <3>2
        <4>2. f.id \in Nat
          BY <1>1 DEF Entry
        <4>3. QED
          BY <4>1, <4>2
      <3>3. QED
        BY <1>8, <3>1, <3>2
    <2>2. ASSUME NEW e \in t, e.text \in Plain PROVE e \in lookup'
      <3>1. CASE e \in table
        BY <2>2, <3>1 DEF Ahead
      <3>2. CASE e \in written
        BY <1>2, <2>2, <3>2
      <3>3. QED
        BY <1>8, <3>1, <3>2
    <2>3. ASSUME NEW e \in lookup', NEW f \in t, e.col = f.col, e.id = f.id
          PROVE  f.text = e.text \/ f.text = Affinity[e.text]
      <3>1. CASE f \in table /\ e \in lookup
        BY <2>3, <3>1 DEF Ahead
      <3>2. CASE f \in table /\ e \in new
        <4>1. PICK g \in lookup : g.col = f.col /\ f.id <= g.id
          BY <3>2 DEF Ahead
        <4>2. g.id < e.id
          BY <1>1, <2>3, <3>2, <4>1
        <4>3. f.id \in Nat /\ g.id \in Nat /\ e.id \in Nat
          BY <1>1, <3>2 DEF Entry, TypeInv, TypeOK
        <4>4. QED
          BY <2>3, <4>1, <4>2, <4>3
      <3>3. CASE f \in written
        <4>1. PICK g \in new : f.col = g.col /\ f.id = g.id /\ f.text = Affinity[g.text]
          BY <1>2, <3>3
        <4>2. e.text = g.text
          BY <1>1, <2>3, <4>1 DEF Injective
        <4>3. QED
          BY <4>1, <4>2
      <3>4. QED
        BY <1>8, <3>1, <3>2, <3>3
    <2>4. QED
      BY <2>1, <2>2, <2>3 DEF Ahead
  <1>9. \A t \in SUBSET (table \cup written) : DiskInv(t) /\ Ahead(t)'
    <2>1. \A t \in SUBSET (table \cup written) : DiskInv(t)
      BY <1>7 DEF DiskInv
    <2>2. QED
      BY <1>8, <2>1
  <1>10. QED
    BY <1>3, <1>4, <1>9

\* A row that reads back goes on doing so when the dictionary grows.
LEMMA ReadsBackGrows ==
    ASSUME NEW table, NEW larger, table \subseteq larger, Injective(larger),
           NEW row, NEW texts, ReadsBack(table, row, texts)
    PROVE  ReadsBack(larger, row, texts)
  <1>1. ASSUME NEW c \in Columns, row.log[c] # Null, Text[row.log[c]] \in texts
        PROVE  Decodes(larger, c, row.ids[c], Text[row.log[c]])
    <2>1. Decodes(table, c, row.ids[c], Text[row.log[c]])
      BY <1>1 DEF ReadsBack
    <2>2. PICK e \in table : e.col = c /\ e.id = row.ids[c]
                             /\ e.text = Text[row.log[c]]
      BY <2>1 DEF Decodes
    <2>3. \A f \in larger : (f.col = c /\ f.id = row.ids[c])
                                => f.text = Text[row.log[c]]
      BY <2>2 DEF Injective
    <2>4. QED
      BY <2>2, <2>3 DEF Decodes
  <1>2. QED
    BY <1>1 DEF ReadsBack


-----------------------------------------------------------------------------
(* The query and what happens beside it *)

\* No query, as after a start or a stop of the process: nothing to keep.
LEMMA NoQueryYet ==
    ASSUME query' = NoQuery
    PROVE  QueryInv'
  <1>1. query'.pc = "none"
    BY DEF NoQuery
  <1>2. QED
    BY <1>1 DEF QueryInv, QueryExact

\* A query is not disturbed by a writer that adds rows and dictionary entries
\* between its steps.
LEMMA QueryStays ==
    ASSUME QueryInv, IsFiniteSet(rows'), IsFiniteSet(rows), rows \subseteq rows',
           lookup \subseteq lookup', query' = query, restarts' = restarts,
           ended' # "before" => ended # "before"
    PROVE  QueryInv'
  <1>1. query.pc = "select" =>
          query = [pc |-> "select", filter |-> query.filter,
                   before |-> query.before, where |-> query.where,
                   total |-> query.total, results |-> {}]
    BY DEF QueryInv
  <1>2. Passing' = Passing
    BY DEF Passing, Passes, Covered, Reliable
  <1>3. Selected(query.where) \subseteq Selected(query.where)'
    BY DEF Selected
  <1>4. Selected(query.where)' \subseteq rows' /\ Selected(query.where) \subseteq rows
    BY DEF Selected
  <1>5. /\ Cardinality(Selected(query.where)) <= Cardinality(Selected(query.where)')
        /\ Cardinality(Selected(query.where)) \in Nat
        /\ Cardinality(Selected(query.where)') \in Nat
    <2>1. IsFiniteSet(Selected(query.where)') /\ IsFiniteSet(Selected(query.where))
      BY <1>4, FS_Subset
    <2>2. QED
      BY <1>3, <2>1, FS_Subset, FS_CardinalityType
  <1>6. ASSUME query.pc \in {"count", "select"}, ended' # "before"
        PROVE  WhereInv'
    <2>1. WhereInv
      BY <1>6 DEF QueryInv
    <2>2. Passing' \subseteq Selected(query.where)'
      BY <1>2, <1>3, <2>1 DEF WhereInv
    <2>3. \A c \in DOMAIN query.filter : \A i \in query.where[c] :
             \E e \in lookup' : /\ e.col = c /\ e.id = i
                                /\ e.text \in query.filter[c]
      BY <2>1 DEF WhereInv
    <2>4. QED
      BY <2>1, <2>2, <2>3 DEF WhereInv
  <1>7. ASSUME query.pc = "select", ended' # "before"
        PROVE  /\ query.total \in Nat
               /\ Cardinality(Passing') <= query.total
               /\ query.total <= Cardinality(Selected(query.where)')
    <2>1. /\ query.total \in Nat
          /\ Cardinality(Passing) <= query.total
          /\ query.total <= Cardinality(Selected(query.where))
      BY <1>7 DEF QueryInv
    <2>2. query.total <= Cardinality(Selected(query.where)')
      BY <1>5, <2>1
    <2>3. QED
      BY <1>2, <2>1, <2>2
  <1>8. QueryExact'
    <2>1. QueryExact
      BY DEF QueryInv
    <2>2. QED
      BY <2>1 DEF QueryExact, Passes, Covered, Reliable
  <1>9. QED
    BY <1>1, <1>6, <1>7, <1>8 DEF QueryInv

\* A row found by the WHERE clause, if its values can be relied on, passes the
\* filter: its id is no NULL's, and reads back as a text that the filter accepts.
LEMMA SelectedPasses ==
    ASSUME TypeInv, WhereInv, NEW row \in Selected(query.where),
           ReadsBack(lookup, row, Reliable), Covered(row, query.filter)
    PROVE  Passes(row, query.filter)
  <1>1. SUFFICES ASSUME NEW c \in DOMAIN query.filter
                 PROVE  row.log[c] # Null /\ Text[row.log[c]] \in query.filter[c]
    BY DEF Passes
  <1>2. c \in Columns
    BY CompressedStoreAssumption DEF WhereInv
  <1>3. row.ids[c] \in query.where[c]
    BY DEF Selected, WhereInv
  <1>4. PICK e \in lookup : /\ e.col = c /\ e.id = row.ids[c]
                            /\ e.text \in query.filter[c]
    BY <1>3 DEF WhereInv
  <1>5. e.id # 0
    BY DEF TypeInv, TypeOK, Entry
  <1>6. row.log[c] # Null
    BY <1>2, <1>4, <1>5 DEF ReadsBack
  <1>7. Decodes(lookup, c, row.ids[c], Text[row.log[c]])
    BY <1>2, <1>6 DEF ReadsBack, Covered
  <1>8. e.text = Text[row.log[c]]
    BY <1>4, <1>7 DEF Decodes
  <1>9. QED
    BY <1>4, <1>6, <1>8

\* build_where_clause admits the id of every row that passes, if its values can
\* be relied on.
LEMMA PassesSelected ==
    ASSUME NEW filter \in Filters, NEW row,
           ReadsBack(lookup, row, Reliable), Covered(row, filter),
           Passes(row, filter), NEW c \in DOMAIN filter
    PROVE  row.ids[c] \in QueryCandidates(c, filter[c])
  <1>1. c \in Columns
    BY CompressedStoreAssumption
  <1>2. row.log[c] # Null /\ Text[row.log[c]] \in filter[c]
    BY DEF Passes
  <1>3. Decodes(lookup, c, row.ids[c], Text[row.log[c]])
    BY <1>1, <1>2 DEF ReadsBack, Covered
  <1>4. PICK e \in lookup : /\ e.col = c /\ e.id = row.ids[c]
                            /\ e.text = Text[row.log[c]]
    BY <1>3 DEF Decodes
  <1>5. QED
    BY <1>2, <1>4 DEF QueryCandidates

\* build_where_clause.
LEMMA InvQueryWhere ==
    ASSUME Inv, NEW filter \in Filters, QueryWhere(filter)
    PROVE  Inv'
  <1>1. /\ writer # "down"
        /\ query' = [pc |-> "count", filter |-> filter, before |-> rows,
                     where |-> build_where_clause(filter)]
        /\ UNCHANGED <<lookup, dict, dict_txn, rows, rows_txn, writer, ended,
                       tried, restarts>>
    BY DEF QueryWhere, storeVars
  <1>2. /\ query'.pc = "count" /\ query'.filter = filter /\ query'.before = rows
        /\ query'.where = build_where_clause(filter)
    BY <1>1
  <1>3. TypeInv'
    BY <1>1, <1>2 DEF Inv, TypeInv, TypeOK
  <1>4. LookupInv' /\ RowsInv'
    BY <1>1 DEF Inv, LookupInv, RowsInv, Ahead, DiskInv, Reliable
  <1>5. ASSUME ended' # "before" PROVE WhereInv'
    <2>1. /\ DOMAIN build_where_clause(filter) = DOMAIN filter
          /\ \A c \in DOMAIN filter :
                build_where_clause(filter)[c] = QueryCandidates(c, filter[c])
      BY DEF build_where_clause
    <2>2. \A c \in DOMAIN filter : \A i \in build_where_clause(filter)[c] :
             \E e \in lookup : e.col = c /\ e.id = i /\ e.text \in filter[c]
      BY <2>1 DEF QueryCandidates
    <2>3. ASSUME NEW row \in rows, Covered(row, filter), Passes(row, filter)
          PROVE  row \in Selected(build_where_clause(filter))
      <3>1. ReadsBack(lookup, row, Reliable)
        BY <1>1, <1>5 DEF Inv, RowsInv
      <3>2. \A c \in DOMAIN filter : row.ids[c] \in QueryCandidates(c, filter[c])
        BY <2>3, <3>1, PassesSelected
      <3>3. QED
        BY <2>1, <3>2 DEF Selected
    <2>4. Passing' = {row \in rows : Covered(row, filter) /\ Passes(row, filter)}
      BY <1>1, <1>2 DEF Passing, Passes, Covered, Reliable
    <2>5. Selected(query.where)' = Selected(build_where_clause(filter))
      BY <1>1, <1>2 DEF Selected
    <2>6. Passing' \subseteq Selected(query.where)'
      BY <2>3, <2>4, <2>5
    <2>7. QED
      BY <1>1, <1>2, <2>1, <2>2, <2>6 DEF WhereInv
  <1>6. QueryInv'
    BY <1>2, <1>5 DEF QueryInv, QueryExact
  <1>7. QED
    BY <1>3, <1>4, <1>6 DEF Inv

\* COUNT: the total lies between the rows that passed when the query began and
\* those the WHERE clause selects, and 0 ends the query with no row.
LEMMA InvQueryCount ==
    ASSUME Inv, QueryCount
    PROVE  Inv'
  <1> DEFINE total == Cardinality(Selected(query.where))
             pc == IF total = 0 THEN "answer" ELSE "select"
  <1>1. /\ query.pc = "count"
        /\ query' = [pc |-> pc, filter |-> query.filter, before |-> query.before,
                     where |-> query.where, total |-> total, results |-> {}]
        /\ UNCHANGED <<lookup, dict, dict_txn, rows, rows_txn, writer, ended,
                       tried, restarts>>
    BY DEF QueryCount, storeVars
  <1>2. /\ query'.pc = pc /\ query'.filter = query.filter
        /\ query'.before = query.before /\ query'.where = query.where
        /\ query'.total = total /\ query'.results = {}
    BY <1>1
  <1>3. pc \in {"answer", "select"} /\ (pc = "answer" => total = 0)
    OBVIOUS
  <1>4. TypeInv'
    BY <1>1, <1>2, <1>3 DEF Inv, TypeInv, TypeOK
  <1>5. LookupInv' /\ RowsInv'
    <2>1. writer # "down"
      BY <1>1 DEF Inv, LookupInv, NoQuery
    <2>2. QED
      BY <1>1, <2>1 DEF Inv, LookupInv, RowsInv, Ahead, DiskInv, Reliable
  <1>6. Passing' = Passing /\ Selected(query.where)' = Selected(query.where)
    BY <1>1, <1>2 DEF Passing, Passes, Covered, Reliable, Selected
  <1>7. ASSUME ended # "before"
        PROVE  /\ WhereInv' /\ total \in Nat /\ IsFiniteSet(Passing)
               /\ Cardinality(Passing) \in Nat /\ Cardinality(Passing) <= total
    <2>1. WhereInv
      BY <1>1, <1>7 DEF Inv, QueryInv
    <2>2. WhereInv'
      BY <1>1, <1>2, <1>6, <2>1 DEF WhereInv
    <2>3. IsFiniteSet(rows)
      BY DEF Inv, TypeInv
    <2>4. Selected(query.where) \subseteq rows /\ Passing \subseteq Selected(query.where)
      BY <2>1 DEF Selected, WhereInv
    <2>5. IsFiniteSet(Selected(query.where))
      BY <2>3, <2>4, FS_Subset
    <2>6. IsFiniteSet(Passing) /\ Cardinality(Passing) <= total
      BY <2>4, <2>5, FS_Subset
    <2>7. QED
      BY <2>2, <2>5, <2>6, FS_CardinalityType
  <1> HIDE DEF total, pc
  <1>8. ASSUME ended' # "before", query'.pc = "select"
        PROVE  /\ query'.total \in Nat
               /\ Cardinality(Passing') <= query'.total
               /\ query'.total <= Cardinality(Selected(query.where)')
    <2>1. total \in Nat /\ Cardinality(Passing) <= total
      BY <1>1, <1>7, <1>8
    <2>2. total <= Cardinality(Selected(query.where))
      BY <2>1 DEF total
    <2>3. QED
      BY <1>2, <1>6, <2>1, <2>2
  <1>9. ASSUME ended' # "before", query'.pc = "answer" PROVE QueryExact'
    <2>1. total = 0 /\ Cardinality(Passing) = 0 /\ IsFiniteSet(Passing)
      BY <1>1, <1>2, <1>3, <1>7, <1>9
    <2>2. Passing = {}
      BY <2>1, FS_EmptySet
    <2>3. Passing' = {row \in query'.before :
                         Covered(row, query.filter)' /\ Passes(row, query.filter)'}
      BY <1>2 DEF Passing, Passes
    <2>4. Cardinality({}) = 0
      BY FS_EmptySet
    <2>5. {row \in query'.before :
              Covered(row, query.filter)' /\ Passes(row, query.filter)'} = {}
      BY <1>6, <2>2, <2>3
    <2>6. query'.total = 0 /\ query'.results = {}
      BY <1>2, <2>1
    <2>7. QED
      BY <2>4, <2>5, <2>6 DEF QueryExact
  <1>10. QueryExact'
    BY <1>9 DEF QueryExact
  <1>11. query'.pc = "select" =>
           query' = [pc |-> "select", filter |-> query'.filter,
                     before |-> query'.before, where |-> query'.where,
                     total |-> query'.total, results |-> {}]
    BY <1>1, <1>2
  <1>12. QueryInv'
    BY <1>1, <1>7, <1>8, <1>10, <1>11 DEF QueryInv
  <1>13. QED
    BY <1>4, <1>5, <1>12 DEF Inv

\* SELECT: the rows it finds pass the filter and are at least as many as were
\* counted.
LEMMA InvQuerySelect ==
    ASSUME Inv, QuerySelect
    PROVE  Inv'
  <1>1. /\ query.pc = "select"
        /\ query' = [query EXCEPT !.pc = "answer",
                                  !.results = Selected(query.where)]
        /\ UNCHANGED <<lookup, dict, dict_txn, rows, rows_txn, writer, ended,
                       tried, restarts>>
    BY DEF QuerySelect, storeVars
  <1>2. query = [pc |-> "select", filter |-> query.filter,
                 before |-> query.before, where |-> query.where,
                 total |-> query.total, results |-> {}]
    BY <1>1 DEF Inv, QueryInv
  <1>3. /\ query'.pc = "answer" /\ query'.filter = query.filter
        /\ query'.before = query.before /\ query'.total = query.total
        /\ query'.results = Selected(query.where)
    <2>1. PICK f, b, w, t : query = [pc |-> "select", filter |-> f, before |-> b,
                                     where |-> w, total |-> t, results |-> {}]
      BY <1>2
    <2>2. query' = [query EXCEPT !.pc = "answer",
                                 !.results = Selected(query.where)]
      BY <1>1
    <2>3. QED
      BY <2>1, <2>2
  <1>4. TypeInv'
    BY <1>1, <1>3 DEF Inv, TypeInv, TypeOK
  <1>5. writer # "down"
    BY <1>1 DEF Inv, LookupInv, NoQuery
  <1>6. LookupInv' /\ RowsInv'
    BY <1>1, <1>5 DEF Inv, LookupInv, RowsInv, Ahead, DiskInv, Reliable
  <1>7. ASSUME ended' # "before" PROVE QueryExact'
    <2>1. WhereInv
      BY <1>1, <1>7 DEF Inv, QueryInv
    <2>2. ASSUME NEW row \in Selected(query.where), Covered(row, query.filter)
          PROVE  Passes(row, query.filter)
      <3>1. ReadsBack(lookup, row, Reliable)
        BY <1>1, <1>5, <1>7 DEF Inv, RowsInv, Selected
      <3>2. QED
        BY <2>1, <2>2, <3>1, SelectedPasses DEF Inv
    <2>3. /\ Cardinality(Passing) <= query.total
          /\ query.total <= Cardinality(Selected(query.where))
          /\ Passing \subseteq Selected(query.where)
      BY <1>1, <1>7, <2>1 DEF Inv, QueryInv, WhereInv
    <2>4. {row \in query'.before :
              Covered(row, query.filter)' /\ Passes(row, query.filter)'} = Passing
      BY <1>1, <1>3 DEF Passing, Passes, Covered, Reliable
    <2>5. \A row \in query'.results :
             Covered(row, query.filter)' => Passes(row, query.filter)'
      <3>1. \A row : /\ Covered(row, query.filter)' <=> Covered(row, query.filter)
                     /\ Passes(row, query.filter)' <=> Passes(row, query.filter)
        BY <1>1, <1>3 DEF Covered, Passes, Reliable
      <3>2. QED
        BY <1>3, <2>2, <3>1
    <2>6. QED
      BY <1>1, <1>3, <2>2, <2>3, <2>4, <2>5 DEF QueryExact
  <1>8. QueryInv'
    BY <1>3, <1>7 DEF QueryInv, QueryExact
  <1>9. QED
    BY <1>4, <1>6, <1>8 DEF Inv

-----------------------------------------------------------------------------
(* The writer *)

\* What encoding the columns done of a log does to the types and the lookup.
LEMMA Encode ==
    ASSUME Inv, NEW log \in Log, NEW done \in SUBSET Columns,
           lookup' = lookup \cup NewEntries(log, done), tried' = tried + 1
    PROVE  /\ tried' \in Nat /\ lookup' \subseteq Entry
           /\ NewEntries(log, done) \subseteq Entry
           /\ \A e \in NewEntries(log, done) : e.id <= tried'
           /\ \A e \in lookup \cup dict \cup dict_txn : e.id <= tried'
           /\ Injective(lookup)'
           /\ \A row, texts :
                 ReadsBack(lookup, row, texts) => ReadsBack(lookup', row, texts)
           /\ writer # "down" => \E new :
                 /\ new = NewEntries(log, done)
                 /\ Persisted(new) \subseteq Entry
                 /\ \A e \in Persisted(new) : e.id <= tried'
                 /\ \A t \in SUBSET (dict \cup dict_txn \cup Persisted(new)) :
                       DiskInv(t) /\ Ahead(t)'
                 /\ \A e \in new : e.text \in Plain => e \in Persisted(new)
  <1>1. /\ tried \in Nat /\ lookup \subseteq Entry /\ dict \subseteq Entry
        /\ dict_txn \subseteq Entry
        /\ \A e \in lookup \cup dict \cup dict_txn : e.id <= tried
    BY DEF Inv, TypeInv, TypeOK
  <1>2. Injective(lookup)
    BY DEF Inv, LookupInv
  <1>3. /\ NewEntries(log, done) \subseteq Entry
        /\ \A e \in NewEntries(log, done) : e.id <= tried + 1
        /\ Injective(lookup \cup NewEntries(log, done))
    BY <1>2, NewEntriesLaws DEF Inv
  <1>4. Injective(lookup')
    BY <1>3
  <1>5. \A row, texts : ReadsBack(lookup, row, texts) => ReadsBack(lookup', row, texts)
    BY <1>4, ReadsBackGrows
  <1>6. \A e \in lookup \cup dict \cup dict_txn : e.id <= tried + 1
    <2>1. \A e \in lookup \cup dict \cup dict_txn : e.id \in Nat
      BY <1>1 DEF Entry
    <2>2. QED
      BY <1>1, <2>1
  <1>7. Injective(lookup)'
    BY <1>4
  <1>8. /\ tried' \in Nat /\ lookup' \subseteq Entry
        /\ NewEntries(log, done) \subseteq Entry
        /\ \A e \in NewEntries(log, done) : e.id <= tried'
        /\ \A e \in lookup \cup dict \cup dict_txn : e.id <= tried'
    BY <1>1, <1>3, <1>6
  <1>9. ASSUME writer # "down"
        PROVE  \E new :
                 /\ new = NewEntries(log, done)
                 /\ Persisted(new) \subseteq Entry
                 /\ \A e \in Persisted(new) : e.id <= tried'
                 /\ \A t \in SUBSET (dict \cup dict_txn \cup Persisted(new)) :
                       DiskInv(t) /\ Ahead(t)'
                 /\ \A e \in new : e.text \in Plain => e \in Persisted(new)
    <2>1. PICK table : table = dict \cup dict_txn
      OBVIOUS
    <2>2. PICK new : new = NewEntries(log, done)
      OBVIOUS
    <2>3. table \subseteq Entry /\ Ahead(table) /\ DiskInv(table) /\ TypeInv
      BY <1>1, <1>9, <2>1 DEF Inv, LookupInv
    <2>4. /\ Persisted(new) \subseteq Entry
          /\ \A e \in Persisted(new) : e.id <= tried + 1
          /\ \A t \in SUBSET (table \cup Persisted(new)) : DiskInv(t) /\ Ahead(t)'
          /\ \A e \in new : e.text \in Plain => e \in Persisted(new)
      BY <1>2, <2>2, <2>3, PersistedLaws
    <2>5. QED
      BY <2>1, <2>2, <2>4
  <1>10. QED
    BY <1>5, <1>7, <1>8, <1>9

\* A row, or nothing, is written after the columns done were encoded, to the
\* transaction or, when that was ended, to the database.
LEMMA InvWrite ==
    ASSUME Inv, NEW log \in Log, NEW done \in SUBSET Columns, NEW newRows,
           newRows \subseteq StoredRow, IsFiniteSet(newRows),
           \A row \in newRows : \A texts : ReadsBack(lookup', row, texts),
           lookup' = lookup \cup NewEntries(log, done), tried' = tried + 1,
           Write(NewEntries(log, done), newRows),
           UNCHANGED <<writer, ended, restarts, query>>
    PROVE  Inv'
  <1>1. writer \in {"begun", "broken"}
    BY DEF Write
  <1>2. PICK new : /\ new = NewEntries(log, done)
                   /\ Persisted(new) \subseteq Entry
                   /\ \A e \in Persisted(new) : e.id <= tried'
                   /\ \A t \in SUBSET (dict \cup dict_txn \cup Persisted(new)) :
                         DiskInv(t) /\ Ahead(t)'
                   /\ \A e \in new : e.text \in Plain => e \in Persisted(new)
    BY <1>1, Encode
  <1>3. PICK written : written = Persisted(new)
    OBVIOUS
  <1>4. /\ tried' \in Nat /\ lookup' \subseteq Entry
        /\ \A e \in new : e.id <= tried'
        /\ \A e \in lookup \cup dict \cup dict_txn : e.id <= tried'
        /\ Injective(lookup)'
        /\ \A row, texts : ReadsBack(lookup, row, texts) => ReadsBack(lookup', row, texts)
    BY <1>2, Encode
  <1>5. /\ lookup' = lookup \cup new
        /\ writer = "begun" => /\ dict_txn' = dict_txn \cup written /\ dict' = dict
                               /\ rows_txn' = rows_txn \cup newRows /\ rows' = rows
        /\ writer = "broken" => /\ dict' = dict \cup written /\ dict_txn' = dict_txn
                                /\ rows' = rows \cup newRows /\ rows_txn' = rows_txn
    BY <1>2, <1>3 DEF Write
  <1>6. /\ rows \subseteq StoredRow /\ rows_txn \subseteq StoredRow
        /\ IsFiniteSet(rows) /\ IsFiniteSet(rows_txn)
        /\ dict \subseteq Entry /\ dict_txn \subseteq Entry
        /\ lookup \subseteq Entry /\ restarts \in Nat
        /\ ended \in {"never", "now", "before"}
        /\ query.pc \in {"none", "count", "select", "answer"}
    BY DEF Inv, TypeInv, TypeOK, StoredRow
  <1>7. /\ rows' \subseteq StoredRow /\ rows_txn' \subseteq StoredRow
        /\ IsFiniteSet(rows') /\ IsFiniteSet(rows_txn')
        /\ rows \subseteq rows'
        /\ rows' \cup rows_txn' = rows \cup rows_txn \cup newRows
    <2>1. IsFiniteSet(rows \cup newRows) /\ IsFiniteSet(rows_txn \cup newRows)
      BY <1>6, FS_Union
    <2>2. CASE writer = "begun"
      BY <1>5, <1>6, <2>1, <2>2
    <2>3. CASE writer = "broken"
      BY <1>5, <1>6, <2>1, <2>3
    <2>4. QED
      BY <1>1, <2>2, <2>3
  <1>8. /\ dict' \subseteq Entry /\ dict_txn' \subseteq Entry
        /\ dict' \cup dict_txn' = dict \cup dict_txn \cup written
    BY <1>1, <1>2, <1>3, <1>5, <1>6
  <1>9. \A e \in lookup' \cup dict' \cup dict_txn' : e.id <= tried'
    BY <1>2, <1>3, <1>4, <1>5, <1>8
  <1>10. TypeInv'
    BY <1>1, <1>4, <1>6, <1>7, <1>8, <1>9 DEF TypeInv, TypeOK, StoredRow
  <1>11. LookupInv'
    <2>1. PICK t : t = dict' \cup dict_txn'
      OBVIOUS
    <2>2. DiskInv(t) /\ Ahead(t)'
      BY <1>2, <1>3, <1>8, <2>1
    <2>3. DiskInv(dict \cup dict_txn)' /\ Ahead(dict \cup dict_txn)'
      BY <2>1, <2>2 DEF DiskInv, Ahead
    <2>4. /\ writer = "begun" =>
                \A e \in lookup : e.text \in Plain => e \in dict \cup dict_txn
          /\ writer = "broken" => dict_txn = {} /\ rows_txn = {} /\ ended # "never"
      BY DEF Inv, LookupInv
    <2>5. /\ writer = "begun" =>
                \A e \in lookup' : e.text \in Plain => e \in dict' \cup dict_txn'
          /\ writer = "broken" => dict_txn' = {} /\ rows_txn' = {} /\ ended # "never"
      BY <1>2, <1>3, <1>5, <1>8, <2>4
    <2>6. QED
      BY <1>1, <1>4, <2>3, <2>5 DEF LookupInv
  <1>12. RowsInv'
    <2>1. ASSUME ended # "before", NEW row \in rows' \cup rows_txn'
          PROVE  ReadsBack(lookup', row, Reliable)
      <3>1. row \in rows \cup rows_txn => ReadsBack(lookup, row, Reliable)
        BY <1>1, <2>1 DEF Inv, RowsInv
      <3>2. QED
        BY <1>4, <1>7, <3>1
    <2>2. ended = "never" => \A row \in rows' : ReadsBack(dict', row, Plain)
      BY <1>1, <1>5 DEF Inv, LookupInv, RowsInv
    <2>3. Reliable' = Reliable
      BY DEF Reliable
    <2>4. QED
      BY <2>1, <2>2, <2>3 DEF RowsInv, ReadsBack
  <1>13. QueryInv'
    BY <1>5, <1>6, <1>7, QueryStays DEF Inv
  <1>14. QED
    BY <1>10, <1>11, <1>12, <1>13 DEF Inv

\* A row is encoded and inserted.
LEMMA InvInsertRow ==
    ASSUME Inv, NEW log \in Log, InsertRow(log)
    PROVE  Inv'
  <1>1. /\ Write(NewEntries(log, Columns), {Stored(lookup', log)})
        /\ lookup' = lookup \cup NewEntries(log, Columns)
        /\ tried' = tried + 1 /\ UNCHANGED <<writer, ended, restarts, query>>
    BY DEF InsertRow
  <1>2. PICK row : row = Stored(lookup', log)
    OBVIOUS
  <1>3. lookup' \subseteq Entry /\ Injective(lookup')
    BY <1>1, Encode
  <1>4. \A c \in Columns : log[c] # Null =>
            \E e \in lookup' : e.col = c /\ e.text = Text[log[c]]
    <2>1. TypeInv /\ Injective(lookup) /\ Columns \in SUBSET Columns
      BY DEF Inv, LookupInv
    <2>2. \A c \in Columns : log[c] # Null =>
             \E e \in lookup \cup NewEntries(log, Columns) :
                e.col = c /\ e.text = Text[log[c]]
      BY <2>1, NewEntriesLaws
    <2>3. QED
      BY <1>1, <2>2
  <1>5. row \in StoredRow /\ \A texts : ReadsBack(lookup', row, texts)
    BY <1>2, <1>3, <1>4, StoredReadsBack
  <1>6. {row} \subseteq StoredRow /\ IsFiniteSet({row})
    BY <1>5, FS_Singleton
  <1>7. Write(NewEntries(log, Columns), {row})
    BY <1>1, <1>2
  <1>8. QED
    BY <1>1, <1>5, <1>6, <1>7, InvWrite

\* A row is skipped with some of its columns encoded.
LEMMA InvSkipRow ==
    ASSUME Inv, NEW log \in Log, NEW done \in SUBSET Columns, SkipRow(log, done)
    PROVE  Inv'
  <1>1. /\ Write(NewEntries(log, done), {})
        /\ lookup' = lookup \cup NewEntries(log, done)
        /\ tried' = tried + 1 /\ UNCHANGED <<writer, ended, restarts, query>>
    BY DEF SkipRow
  <1>2. IsFiniteSet({})
    BY FS_EmptySet
  <1>3. QED
    BY <1>1, <1>2, InvWrite

\* SQLite ends the transaction: its entries are gone from the database and stay
\* in the lookup.
LEMMA InvStepEndsTransaction ==
    ASSUME Inv, NEW log \in Log, StepEndsTransaction(log)
    PROVE  Inv'
  <1>1. /\ writer = "begun" /\ lookup' = lookup \cup NewEntries(log, Columns)
        /\ dict_txn' = {} /\ rows_txn' = {} /\ writer' = "broken"
        /\ ended' = IF ended = "before" THEN "before" ELSE "now"
        /\ tried' = tried + 1
        /\ UNCHANGED <<dict, rows, restarts, query>>
    BY DEF StepEndsTransaction
  <1>2. /\ tried' \in Nat /\ lookup' \subseteq Entry
        /\ \A e \in NewEntries(log, Columns) : e.id <= tried'
        /\ \A e \in lookup \cup dict \cup dict_txn : e.id <= tried'
        /\ Injective(lookup)'
        /\ \A row, texts : ReadsBack(lookup, row, texts) => ReadsBack(lookup', row, texts)
        /\ \A t \in SUBSET (dict \cup dict_txn) : DiskInv(t) /\ Ahead(t)'
    BY <1>1, Encode
  <1>3. IsFiniteSet({})
    BY FS_EmptySet
  <1>4. \A e \in lookup' \cup dict' \cup dict_txn' : e.id <= tried'
    BY <1>1, <1>2
  <1>5. TypeInv'
    BY <1>1, <1>2, <1>3, <1>4 DEF Inv, TypeInv, TypeOK
  <1>6. LookupInv'
    <2>1. PICK t : t = dict
      OBVIOUS
    <2>2. DiskInv(t) /\ Ahead(t)' /\ dict' \cup dict_txn' = t
      BY <1>1, <1>2, <2>1
    <2>3. DiskInv(dict \cup dict_txn)' /\ Ahead(dict \cup dict_txn)'
      BY <2>2 DEF DiskInv, Ahead
    <2>4. QED
      BY <1>1, <1>2, <2>3 DEF LookupInv
  <1>7. RowsInv'
    <2>1. ASSUME ended' # "before", NEW row \in rows
          PROVE  ReadsBack(lookup', row, Reliable)
      <3>1. ReadsBack(lookup, row, Reliable)
        BY <1>1, <2>1 DEF Inv, RowsInv
      <3>2. QED
        BY <1>2, <3>1
    <2>2. ended' # "never" /\ Reliable' = Reliable
      BY <1>1 DEF Reliable
    <2>3. QED
      BY <1>1, <2>1, <2>2 DEF RowsInv, ReadsBack
  <1>8. QueryInv'
    <2>1. ended' # "before" => ended # "before"
      BY <1>1
    <2>2. IsFiniteSet(rows)
      BY DEF Inv, TypeInv
    <2>3. QED
      BY <1>1, <2>1, <2>2, QueryStays DEF Inv
  <1>9. QED
    BY <1>5, <1>6, <1>7, <1>8 DEF Inv

\* GetOrCreate throws: what was written in autocommit mode stays.
LEMMA InvPersistFails ==
    ASSUME Inv, NEW log \in Log, NEW done \in SUBSET Columns, PersistFails(log, done)
    PROVE  Inv'
  <1>1. /\ writer \in {"begun", "broken"}
        /\ lookup' = lookup \cup NewEntries(log, done)
        /\ dict' = IF writer = "broken" THEN dict \cup Persisted(NewEntries(log, done))
                                        ELSE dict
        /\ dict_txn' = {} /\ rows_txn' = {} /\ writer' = "dead"
        /\ tried' = tried + 1
        /\ UNCHANGED <<rows, ended, restarts, query>>
    BY DEF PersistFails
  <1>2. PICK new : /\ new = NewEntries(log, done)
                   /\ Persisted(new) \subseteq Entry
                   /\ \A e \in Persisted(new) : e.id <= tried'
                   /\ \A t \in SUBSET (dict \cup dict_txn \cup Persisted(new)) :
                         DiskInv(t) /\ Ahead(t)'
    BY <1>1, Encode
  <1>3. PICK written : written = Persisted(new)
    OBVIOUS
  <1>4. /\ tried' \in Nat /\ lookup' \subseteq Entry
        /\ \A e \in new : e.id <= tried'
        /\ \A e \in lookup \cup dict \cup dict_txn : e.id <= tried'
        /\ Injective(lookup)'
        /\ \A row, texts : ReadsBack(lookup, row, texts) => ReadsBack(lookup', row, texts)
    BY <1>1, <1>2, Encode
  <1>5. /\ dict' \subseteq dict \cup written
        /\ lookup' = lookup \cup new /\ dict' \cup dict_txn' = dict'
    BY <1>1, <1>2, <1>3
  <1>6. IsFiniteSet({})
    BY FS_EmptySet
  <1>7. \A e \in lookup' \cup dict' \cup dict_txn' : e.id <= tried'
    BY <1>2, <1>3, <1>4, <1>5
  <1>8. TypeInv'
    <2>1. dict' \subseteq Entry
      BY <1>2, <1>3, <1>5 DEF Inv, TypeInv, TypeOK
    <2>2. QED
      BY <1>1, <1>4, <1>6, <1>7, <2>1 DEF Inv, TypeInv, TypeOK
  <1>9. LookupInv'
    <2>1. PICK t : t = dict'
      OBVIOUS
    <2>2. DiskInv(t) /\ Ahead(t)' /\ dict' \cup dict_txn' = t
      BY <1>2, <1>3, <1>5, <2>1
    <2>3. DiskInv(dict \cup dict_txn)' /\ Ahead(dict \cup dict_txn)'
      BY <2>2 DEF DiskInv, Ahead
    <2>4. QED
      BY <1>1, <1>4, <2>3 DEF LookupInv
  <1>10. RowsInv'
    <2>1. ASSUME ended # "before", NEW row \in rows
          PROVE  ReadsBack(lookup', row, Reliable)
      <3>1. ReadsBack(lookup, row, Reliable)
        BY <1>1, <2>1 DEF Inv, RowsInv
      <3>2. QED
        BY <1>4, <3>1
    <2>2. ended = "never" => dict' = dict
      BY <1>1 DEF Inv, LookupInv
    <2>3. Reliable' = Reliable
      BY <1>1 DEF Reliable
    <2>4. QED
      BY <1>1, <2>1, <2>2, <2>3 DEF Inv, RowsInv, ReadsBack
  <1>11. QueryInv'
    BY <1>1, QueryStays DEF Inv, TypeInv
  <1>12. QED
    BY <1>8, <1>9, <1>10, <1>11 DEF Inv

\* BEGIN.
LEMMA InvBegin ==
    ASSUME Inv, Begin
    PROVE  Inv'
  <1>1. /\ writer = "idle" /\ writer' = "begun"
        /\ UNCHANGED <<lookup, dict, dict_txn, rows, rows_txn, ended, tried,
                       restarts, query>>
    BY DEF Begin
  <1>2. TypeInv'
    BY <1>1 DEF Inv, TypeInv, TypeOK
  <1>3. LookupInv' /\ RowsInv'
    BY <1>1 DEF Inv, LookupInv, RowsInv, Ahead, DiskInv, Reliable
  <1>4. QueryInv'
    BY <1>1, QueryStays DEF Inv, TypeInv
  <1>5. QED
    BY <1>2, <1>3, <1>4 DEF Inv

\* COMMIT: every plain entry of the lookup is again on disk, and so what the
\* rows of the batch need of it.
LEMMA InvCommit ==
    ASSUME Inv, Commit
    PROVE  Inv'
  <1>1. /\ writer = "begun" /\ dict' = dict \cup dict_txn
        /\ rows' = rows \cup rows_txn /\ dict_txn' = {} /\ rows_txn' = {}
        /\ writer' = "idle"
        /\ UNCHANGED <<lookup, ended, tried, restarts, query>>
    BY DEF Commit
  <1>2. IsFiniteSet(rows') /\ IsFiniteSet({})
    BY <1>1, FS_Union, FS_EmptySet DEF Inv, TypeInv
  <1>3. TypeInv'
    BY <1>1, <1>2 DEF Inv, TypeInv, TypeOK
  <1>4. LookupInv'
    <2>1. dict' \cup dict_txn' = dict \cup dict_txn
      BY <1>1
    <2>2. DiskInv(dict \cup dict_txn)' /\ Ahead(dict \cup dict_txn)'
      BY <1>1, <2>1 DEF Inv, LookupInv, DiskInv, Ahead
    <2>3. QED
      BY <1>1, <2>1, <2>2 DEF Inv, LookupInv
  <1>5. RowsInv'
    <2>1. Reliable' = Reliable
      BY <1>1 DEF Reliable
    <2>2. ASSUME ended # "before", NEW row \in rows' \cup rows_txn'
          PROVE  ReadsBack(lookup, row, Reliable)
      BY <1>1, <2>2 DEF Inv, RowsInv
    <2>3. ASSUME ended = "never", NEW row \in rows' PROVE ReadsBack(dict', row, Plain)
      <3>1. ReadsBack(lookup, row, Reliable)
        BY <2>2, <2>3
      <3>2. SUFFICES ASSUME NEW c \in Columns, row.log[c] # Null,
                            Text[row.log[c]] \in Plain
                     PROVE  Decodes(dict', c, row.ids[c], Text[row.log[c]])
        BY <3>1 DEF ReadsBack
      <3>3. Decodes(lookup, c, row.ids[c], Text[row.log[c]])
        BY <3>1, <3>2, PlainReliable DEF ReadsBack
      <3>4. PICK e \in lookup : /\ e.col = c /\ e.id = row.ids[c]
                                /\ e.text = Text[row.log[c]]
        BY <3>3 DEF Decodes
      <3>5. e \in dict'
        BY <1>1, <3>2, <3>4 DEF Inv, LookupInv
      <3>6. DiskInv(dict')
        BY <1>1 DEF Inv, LookupInv
      <3>7. QED
        BY <3>4, <3>5, <3>6 DEF Decodes, DiskInv
    <2>4. QED
      BY <1>1, <2>1, <2>2, <2>3 DEF RowsInv
  <1>6. QueryInv'
    BY <1>1, <1>2, QueryStays DEF Inv, TypeInv
  <1>7. QED
    BY <1>3, <1>4, <1>5, <1>6 DEF Inv

\* COMMIT fails: the lookup stays ahead of the database.
LEMMA InvCommitFails ==
    ASSUME Inv, CommitFails
    PROVE  Inv'
  <1>1. /\ writer \in {"begun", "broken"} /\ dict_txn' = {} /\ rows_txn' = {}
        /\ writer' = "dead"
        /\ UNCHANGED <<lookup, dict, rows, ended, tried, restarts, query>>
    BY DEF CommitFails
  <1>2. IsFiniteSet({})
    BY FS_EmptySet
  <1>3. TypeInv'
    BY <1>1, <1>2 DEF Inv, TypeInv, TypeOK
  <1>4. LookupInv'
    BY <1>1 DEF Inv, LookupInv, Ahead, DiskInv
  <1>5. RowsInv'
    BY <1>1 DEF Inv, RowsInv, Reliable
  <1>6. QueryInv'
    BY <1>1, QueryStays DEF Inv, TypeInv
  <1>7. QED
    BY <1>3, <1>4, <1>5, <1>6 DEF Inv

\* The process stops.
LEMMA InvDown ==
    ASSUME Inv, Down
    PROVE  Inv'
  <1>1. /\ writer' = "down" /\ lookup' = {} /\ query' = NoQuery
        /\ dict_txn' = {} /\ rows_txn' = {}
        /\ UNCHANGED <<dict, rows, ended, tried, restarts>>
    BY DEF Down
  <1>2. IsFiniteSet({})
    BY FS_EmptySet
  <1>3. TypeInv'
    BY <1>1, <1>2 DEF Inv, TypeInv, TypeOK, NoQuery
  <1>4. LookupInv'
    <2>1. DiskInv(dict \cup dict_txn)'
      BY <1>1 DEF Inv, LookupInv, DiskInv
    <2>2. QED
      BY <1>1, <2>1 DEF LookupInv, Injective
  <1>5. RowsInv'
    BY <1>1 DEF Inv, RowsInv
  <1>6. QueryInv'
    BY <1>1, NoQueryYet
  <1>7. QED
    BY <1>3, <1>4, <1>5, <1>6 DEF Inv

\* What Initialize makes of a table on disk: a part of it, one-to-one, with the
\* largest id of each text and so every plain entry.
LEMMA LoadedLaws ==
    ASSUME NEW table, table \subseteq Entry, DiskInv(table), NEW n \in Nat,
           \A e \in table : e.id <= n
    PROVE  /\ Loaded(table) \subseteq table /\ Injective(Loaded(table))
           /\ \A e \in table : \E f \in Loaded(table) : f.col = e.col /\ e.id <= f.id
           /\ \A e \in table : e.text \in Plain => e \in Loaded(table)
  <1>1. Loaded(table) \subseteq table
    BY DEF Loaded
  <1>2. Injective(Loaded(table))
    <2>1. SUFFICES ASSUME NEW e \in Loaded(table), NEW f \in Loaded(table),
                          e.col = f.col
                   PROVE  e.id = f.id <=> e.text = f.text
      BY DEF Injective
    <2>2. e.id = f.id => e.text = f.text
      BY <1>1, <2>1 DEF DiskInv
    <2>3. ASSUME e.text = f.text PROVE e.id = f.id
      <3>1. e.id <= f.id /\ f.id <= e.id
        BY <2>1, <2>3 DEF Loaded
      <3>2. e.id \in Nat /\ f.id \in Nat
        BY <1>1 DEF Entry
      <3>3. QED
        BY <3>1, <3>2
    <2>4. QED
      BY <2>2, <2>3
  <1>3. ASSUME NEW e \in table
        PROVE  \E f \in Loaded(table) : f.col = e.col /\ e.id <= f.id
    <2> DEFINE same == {f \in table : f.col = e.col /\ f.text = e.text}
               ids == {f.id : f \in same}
    <2>1. ids \subseteq Nat /\ ids # {} /\ \A i \in ids : i <= n
      BY DEF Entry
    <2>2. PICK m \in ids : \A i \in ids : i <= m
      <3> HIDE DEF ids
      <3>1. QED
        BY <2>1, MaxExists
    <2>3. PICK f \in same : f.id = m
      OBVIOUS
    <2>4. \A g \in same : g.id <= f.id
      BY <2>2, <2>3
    <2>5. f \in Loaded(table)
      BY <2>3, <2>4 DEF Loaded
    <2>6. QED
      BY <2>3, <2>4, <2>5
  <1>4. ASSUME NEW e \in table, e.text \in Plain PROVE e \in Loaded(table)
    <2>1. \A f \in table : (f.col = e.col /\ f.text = e.text) => f.id = e.id
      BY <1>4 DEF DiskInv
    <2>2. e.id \in Nat
      BY DEF Entry
    <2>3. QED
      BY <2>1, <2>2 DEF Loaded
  <1>5. QED
    BY <1>1, <1>2, <1>3, <1>4

\* The process starts: the lookup is what came back of what was committed, and
\* so, unless SQLite ended a transaction in the middle of a batch, all that the
\* plain values of the rows need.
LEMMA InvInitialize ==
    ASSUME Inv, Initialize
    PROVE  Inv'
  <1>1. /\ writer = "down" /\ restarts' = restarts + 1 /\ lookup' = Loaded(dict)
        /\ writer' = "idle"
        /\ ended' = IF ended = "never" THEN "never" ELSE "before"
        /\ UNCHANGED <<dict, dict_txn, rows, rows_txn, tried, query>>
    BY DEF Initialize
  <1>2. dict_txn = {} /\ rows_txn = {} /\ DiskInv(dict)
    BY <1>1 DEF Inv, LookupInv
  <1>3. dict \subseteq Entry /\ tried \in Nat /\ \A e \in dict : e.id <= tried
    BY DEF Inv, TypeInv, TypeOK
  <1>4. /\ lookup' \subseteq dict /\ Injective(lookup')
        /\ \A e \in dict : \E f \in lookup' : f.col = e.col /\ e.id <= f.id
        /\ \A e \in dict : e.text \in Plain => e \in lookup'
    BY <1>1, <1>2, <1>3, LoadedLaws
  <1>5. TypeInv'
    BY <1>1, <1>4 DEF Inv, TypeInv, TypeOK
  <1>6. LookupInv'
    <2>1. Ahead(dict \cup dict_txn)' /\ DiskInv(dict \cup dict_txn)'
      BY <1>1, <1>2, <1>4 DEF Ahead, DiskInv
    <2>2. Injective(lookup)'
      BY <1>4 DEF Injective
    <2>3. \A e \in lookup' : e \in dict' \cup dict_txn'
      BY <1>1, <1>4
    <2>4. QED
      BY <1>1, <1>2, <2>1, <2>2, <2>3 DEF LookupInv
  <1>7. RowsInv'
    <2>1. Reliable' = Plain
      BY <1>1 DEF Inv, TypeInv, TypeOK, Reliable
    <2>2. ASSUME ended = "never", NEW row \in rows
          PROVE  ReadsBack(lookup', row, Plain)
      <3>1. ReadsBack(dict, row, Plain)
        BY <2>2 DEF Inv, RowsInv
      <3>2. SUFFICES ASSUME NEW c \in Columns, row.log[c] # Null,
                            Text[row.log[c]] \in Plain
                     PROVE  Decodes(lookup', c, row.ids[c], Text[row.log[c]])
        BY <3>1 DEF ReadsBack
      <3>3. Decodes(dict, c, row.ids[c], Text[row.log[c]])
        BY <3>1, <3>2 DEF ReadsBack
      <3>4. PICK e \in dict : /\ e.col = c /\ e.id = row.ids[c]
                              /\ e.text = Text[row.log[c]]
        BY <3>3 DEF Decodes
      <3>5. e \in lookup'
        BY <1>4, <3>2, <3>4
      <3>6. QED
        BY <1>4, <3>3, <3>4, <3>5 DEF Decodes
    <2>3. ended = "never" => \A row \in rows' : ReadsBack(dict', row, Plain)
      BY <1>1 DEF Inv, RowsInv
    <2>4. rows' \cup rows_txn' = rows /\ (ended' # "before" => ended = "never")
      BY <1>1, <1>2 DEF Inv, TypeInv, TypeOK
    <2>5. QED
      BY <1>1, <2>1, <2>2, <2>3, <2>4 DEF RowsInv, ReadsBack
  <1>8. QueryInv'
    BY <1>1, NoQueryYet DEF Inv, LookupInv
  <1>9. QED
    BY <1>5, <1>6, <1>7, <1>8 DEF Inv

-----------------------------------------------------------------------------
(* The theorems *)

\* A new database satisfies the invariant.
LEMMA InvInit == Init => Inv
  <1>1. SUFFICES ASSUME Init PROVE Inv
    OBVIOUS
  <1>2. IsFiniteSet({})
    BY FS_EmptySet
  <1>3. TypeInv
    BY <1>1, <1>2 DEF Init, TypeInv, TypeOK, NoQuery
  <1>4. LookupInv
    BY <1>1 DEF Init, LookupInv, Injective, Ahead, DiskInv
  <1>5. RowsInv
    BY <1>1 DEF Init, RowsInv
  <1>6. QueryInv
    <2>1. query.pc = "none"
      BY <1>1 DEF Init, NoQuery
    <2>2. QED
      BY <2>1 DEF QueryInv, QueryExact
  <1>7. QED
    BY <1>3, <1>4, <1>5, <1>6 DEF Inv

\* Every step of the writer, of a query or of the process keeps it.
LEMMA InvNext == Inv /\ [Next]_vars => Inv'
  <1>1. SUFFICES ASSUME Inv, [Next]_vars PROVE Inv'
    OBVIOUS
  <1>2. CASE Begin
    BY <1>1, <1>2, InvBegin
  <1>3. ASSUME NEW log \in Log, InsertRow(log) PROVE Inv'
    BY <1>1, <1>3, InvInsertRow
  <1>4. ASSUME NEW log \in Log, StepEndsTransaction(log) PROVE Inv'
    BY <1>1, <1>4, InvStepEndsTransaction
  <1>5. ASSUME NEW log \in Log, NEW done \in SUBSET Columns, SkipRow(log, done)
        PROVE  Inv'
    BY <1>1, <1>5, InvSkipRow
  <1>6. ASSUME NEW log \in Log, NEW done \in SUBSET Columns, PersistFails(log, done)
        PROVE  Inv'
    BY <1>1, <1>6, InvPersistFails
  <1>7. CASE Commit
    BY <1>1, <1>7, InvCommit
  <1>8. CASE CommitFails
    BY <1>1, <1>8, InvCommitFails
  <1>9. CASE Down
    BY <1>1, <1>9, InvDown
  <1>10. CASE Initialize
    BY <1>1, <1>10, InvInitialize
  <1>11. ASSUME NEW filter \in Filters, QueryWhere(filter) PROVE Inv'
    BY <1>1, <1>11, InvQueryWhere
  <1>12. CASE QueryCount
    BY <1>1, <1>12, InvQueryCount
  <1>13. CASE QuerySelect
    BY <1>1, <1>13, InvQuerySelect
  <1>14. CASE UNCHANGED vars
    <2>1. UNCHANGED <<lookup, dict, dict_txn, rows, rows_txn, writer, ended, tried,
                      restarts, query>>
      BY <1>14 DEF vars, storeVars
    <2>2. TypeInv'
      BY <1>1, <2>1 DEF Inv, TypeInv, TypeOK
    <2>3. LookupInv'
      BY <1>1, <2>1 DEF Inv, LookupInv, Injective, Ahead, DiskInv
    <2>4. RowsInv'
      BY <1>1, <2>1 DEF Inv, RowsInv, Reliable
    <2>5. QueryInv'
      BY <1>1, <2>1, QueryStays DEF Inv, TypeInv
    <2>6. QED
      BY <2>2, <2>3, <2>4, <2>5 DEF Inv
  <1>15. QED
    BY <1>1, <1>2, <1>3, <1>4, <1>5, <1>6, <1>7, <1>8, <1>9, <1>10, <1>11, <1>12,
       <1>13, <1>14 DEF Next

\* The invariant holds in every reachable state.
LEMMA Invariance == Spec => []Inv
  BY InvInit, InvNext, PTL DEF Spec

\* Types: every entry has an id of at least 1, so that 0 can stand for NULL, and
\* every stored row has an id for each compressed column.
THEOREM TypeCorrect == Spec => []TypeOK
  <1>1. Inv => TypeOK
    BY DEF Inv, TypeInv
  <1>2. QED
    BY <1>1, Invariance, PTL

\* The dictionary is one-to-one in memory, and on disk for the texts that SQLite
\* does not take for numbers, across failed inserts, rollbacks and restarts: ids
\* are given out from the lookup (column_dict.cpp, GetOrCreate), which is ahead of
\* all that is on disk although texts come back changed.
THEOREM SafeOneToOne == Spec => []OneToOne
  <1>1. ASSUME Inv PROVE OneToOne
    <2>1. Injective(lookup) /\ DiskInv(dict \cup dict_txn)
      BY <1>1 DEF Inv, LookupInv
    <2>2. ASSUME NEW e \in lookup, NEW f \in dict \cup dict_txn, e.col = f.col
          PROVE  /\ e.id = f.id => f.text = e.text \/ f.text = Affinity[e.text]
                 /\ e.text = f.text /\ e.text \in Plain => e.id = f.id
      <3>1. Ahead(dict \cup dict_txn)
        BY <1>1, <2>2 DEF Inv, LookupInv
      <3>2. QED
        BY <2>1, <2>2, <3>1 DEF Ahead, Injective
    <2>3. QED
      BY <2>1, <2>2 DEF OneToOne, Injective, DiskInv
  <1>2. QED
    BY <1>1, Invariance, PTL

\* Every committed row reads back, through the lookup of a running process and,
\* as long as SQLite ended no transaction in the middle of a batch, through the
\* database alone; what an earlier process wrote, as far as its texts are none
\* that SQLite changes or mixes up.
THEOREM SafeReadable == Spec => []Readable
  <1>1. Inv => Readable
    BY DEF Inv, RowsInv, Readable, ReadableAfterRestart
  <1>2. QED
    BY <1>1, Invariance, PTL

\* GET /logs with filters answers every row that passed when it began and no row
\* that fails, and counts in between, whatever the writer does meanwhile, as far
\* as the values of the rows can be relied on: all of them in the process that
\* wrote them, after a restart those that SQLite neither changes nor mixes up.
THEOREM SafeQueryExact == Spec => []QueryExact
  <1>1. Inv => QueryExact
    BY DEF Inv, QueryInv
  <1>2. QED
    BY <1>1, Invariance, PTL

=============================================================================
