--------------------------- MODULE DiagnosticsProofs ---------------------------
(***************************************************************************)
(* Proofs about the metrics registry, the diagnostics task and GET /stats, *)
(* for any threads, interval, retention time and number of crashes and of  *)
(* settings of the system clock: no observation is lost or reported twice, *)
(* windows do not overlap unless the clock was set back, and the two       *)
(* tables stay paired.                                                     *)
(***************************************************************************)
EXTENDS Diagnostics, WellFoundedInduction, FiniteSetTheorems,
        SequenceTheorems, TLAPS

-----------------------------------------------------------------------------
(* A fact about sets of naturals *)

\* A bounded set of naturals that is not empty has a largest element: the one
\* whose distance from the bound is least.
LEMMA MaxExists ==
    ASSUME NEW S, S \subseteq Nat, S # {}, NEW n \in Nat, \A i \in S : i <= n
    PROVE  \E m \in S : \A i \in S : i <= m
  <1> DEFINE R == OpToRel(<, Nat)
             D == {n - i : i \in S}
  <1>1. IsWellFoundedOn(R, Nat)
    BY NatLessThanWellFounded
  <1>2. \A y, x \in Nat : y < x => <<y, x>> \in R
    BY DEF OpToRel
  <1>3. D \subseteq Nat /\ D # {}
    <2>1. D \subseteq Nat
      BY SMT
    <2>2. QED
      BY <2>1
  <1>4. PICK x \in D : \A y \in D : ~(<<y, x>> \in R)
    <2> HIDE DEF R, D
    <2>1. QED
      BY <1>1, <1>3, WFMin
  <1>5. PICK m \in S : x = n - m
    OBVIOUS
  <1>6. ASSUME NEW i \in S PROVE i <= m
    <2>1. n - i \in D /\ n - i \in Nat /\ n - m \in Nat
      BY <1>3, <1>5
    <2>2. ~(n - i < n - m)
      <3> HIDE DEF R, D
      <3>1. QED
        BY <2>1, <1>2, <1>4, <1>5
    <2>3. i \in Nat /\ m \in Nat
      OBVIOUS
    <2>4. QED
      BY <2>2, <2>3
  <1>7. QED
    BY <1>6

-----------------------------------------------------------------------------
(* The inductive invariant *)

Observation == [at : Nat, name : Names, item_count : Nat]

\* Types; a query stands for itself, so that its samples are its items.
TypeInv ==
    /\ TypeOK
    /\ stops \in Nat /\ set_back \in BOOLEAN /\ IsFiniteSet(activity)
    /\ \A i \in 1..Len(observations) :
          observations[i].name = "query_request" => observations[i].item_count = 1

\* The ends of the window of the pass in progress are times, and so are those
\* of its row.
RowInv ==
    /\ pc # "down" => window_since # 0
    /\ pc = "flush" => window_until # 0
    /\ pc \in Writing =>
          row \in [since : Nat \ {0}, until : Nat \ {0}, query_count : Nat,
                   insert_batch_count : Nat, insert_total_count : Nat]

\* Samples of earlier windows ended before the time End.
End == CASE pc = "down" -> system
         [] pc = "activity" -> row.since
         [] OTHER -> window_since

\* What a system clock that is never set back makes of the windows: it has gone
\* at least as far as the steady clock since the window began.
Monotone ==
    /\ window_since <= system
    /\ pc = "wait" => system - window_since >= now - armed
    /\ pc = "flush" => /\ window_until <= system
                       /\ window_until - window_since >= Interval
    /\ pc \in Writing => row.until - row.since >= Interval
    /\ \A r \in activity : r.until <= End

WindowInv == (set_back \/ Monotone) /\ DisjointWindows

\* Samples within the retention time that have no database row, and get none.
Lacking == {r \in activity : /\ r.until \notin database /\ r.until >= horizon
                             /\ ~(pc = "database" /\ r = row)}

PairInv ==
    /\ cutoff <= horizon
    /\ \A t \in database : t < horizon \/ \E r \in activity : r.until = t
    /\ pc = "database" => row \in activity
    /\ Cardinality(Lacking) <= stops

\* The rows of GET /stats are rows of the table, or have expired since.
AskInv ==
    ask.open => \A r \in ask.rows : /\ InRange(ask.range, r.until)
                                    /\ r.until \in Nat \ {0}
                                    /\ r \in activity \/ r.until < horizon

Inv == TypeInv /\ RowInv /\ WindowInv /\ PairInv /\ AskInv /\ Accounted

-----------------------------------------------------------------------------
(* Samples and items *)

\* The items of an observation, 1 to item_count, are item_count many.
LEMMA UpTo ==
    ASSUME NEW n \in Nat
    PROVE  IsFiniteSet(1..n) /\ Cardinality(1..n) = n
  <1>1. /\ IsFiniteSet(1..n)
        /\ Cardinality(1..n) = IF 1 > n THEN 0 ELSE n - 1 + 1
    <2>1. 1 \in Int /\ n \in Int
      OBVIOUS
    <2>2. QED
      BY <2>1, FS_Interval
  <1>2. QED
    BY <1>1

\* What an item is: a place in the registry and a number in the observation.
LEMMA ItemMember ==
    ASSUME NEW s, NEW name, NEW x
    PROVE  x \in ItemSet(s, name) <=>
              \E i \in 1..Len(s), k \in Nat \ {0} :
                 /\ x = <<i, k>> /\ s[i].name = name
                 /\ k \in 1..s[i].item_count
  <1>1. ASSUME NEW i \in 1..Len(s), NEW k \in Nat \ {0}, x = <<i, k>>,
               s[i].name = name, k \in 1..s[i].item_count
        PROVE  x \in ItemSet(s, name)
    <2>1. i \in Named(s, name) /\ x \in {i} \X (1..s[i].item_count)
      BY <1>1 DEF Named
    <2>2. QED
      BY <2>1 DEF ItemSet
  <1>2. ASSUME x \in ItemSet(s, name)
        PROVE  \E i \in 1..Len(s), k \in Nat \ {0} :
                 /\ x = <<i, k>> /\ s[i].name = name
                 /\ k \in 1..s[i].item_count
    <2>1. PICK i \in Named(s, name) : x \in {i} \X (1..s[i].item_count)
      BY <1>2 DEF ItemSet
    <2>2. PICK k \in 1..s[i].item_count : x = <<i, k>>
      BY <2>1
    <2>3. k \in Nat \ {0}
      BY <2>2
    <2>4. QED
      BY <2>1, <2>2, <2>3 DEF Named
  <1>3. QED
    BY <1>1, <1>2

\* Counting is possible: a registry has finitely many items.
LEMMA ItemsFinite ==
    ASSUME NEW s \in Seq(Observation), NEW name
    PROVE  /\ IsFiniteSet(ItemSet(s, name)) /\ Items(s, name) \in Nat
           /\ IsFiniteSet(Named(s, name)) /\ Samples(s, name) \in Nat
  <1>1. Len(s) \in Nat /\ s \in [1..Len(s) -> Observation]
    BY LenProperties
  <1>2. IsFiniteSet(1..Len(s))
    BY <1>1, FS_Interval
  <1>3. Named(s, name) \subseteq 1..Len(s)
    BY DEF Named
  <1>4. IsFiniteSet(Named(s, name))
    BY <1>2, <1>3, FS_Subset
  <1>5. PICK f : f = [i \in Named(s, name) |-> {i} \X (1..s[i].item_count)]
    OBVIOUS
  <1>6. PICK T : T = {{i} \X (1..s[i].item_count) : i \in Named(s, name)}
    OBVIOUS
  <1>7. f \in Surjection(Named(s, name), T)
    BY <1>5, <1>6 DEF Surjection
  <1>8. IsFiniteSet(T)
    BY <1>4, <1>7, FS_Surjection
  <1>9. ASSUME NEW i \in Named(s, name)
        PROVE  IsFiniteSet({i} \X (1..s[i].item_count))
    <2>1. s[i].item_count \in Nat
      BY <1>1 DEF Named, Observation
    <2>2. IsFiniteSet({i}) /\ IsFiniteSet(1..s[i].item_count)
      BY <2>1, FS_Singleton, UpTo
    <2>3. QED
      BY <2>2, FS_Product
  <1>10. IsFiniteSet(UNION T)
    BY <1>6, <1>8, <1>9, FS_UNION
  <1>11. UNION T = ItemSet(s, name)
    BY <1>6 DEF ItemSet
  <1>12. IsFiniteSet(ItemSet(s, name))
    BY <1>10, <1>11
  <1>13. QED
    BY <1>4, <1>12, FS_CardinalityType DEF Items, Samples

\* The empty registry has no items.
LEMMA ItemsEmpty ==
    ASSUME NEW name
    PROVE  Items(<<>>, name) = 0
  <1>1. Named(<<>>, name) = {}
    BY DEF Named
  <1>2. ItemSet(<<>>, name) = {}
    BY <1>1 DEF ItemSet
  <1>3. QED
    BY <1>2, FS_EmptySet DEF Items

\* Append adds the items of its observation.
LEMMA ItemsAppend ==
    ASSUME NEW s \in Seq(Observation), NEW o \in Observation, NEW name
    PROVE  Items(Append(s, o), name) =
              Items(s, name) + (IF o.name = name THEN o.item_count ELSE 0)
  <1>1. PICK n \in Nat : n = Len(s)
    BY LenProperties
  <1>2. PICK a : a = Append(s, o)
    OBVIOUS
  <1>3. /\ Len(a) = n + 1 /\ a[n + 1] = o
        /\ \A i \in 1..n : a[i] = s[i]
    BY <1>1, <1>2, AppendProperties
  <1>4. PICK new : new = IF o.name = name THEN {n + 1} \X (1..o.item_count) ELSE {}
    OBVIOUS
  <1>5. o.item_count \in Nat
    BY DEF Observation
  <1>6. \A x : x \in new <=> /\ o.name = name
                             /\ \E k \in 1..o.item_count : x = <<n + 1, k>>
    BY <1>4
  <1>7. ItemSet(a, name) = ItemSet(s, name) \cup new
    <2>1. ASSUME NEW x \in ItemSet(a, name) PROVE x \in ItemSet(s, name) \cup new
      <3>1. PICK i \in 1..Len(a), k \in Nat \ {0} :
                 /\ x = <<i, k>> /\ a[i].name = name
                 /\ k \in 1..a[i].item_count
        BY <2>1, ItemMember
      <3>2. CASE i \in 1..n
        BY <1>1, <1>3, <3>1, <3>2, ItemMember
      <3>3. CASE i = n + 1
        BY <1>3, <1>6, <3>1, <3>3
      <3>4. QED
        BY <1>3, <3>1, <3>2, <3>3
    <2>2. ASSUME NEW x \in ItemSet(s, name) PROVE x \in ItemSet(a, name)
      <3>1. PICK i \in 1..n, k \in Nat \ {0} :
                 /\ x = <<i, k>> /\ s[i].name = name
                 /\ k \in 1..s[i].item_count
        BY <1>1, <2>2, ItemMember
      <3>2. i \in 1..Len(a) /\ a[i] = s[i]
        BY <1>3
      <3>3. QED
        BY <3>1, <3>2, ItemMember
    <2>3. ASSUME NEW x \in new PROVE x \in ItemSet(a, name)
      <3>1. PICK k \in 1..o.item_count : x = <<n + 1, k>>
        BY <1>6
      <3>2. n + 1 \in 1..Len(a) /\ k \in Nat \ {0} /\ o.name = name
        BY <1>3, <1>6
      <3>3. QED
        BY <1>3, <3>1, <3>2, ItemMember
    <2>4. QED
      BY <2>1, <2>2, <2>3
  <1>8. ItemSet(s, name) \cap new = {}
    <2>1. ASSUME NEW x \in ItemSet(s, name), x \in new PROVE FALSE
      <3>1. PICK i \in 1..n, k \in Nat \ {0} : x = <<i, k>>
        BY <1>1, <2>1, ItemMember
      <3>2. PICK j \in 1..o.item_count : x = <<n + 1, j>>
        BY <1>6, <2>1
      <3>3. i = n + 1
        BY <3>1, <3>2
      <3>4. QED
        BY <3>1, <3>3
    <2>2. QED
      BY <2>1
  <1>9. /\ IsFiniteSet(new)
        /\ Cardinality(new) = IF o.name = name THEN o.item_count ELSE 0
    <2>1. CASE o.name = name
      <3>1. /\ IsFiniteSet({n + 1}) /\ Cardinality({n + 1}) = 1
            /\ IsFiniteSet(1..o.item_count)
            /\ Cardinality(1..o.item_count) = o.item_count
        BY <1>5, FS_Singleton, UpTo
      <3>2. /\ IsFiniteSet({n + 1} \X (1..o.item_count))
            /\ Cardinality({n + 1} \X (1..o.item_count)) = 1 * o.item_count
        BY <3>1, FS_Product, ZenonT(30)
      <3>3. QED
        BY <1>4, <1>5, <2>1, <3>2
    <2>2. CASE o.name # name
      BY <1>4, <2>2, FS_EmptySet
    <2>3. QED
      BY <2>1, <2>2
  <1>10. IsFiniteSet(ItemSet(s, name)) /\ Cardinality(ItemSet(s, name)) \in Nat
    BY ItemsFinite DEF Items
  <1>11. Cardinality(ItemSet(s, name) \cup new) =
            Cardinality(ItemSet(s, name)) + Cardinality(new) - 0
    <2>1. Cardinality(ItemSet(s, name) \cap new) = 0
      BY <1>8, FS_EmptySet
    <2>2. Cardinality(ItemSet(s, name) \cup new) =
             Cardinality(ItemSet(s, name)) + Cardinality(new)
                - Cardinality(ItemSet(s, name) \cap new)
      BY <1>9, <1>10, FS_Union
    <2>3. QED
      BY <2>1, <2>2
  <1>12. QED
    BY <1>2, <1>5, <1>7, <1>9, <1>10, <1>11 DEF Items

\* A registry cut in two: the items of the parts are the items of the whole.
LEMMA ItemsSplit ==
    ASSUME NEW s \in Seq(Observation), NEW k \in 0..Len(s), NEW name
    PROVE  /\ SubSeq(s, 1, k) \in Seq(Observation)
           /\ SubSeq(s, k + 1, Len(s)) \in Seq(Observation)
           /\ Items(s, name) = Items(SubSeq(s, 1, k), name)
                               + Items(SubSeq(s, k + 1, Len(s)), name)
  <1>1. PICK n \in Nat : n = Len(s)
    BY LenProperties
  <1>2. s \in [1..n -> Observation] /\ k \in 0..n
    BY <1>1, LenProperties
  <1>3. PICK a : a = SubSeq(s, 1, k)
    OBVIOUS
  <1>4. PICK b : b = SubSeq(s, k + 1, n)
    OBVIOUS
  <1>5. a \in Seq(Observation) /\ Len(a) = k /\ \A i \in 1..k : a[i] = s[i]
    <2>1. \A i \in 1..k : s[i] \in Observation
      BY <1>2
    <2>2. /\ a \in Seq(Observation) /\ Len(a) = IF 1 <= k THEN k - 1 + 1 ELSE 0
          /\ \A i \in 1..k - 1 + 1 : a[i] = s[1 + i - 1]
      <3>1. 1 \in Int /\ k \in Int
        BY <1>2
      <3>2. QED
        BY <1>3, <2>1, <3>1, SubSeqProperties
    <2>3. QED
      BY <1>2, <2>2
  <1>6. b \in Seq(Observation) /\ Len(b) = n - k /\ \A i \in 1..n - k : b[i] = s[k + i]
    <2>1. \A i \in k + 1..n : s[i] \in Observation
      BY <1>2
    <2>2. /\ b \in Seq(Observation)
          /\ Len(b) = IF k + 1 <= n THEN n - (k + 1) + 1 ELSE 0
          /\ \A i \in 1..n - (k + 1) + 1 : b[i] = s[k + 1 + i - 1]
      <3>1. k + 1 \in Int /\ n \in Int
        BY <1>2
      <3>2. QED
        BY <1>4, <2>1, <3>1, SubSeqProperties
    <2>3. QED
      BY <1>2, <2>2
  <1>7. PICK f : f = [x \in ItemSet(b, name) |-> <<x[1] + k, x[2]>>]
    OBVIOUS
  <1>8. PICK B : B = {x \in ItemSet(s, name) : x[1] > k}
    OBVIOUS
  <1>9. f \in Bijection(ItemSet(b, name), B)
    <2>1. ASSUME NEW x \in ItemSet(b, name) PROVE f[x] \in B
      <3>1. PICK i \in 1..n - k, j \in Nat \ {0} :
                 /\ x = <<i, j>> /\ b[i].name = name /\ j \in 1..b[i].item_count
        BY <1>6, ItemMember
      <3>2. f[x] = <<i + k, j>>
        BY <1>7, <3>1
      <3>3. i + k \in 1..Len(s) /\ s[i + k] = b[i] /\ i + k > k
        BY <1>1, <1>2, <1>6
      <3>4. f[x] \in ItemSet(s, name)
        BY <3>1, <3>2, <3>3, ItemMember
      <3>5. QED
        BY <1>8, <3>2, <3>3, <3>4
    <2>2. ASSUME NEW x \in ItemSet(b, name), NEW y \in ItemSet(b, name), f[x] = f[y]
          PROVE  x = y
      <3>1. PICK i \in 1..n - k, j \in Nat \ {0} : x = <<i, j>>
        BY <1>6, ItemMember
      <3>2. PICK l \in 1..n - k, m \in Nat \ {0} : y = <<l, m>>
        BY <1>6, ItemMember
      <3>3. f[x] = <<i + k, j>> /\ f[y] = <<l + k, m>>
        BY <1>7, <3>1, <3>2
      <3>4. i + k = l + k /\ j = m
        <4>1. <<i + k, j>> = <<l + k, m>>
          BY <2>2, <3>3
        <4>2. QED
          BY <4>1
      <3>5. i = l
        BY <1>2, <3>4
      <3>6. QED
        BY <3>1, <3>2, <3>4, <3>5
    <2>3. ASSUME NEW y \in B PROVE \E x \in ItemSet(b, name) : f[x] = y
      <3>1. y \in ItemSet(s, name) /\ y[1] > k
        BY <1>8
      <3>2. PICK i \in 1..n, j \in Nat \ {0} :
                 /\ y = <<i, j>> /\ s[i].name = name /\ j \in 1..s[i].item_count
        BY <1>1, <3>1, ItemMember
      <3>3. i > k
        BY <3>1, <3>2
      <3>4. PICK l \in 1..n - k : i = l + k
        BY <1>2, <3>3
      <3>5. b[l] = s[i]
        BY <1>2, <1>6, <3>4
      <3>6. <<l, j>> \in ItemSet(b, name)
        BY <1>6, <3>2, <3>5, ItemMember
      <3>7. f[<<l, j>>] = y
        BY <1>7, <3>2, <3>4, <3>6
      <3>8. QED
        BY <3>6, <3>7
    <2>4. f \in [ItemSet(b, name) -> B]
      BY <1>7, <2>1
    <2>5. f \in Injection(ItemSet(b, name), B)
      BY <2>2, <2>4 DEF Injection, IsInjective
    <2>6. f \in Surjection(ItemSet(b, name), B)
      BY <2>3, <2>4 DEF Surjection
    <2>7. QED
      BY <2>5, <2>6 DEF Bijection
  <1>10. IsFiniteSet(B) /\ Cardinality(B) = Items(b, name)
    <2>1. IsFiniteSet(ItemSet(b, name))
      BY <1>6, ItemsFinite
    <2>2. ExistsBijection(ItemSet(b, name), B)
      BY <1>9 DEF ExistsBijection
    <2>3. QED
      BY <2>1, <2>2, FS_Bijection DEF Items
  <1>11. ItemSet(s, name) = ItemSet(a, name) \cup B /\ ItemSet(a, name) \cap B = {}
    <2>1. ASSUME NEW x \in ItemSet(a, name) PROVE x \in ItemSet(s, name) /\ x \notin B
      <3>1. PICK i \in 1..k, j \in Nat \ {0} :
                 /\ x = <<i, j>> /\ a[i].name = name /\ j \in 1..a[i].item_count
        BY <1>5, ItemMember
      <3>2. i \in 1..Len(s) /\ a[i] = s[i] /\ ~(i > k) /\ x[1] = i
        BY <1>1, <1>2, <1>5, <3>1
      <3>3. QED
        BY <1>8, <3>1, <3>2, ItemMember
    <2>2. ASSUME NEW x \in ItemSet(s, name), x \notin B PROVE x \in ItemSet(a, name)
      <3>1. PICK i \in 1..n, j \in Nat \ {0} :
                 /\ x = <<i, j>> /\ s[i].name = name /\ j \in 1..s[i].item_count
        BY <1>1, ItemMember
      <3>2. ~(i > k)
        BY <1>8, <2>2, <3>1
      <3>3. i \in 1..Len(a) /\ a[i] = s[i]
        BY <1>2, <1>5, <3>2
      <3>4. QED
        BY <3>1, <3>3, ItemMember
    <2>3. QED
      BY <1>8, <2>1, <2>2
  <1>12. IsFiniteSet(ItemSet(a, name)) /\ Items(a, name) \in Nat /\ Items(b, name) \in Nat
    BY <1>5, <1>6, ItemsFinite
  <1>13. Items(s, name) = Items(a, name) + Items(b, name)
    <2>1. Cardinality(ItemSet(a, name) \cap B) = 0
      BY <1>11, FS_EmptySet
    <2>2. Cardinality(ItemSet(a, name) \cup B) =
             Cardinality(ItemSet(a, name)) + Cardinality(B)
                - Cardinality(ItemSet(a, name) \cap B)
      BY <1>10, <1>12, FS_Union
    <2>3. QED
      BY <1>10, <1>11, <1>12, <2>1, <2>2 DEF Items
  <1>14. QED
    BY <1>1, <1>3, <1>4, <1>5, <1>6, <1>13

\* Where every observation of the name has one item, samples and items are the
\* same number.
LEMMA SamplesItems ==
    ASSUME NEW s \in Seq(Observation), NEW name,
           \A i \in 1..Len(s) : s[i].name = name => s[i].item_count = 1
    PROVE  Samples(s, name) = Items(s, name)
  <1>1. ItemSet(s, name) = Named(s, name) \X {1}
    <2>1. ASSUME NEW x \in ItemSet(s, name) PROVE x \in Named(s, name) \X {1}
      <3>1. PICK i \in 1..Len(s), k \in Nat \ {0} :
                 /\ x = <<i, k>> /\ s[i].name = name /\ k \in 1..s[i].item_count
        BY ItemMember
      <3>2. k = 1
        BY <3>1
      <3>3. QED
        BY <3>1, <3>2 DEF Named
    <2>2. ASSUME NEW i \in Named(s, name) PROVE <<i, 1>> \in ItemSet(s, name)
      <3>1. i \in 1..Len(s) /\ s[i].name = name /\ 1 \in 1..s[i].item_count
        BY DEF Named
      <3>2. QED
        BY <3>1, ItemMember
    <2>3. QED
      BY <2>1, <2>2
  <1>2. IsFiniteSet(Named(s, name)) /\ Cardinality(Named(s, name)) \in Nat
    BY ItemsFinite DEF Samples
  <1>3. IsFiniteSet({1}) /\ Cardinality({1}) = 1
    BY FS_Singleton
  <1>4. Cardinality(Named(s, name) \X {1}) = Cardinality(Named(s, name)) * 1
    BY <1>2, <1>3, FS_Product
  <1>5. QED
    BY <1>1, <1>2, <1>4 DEF Samples, Items

-----------------------------------------------------------------------------
(* The registry *)

\* A sequence over a set is one over a larger set: what was observed in the past
\* stays so.
LEMMA SeqWiden ==
    ASSUME NEW S, NEW T, S \subseteq T, NEW s \in Seq(S)
    PROVE  s \in Seq(T)
  <1>1. Len(s) \in Nat /\ s \in [1..Len(s) -> S]
    BY LenProperties
  <1>2. s \in [1..Len(s) -> T]
    BY <1>1
  <1>3. QED
    BY <1>1, <1>2

\* What the registry holds, for counting.
LEMMA Registry ==
    ASSUME TypeInv
    PROVE  /\ observations \in Seq(Observation) /\ Len(observations) \in Nat
           /\ \A i \in 1..Len(observations) :
                 /\ observations[i] \in [at : 1..now, name : Names,
                                         item_count : 1..MaxItems]
                 /\ observations[i].name = "query_request"
                        => observations[i].item_count = 1
  <1>1. /\ observations \in Seq([at : 1..now, name : Names, item_count : 1..MaxItems])
        /\ now \in 1..MaxTime /\ MaxTime \in Nat /\ MaxItems \in Nat
    BY DiagnosticsAssumption DEF TypeInv, TypeOK
  <1>2. [at : 1..now, name : Names, item_count : 1..MaxItems] \subseteq Observation
    BY <1>1 DEF Observation
  <1>3. observations \in Seq(Observation)
    BY <1>1, <1>2, SeqWiden
  <1>4. QED
    BY <1>1, <1>3, LenProperties DEF TypeInv

\* prune takes a prefix away.
LEMMA PrunedPrefix ==
    ASSUME TypeInv, NEW time
    PROVE  Pruned(time) \in 0..Len(observations)
  <1> DEFINE out == {k \in 0..Len(observations) :
                        \A i \in 1..k : time - observations[i].at >= Interval}
  <1>1. Len(observations) \in Nat
    BY Registry
  <1>2. 0 \in out
    BY <1>1
  <1>3. out \subseteq Nat /\ \A k \in out : k <= Len(observations)
    BY <1>1
  <1>4. out \subseteq 0..Len(observations)
    OBVIOUS
  <1>5. Pruned(time) = CHOOSE k \in out : \A j \in out : j <= k
    BY DEF Pruned
  <1> HIDE DEF out
  <1>6. \E k \in out : \A j \in out : j <= k
    BY <1>1, <1>2, <1>3, MaxExists
  <1>7. Pruned(time) \in out
    BY <1>5, <1>6
  <1>8. QED
    BY <1>4, <1>7

\* What is left of the registry behind a prefix.
LEMMA Remainder ==
    ASSUME TypeInv, NEW k \in 0..Len(observations)
    PROVE  LET rest == SubSeq(observations, k + 1, Len(observations))
           IN  /\ rest \in Seq([at : 1..now, name : Names, item_count : 1..MaxItems])
               /\ \A i \in 1..Len(rest) :
                     rest[i].name = "query_request" => rest[i].item_count = 1
  <1> DEFINE S == [at : 1..now, name : Names, item_count : 1..MaxItems]
  <1>1. PICK n \in Nat : n = Len(observations)
    BY Registry
  <1>2. \A i \in 1..n : /\ observations[i] \in S
                        /\ observations[i].name = "query_request"
                              => observations[i].item_count = 1
    BY <1>1, Registry
  <1>3. PICK rest : rest = SubSeq(observations, k + 1, n)
    OBVIOUS
  <1>4. k + 1 \in Int /\ n \in Int /\ k \in 0..n
    BY <1>1
  <1> HIDE DEF S
  <1>5. \A i \in k + 1..n : observations[i] \in S
    BY <1>2, <1>4
  <1>6. /\ rest \in Seq(S)
        /\ Len(rest) = IF k + 1 <= n THEN n - (k + 1) + 1 ELSE 0
        /\ \A i \in 1..n - (k + 1) + 1 : rest[i] = observations[k + 1 + i - 1]
    BY <1>3, <1>4, <1>5, SubSeqProperties
  <1>7. ASSUME NEW i \in 1..Len(rest)
        PROVE  i + k \in 1..n /\ rest[i] = observations[i + k]
    <2>1. Len(rest) = n - k
      BY <1>4, <1>6
    <2>2. i + k \in 1..n /\ k + 1 + i - 1 = i + k /\ i \in 1..n - (k + 1) + 1
      BY <1>4, <2>1
    <2>3. QED
      BY <1>6, <2>2
  <1>8. \A i \in 1..Len(rest) :
            rest[i].name = "query_request" => rest[i].item_count = 1
    BY <1>2, <1>7
  <1>9. QED
    BY <1>1, <1>3, <1>6, <1>8 DEF S

\* Tallies are counts per name.
LEMMA TallyType ==
    ASSUME NEW s \in Seq(Observation)
    PROVE  Tally(s) \in [Names -> Nat]
  <1>1. \A name \in Names : Items(s, name) \in Nat
    BY ItemsFinite
  <1>2. QED
    BY <1>1 DEF Tally

\* Counts are added name by name.
LEMMA PlusType ==
    ASSUME NEW f \in [Names -> Nat], NEW g \in [Names -> Nat]
    PROVE  /\ Plus(f, g) \in [Names -> Nat]
           /\ \A name \in Names : Plus(f, g)[name] = f[name] + g[name]
  BY DEF Plus

\* What is added to a count when observations leave the registry.
LEMMA PlusTally ==
    ASSUME NEW f \in [Names -> Nat], NEW s \in Seq(Observation)
    PROVE  /\ Plus(f, Tally(s)) \in [Names -> Nat]
           /\ \A name \in Names : Plus(f, Tally(s))[name] = f[name] + Items(s, name)
  <1>1. PICK g : g = Tally(s)
    OBVIOUS
  <1>2. g \in [Names -> Nat] /\ \A name \in Names : g[name] = Items(s, name)
    BY <1>1, TallyType DEF Tally
  <1>3. QED
    BY <1>1, <1>2, PlusType

\* The items of the row that is not yet written.
InRow == IF pc = "activity" THEN RowTally ELSE Zero

\* Accounted, name by name.
Balanced ==
    \A name \in Names :
        made[name] = reported[name] + gone[name]
                        + (Items(observations, name) + InRow[name])

\* Two sums of functions are equal when they are at every name.
LEMMA AccountedBalanced == TypeInv /\ RowInv => (Accounted <=> Balanced)
  <1>1. SUFFICES ASSUME TypeInv, RowInv PROVE Accounted <=> Balanced
    OBVIOUS
  <1>2. /\ made \in [Names -> Nat] /\ reported \in [Names -> Nat]
        /\ gone \in [Names -> Nat]
    BY <1>1 DEF TypeInv, TypeOK
  <1>3. Tally(observations) \in [Names -> Nat]
    BY <1>1, Registry, TallyType
  <1>4. InRow \in [Names -> Nat]
    <2>1. Zero \in [Names -> Nat]
      BY DEF Zero
    <2>2. pc = "activity" => RowTally \in [Names -> Nat]
      BY <1>1 DEF RowInv, Writing, RowTally, Names
    <2>3. QED
      BY <2>1, <2>2 DEF InRow
  <1>5. PICK left : left = Plus(reported, gone)
    OBVIOUS
  <1>6. PICK right : right = Plus(Tally(observations), InRow)
    OBVIOUS
  <1>7. /\ left \in [Names -> Nat]
        /\ \A name \in Names : left[name] = reported[name] + gone[name]
    BY <1>2, <1>5, PlusType
  <1>8. /\ right \in [Names -> Nat]
        /\ \A name \in Names : right[name] = Items(observations, name) + InRow[name]
    <2>1. \A name \in Names : Tally(observations)[name] = Items(observations, name)
      BY DEF Tally
    <2>2. QED
      BY <1>3, <1>4, <1>6, <2>1, PlusType
  <1>9. /\ Plus(left, right) \in [Names -> Nat]
        /\ \A name \in Names : Plus(left, right)[name] = left[name] + right[name]
    BY <1>7, <1>8, PlusType
  <1>10. Accounted <=> made = Plus(left, right)
    BY <1>5, <1>6 DEF Accounted, InRow
  <1>11. made = Plus(left, right)
            <=> \A name \in Names : made[name] = Plus(left, right)[name]
    BY <1>2, <1>9
  <1>12. QED
    BY <1>7, <1>8, <1>9, <1>10, <1>11 DEF Balanced

\* A count that has lost its place in one term and found it in another.
LEMMA InvBalanced ==
    ASSUME TypeInv', RowInv', Balanced'
    PROVE  Accounted'
  <1>1. (TypeInv /\ RowInv => (Accounted <=> Balanced))'
    BY AccountedBalanced, PTL
  <1>2. QED
    BY <1>1

-----------------------------------------------------------------------------
(* The steps *)

\* Facts about the constants and the clocks that every step uses.
LEMMA Clock ==
    ASSUME TypeInv
    PROVE  /\ Interval \in Nat \ {0} /\ Retention \in Nat /\ MaxTime \in Nat
           /\ now \in Nat \ {0} /\ system \in Nat \ {0} /\ stops \in Nat
           /\ cutoff \in Int /\ horizon \in Int /\ armed \in 0..now
           /\ window_since \in Nat /\ window_until \in Nat
           /\ IsFiniteSet(activity) /\ IsFiniteSet(Lacking)
           /\ \A r \in activity : r.since \in Nat \ {0} /\ r.until \in Nat \ {0}
           /\ \A t \in database : t \in Nat \ {0}
  <1>1. Lacking \subseteq activity /\ IsFiniteSet(activity)
    BY DEF Lacking, TypeInv
  <1>2. IsFiniteSet(Lacking)
    BY <1>1, FS_Subset
  <1>3. now \in Nat \ {0}
    BY DiagnosticsAssumption DEF TypeInv, TypeOK
  <1>4. QED
    BY <1>2, <1>3, DiagnosticsAssumption DEF TypeInv, TypeOK

\* A part of a set that has at most n elements has at most n.
LEMMA Fewer ==
    ASSUME NEW S, IsFiniteSet(S), NEW T, T \subseteq S, NEW n \in Nat,
           Cardinality(S) <= n
    PROVE  Cardinality(T) <= n
  <1>1. IsFiniteSet(T) /\ Cardinality(T) <= Cardinality(S)
    BY FS_Subset
  <1>2. Cardinality(T) \in Nat /\ Cardinality(S) \in Nat
    BY <1>1, FS_CardinalityType
  <1>3. QED
    BY <1>1, <1>2

\* Steps that leave the task and the tables alone keep what is said of them.
LEMMA InvApart ==
    ASSUME TypeInv, PairInv, AskInv,
           UNCHANGED <<pc, row, cutoff, activity, database, ask, stops, horizon>>
    PROVE  PairInv' /\ AskInv'
  <1>1. Lacking' = Lacking
    BY DEF Lacking
  <1>2. QED
    BY <1>1 DEF PairInv, AskInv, InRange

\* Time passes for both clocks.
LEMMA InvTick ==
    ASSUME Inv, Tick
    PROVE  Inv'
  <1>1. /\ now < MaxTime /\ now' = now + 1 /\ system' = system + 1
        /\ UNCHANGED <<set_back, reading, observations, pc, armed, window_since,
                       window_until, row, cutoff, activity, database, ask, stops,
                       made, reported, gone, horizon>>
    BY DEF Tick, taskVars, tableVars, historyVars
  <1>2. TypeInv /\ RowInv /\ WindowInv /\ PairInv /\ AskInv /\ Accounted
    BY DEF Inv
  <1>3. /\ MaxTime \in Nat /\ now \in Nat \ {0} /\ system \in Nat \ {0}
        /\ armed \in 0..now /\ window_since \in Nat /\ window_until \in Nat
        /\ Interval \in Nat /\ \A r \in activity : r.until \in Nat
    BY <1>2, Clock
  <1>4. TypeInv'
    <2>1. observations \in Seq([at : 1..now + 1, name : Names, item_count : 1..MaxItems])
      <3>1. [at : 1..now, name : Names, item_count : 1..MaxItems]
              \subseteq [at : 1..now + 1, name : Names, item_count : 1..MaxItems]
        BY <1>3
      <3>2. observations \in Seq([at : 1..now, name : Names, item_count : 1..MaxItems])
        BY <1>2 DEF TypeInv, TypeOK
      <3>3. QED
        BY <3>1, <3>2, SeqWiden
    <2>2. reading \in [Threads -> 0..now + 1]
      BY <1>2, <1>3 DEF TypeInv, TypeOK
    <2>3. now + 1 \in 1..MaxTime /\ armed \in 0..now + 1 /\ system + 1 \in Nat \ {0}
      BY <1>1, <1>3
    <2>4. QED
      BY <1>1, <1>2, <2>1, <2>2, <2>3 DEF TypeInv, TypeOK
  <1>5. RowInv' /\ Accounted'
    BY <1>1, <1>2 DEF RowInv, Accounted, RowTally
  <1>6. Monotone => Monotone'
    <2>1. End' = (IF pc = "down" THEN system + 1 ELSE End)
      BY <1>1 DEF End
    <2>2. pc = "down" => End = system
      BY DEF End
    <2>3. Monotone => \A r \in activity : r.until <= End'
      BY <1>3, <2>1, <2>2 DEF Monotone
    <2>4. QED
      BY <1>1, <1>3, <2>3 DEF Monotone
  <1>7. WindowInv'
    BY <1>1, <1>2, <1>6 DEF WindowInv, DisjointWindows
  <1>8. PairInv' /\ AskInv'
    BY <1>1, <1>2, InvApart
  <1>9. QED
    BY <1>4, <1>5, <1>7, <1>8 DEF Inv

\* The system clock is set.
LEMMA InvSetClock ==
    ASSUME Inv, NEW time \in 1..MaxTime, SetClock(time)
    PROVE  Inv'
  <1>1. /\ system' = time /\ set_back' = (set_back \/ time < system)
        /\ UNCHANGED <<now, reading, observations, pc, armed, window_since,
                       window_until, row, cutoff, activity, database, ask, stops,
                       made, reported, gone, horizon>>
    BY DEF SetClock, taskVars, tableVars, historyVars
  <1>2. TypeInv /\ RowInv /\ WindowInv /\ PairInv /\ AskInv /\ Accounted
    BY DEF Inv
  <1>3. /\ MaxTime \in Nat /\ now \in Nat /\ system \in Nat \ {0} /\ time \in Nat \ {0}
        /\ armed \in 0..now /\ window_since \in Nat /\ window_until \in Nat
        /\ Interval \in Nat /\ \A r \in activity : r.until \in Nat
    BY <1>2, Clock
  <1>4. set_back \in BOOLEAN /\ set_back' \in BOOLEAN
    BY <1>1, <1>2 DEF TypeInv
  <1>5. TypeInv'
    BY <1>1, <1>2, <1>3, <1>4 DEF TypeInv, TypeOK
  <1>6. RowInv' /\ Accounted'
    BY <1>1, <1>2 DEF RowInv, Accounted, RowTally
  <1>7. CASE time < system
    <2>1. set_back'
      BY <1>1, <1>7
    <2>2. WindowInv'
      BY <2>1 DEF WindowInv, DisjointWindows
    <2>3. QED
      BY <1>1, <1>2, <1>5, <1>6, <2>2, InvApart DEF Inv
  <1>8. CASE ~(time < system)
    <2>1. set_back' = set_back
      BY <1>1, <1>4, <1>8
    <2>2. time >= system
      BY <1>3, <1>8
    <2>3. Monotone => Monotone'
      <3>1. End' = (IF pc = "down" THEN time ELSE End)
        BY <1>1 DEF End
      <3>2. pc = "down" => End = system
        BY DEF End
      <3>3. Monotone => \A r \in activity : r.until <= End'
        BY <1>3, <2>2, <3>1, <3>2 DEF Monotone
      <3>4. QED
        BY <1>1, <1>3, <2>2, <3>3 DEF Monotone
    <2>4. WindowInv'
      BY <1>1, <1>2, <2>1, <2>3 DEF WindowInv, DisjointWindows
    <2>5. QED
      BY <1>1, <1>2, <1>5, <1>6, <2>4, InvApart DEF Inv
  <1>9. QED
    BY <1>7, <1>8

\* Collect reads the clock.
LEMMA InvCollectStart ==
    ASSUME Inv, NEW t \in Threads, CollectStart(t)
    PROVE  Inv'
  <1>1. /\ reading' = [reading EXCEPT ![t] = now]
        /\ UNCHANGED <<now, system, set_back, observations, pc, armed, window_since,
                       window_until, row, cutoff, activity, database, ask, stops,
                       made, reported, gone, horizon>>
    BY DEF CollectStart, clockVars, taskVars, tableVars, historyVars
  <1>2. TypeInv /\ RowInv /\ WindowInv /\ PairInv /\ AskInv /\ Accounted
    BY DEF Inv
  <1>3. reading' \in [Threads -> 0..now]
    BY <1>1, <1>2, Clock DEF TypeInv, TypeOK
  <1>4. TypeInv'
    BY <1>1, <1>2, <1>3 DEF TypeInv, TypeOK
  <1>5. RowInv' /\ Accounted'
    BY <1>1, <1>2 DEF RowInv, Accounted, RowTally
  <1>6. WindowInv'
    BY <1>1, <1>2 DEF WindowInv, Monotone, DisjointWindows, End
  <1>7. QED
    BY <1>1, <1>2, <1>4, <1>5, <1>6, InvApart DEF Inv

\* An observation enters the registry, and what has left the window is dropped.
LEMMA InvCollect ==
    ASSUME Inv, NEW t \in Threads, NEW name \in Names,
           Collect(t, name, ItemCount(name))
    PROVE  Inv'
  <1>1. PICK items : items = ItemCount(name)
    OBVIOUS
  <1>2. PICK k : k = Pruned(reading[t])
    OBVIOUS
  <1>3. PICK o : o = [at |-> reading[t], name |-> name, item_count |-> items]
    OBVIOUS
  <1>4. PICK rest : rest = SubSeq(observations, k + 1, Len(observations))
    OBVIOUS
  <1>5. /\ reading[t] # 0
        /\ gone' = Plus(gone, Tally(SubSeq(observations, 1, k)))
        /\ observations' = Append(rest, o)
        /\ reading' = [reading EXCEPT ![t] = 0]
        /\ made' = [made EXCEPT ![name] = @ + items]
        /\ UNCHANGED <<now, system, set_back, pc, armed, window_since, window_until,
                       row, cutoff, activity, database, ask, stops, reported, horizon>>
    BY <1>1, <1>2, <1>3, <1>4 DEF Collect, clockVars, taskVars, tableVars
  <1>6. TypeInv /\ RowInv /\ WindowInv /\ PairInv /\ AskInv /\ Accounted
    BY DEF Inv
  <1>7. items \in 1..MaxItems /\ items \in Nat /\ (name = "query_request" => items = 1)
    BY <1>1, DiagnosticsAssumption DEF ItemCount
  <1>8. reading[t] \in 1..now /\ now \in Nat
    BY <1>5, <1>6, Clock DEF TypeInv, TypeOK
  <1>9. /\ o \in [at : 1..now, name : Names, item_count : 1..MaxItems]
        /\ o.name = name /\ o.item_count = items /\ o \in Observation
    BY <1>3, <1>7, <1>8 DEF Observation
  <1>10. k \in 0..Len(observations)
    BY <1>2, <1>6, PrunedPrefix
  <1>11. /\ rest \in Seq([at : 1..now, name : Names, item_count : 1..MaxItems])
         /\ \A i \in 1..Len(rest) :
                rest[i].name = "query_request" => rest[i].item_count = 1
    BY <1>4, <1>6, <1>10, Remainder
  <1>12. observations \in Seq(Observation)
    BY <1>6, Registry
  <1>13. /\ SubSeq(observations, 1, k) \in Seq(Observation)
         /\ rest \in Seq(Observation)
         /\ \A n \in Names : Items(observations, n) =
                                Items(SubSeq(observations, 1, k), n) + Items(rest, n)
    BY <1>4, <1>10, <1>12, ItemsSplit
  <1>14. \A n \in Names : Items(observations', n) =
                Items(rest, n) + (IF name = n THEN items ELSE 0)
    BY <1>5, <1>9, <1>13, ItemsAppend
  <1>15. gone \in [Names -> Nat] /\ made \in [Names -> Nat] /\ reported \in [Names -> Nat]
    BY <1>6 DEF TypeInv, TypeOK
  <1>16. /\ gone' \in [Names -> Nat]
         /\ \A n \in Names : gone'[n] = gone[n] + Items(SubSeq(observations, 1, k), n)
    BY <1>5, <1>13, <1>15, PlusTally
  <1>17. /\ made' \in [Names -> Nat]
         /\ \A n \in Names : made'[n] = made[n] + (IF name = n THEN items ELSE 0)
    BY <1>5, <1>7, <1>15
  <1>18. /\ observations' \in Seq([at : 1..now, name : Names, item_count : 1..MaxItems])
         /\ \A i \in 1..Len(observations') :
                observations'[i].name = "query_request"
                    => observations'[i].item_count = 1
    <2>1. PICK S : S = [at : 1..now, name : Names, item_count : 1..MaxItems]
      OBVIOUS
    <2>2. /\ Append(rest, o) \in Seq(S) /\ Len(Append(rest, o)) = Len(rest) + 1
          /\ \A i \in 1..Len(rest) : Append(rest, o)[i] = rest[i]
          /\ Append(rest, o)[Len(rest) + 1] = o /\ Len(rest) \in Nat
      BY <1>9, <1>11, <2>1, AppendProperties, LenProperties
    <2>3. \A i \in 1..Len(rest) + 1 : i \in 1..Len(rest) \/ i = Len(rest) + 1
      BY <2>2
    <2>4. QED
      BY <1>5, <1>7, <1>9, <1>11, <2>1, <2>2, <2>3
  <1>19. TypeInv'
    <2>1. reading' \in [Threads -> 0..now]
      BY <1>5, <1>6, <1>8 DEF TypeInv, TypeOK
    <2>2. QED
      BY <1>5, <1>6, <1>16, <1>17, <1>18, <2>1 DEF TypeInv, TypeOK
  <1>20. RowInv' /\ PairInv' /\ AskInv'
    BY <1>5, <1>6, InvApart DEF RowInv
  <1>21. WindowInv'
    BY <1>5, <1>6 DEF WindowInv, Monotone, DisjointWindows, End
  <1>22. Balanced'
    <2>1. Balanced
      BY <1>6, AccountedBalanced
    <2>2. InRow' = InRow
      BY <1>5 DEF InRow, RowTally
    <2>3. ASSUME NEW n \in Names
          PROVE  made'[n] = reported[n] + gone'[n] + (Items(observations', n) + InRow[n])
      <3>1. made[n] = reported[n] + gone[n] + (Items(observations, n) + InRow[n])
        BY <2>1 DEF Balanced
      <3>2. /\ Items(SubSeq(observations, 1, k), n) \in Nat /\ Items(rest, n) \in Nat
            /\ Items(observations, n) = Items(SubSeq(observations, 1, k), n) + Items(rest, n)
        BY <1>13, ItemsFinite
      <3>3. made[n] \in Nat /\ reported[n] \in Nat /\ gone[n] \in Nat /\ InRow[n] \in Nat
        <4>1. InRow[n] \in Nat
          BY <1>6 DEF InRow, RowTally, Zero, RowInv, Writing, Names
        <4>2. QED
          BY <1>15, <4>1
      <3>4. QED
        BY <1>7, <1>14, <1>16, <1>17, <3>1, <3>2, <3>3
    <2>4. QED
      BY <1>5, <2>2, <2>3 DEF Balanced
  <1>23. QED
    BY <1>19, <1>20, <1>21, <1>22, InvBalanced DEF Inv

\* The timer fires, an interval or more after it was armed.
LEMMA InvTimerFires ==
    ASSUME Inv, TimerFires
    PROVE  Inv'
  <1>1. /\ pc = "wait" /\ now >= armed + Interval
        /\ armed' = now /\ window_until' = system /\ pc' = "flush"
        /\ UNCHANGED <<now, system, set_back, reading, observations, window_since,
                       row, cutoff, activity, database, ask, stops, made, reported,
                       gone, horizon>>
    BY DEF TimerFires, clockVars, tableVars, historyVars
  <1>2. TypeInv /\ RowInv /\ WindowInv /\ PairInv /\ AskInv /\ Accounted
    BY DEF Inv
  <1>3. /\ now \in Nat \ {0} /\ system \in Nat \ {0} /\ armed \in 0..now
        /\ window_since \in Nat /\ Interval \in Nat
    BY <1>2, Clock
  <1>4. TypeInv'
    BY <1>1, <1>2, <1>3 DEF TypeInv, TypeOK, Writing
  <1>5. RowInv' /\ AskInv' /\ Accounted'
    BY <1>1, <1>2, <1>3 DEF RowInv, Writing, AskInv, InRange, Accounted
  <1>6. Monotone => Monotone'
    <2>1. End' = End
      BY <1>1 DEF End
    <2>2. Monotone => system - window_since >= Interval
      BY <1>1, <1>3 DEF Monotone
    <2>3. QED
      BY <1>1, <1>3, <2>1, <2>2 DEF Monotone, Writing
  <1>7. WindowInv'
    BY <1>1, <1>2, <1>6 DEF WindowInv, DisjointWindows
  <1>8. PairInv'
    <2>1. Lacking' = Lacking
      BY <1>1 DEF Lacking
    <2>2. QED
      BY <1>1, <1>2, <2>1 DEF PairInv
  <1>9. QED
    BY <1>4, <1>5, <1>7, <1>8 DEF Inv

\* The registry is emptied into a row: the items of the row are those that were
\* in the registry and not pruned.
LEMMA InvFlush ==
    ASSUME Inv, Flush
    PROVE  Inv'
  <1>1. PICK time \in armed..now :
            /\ gone' = Plus(gone, Tally(SubSeq(observations, 1, Pruned(time))))
            /\ row' = ActivityStats(Flushed(time))
    BY DEF Flush
  <1>2. PICK k : k = Pruned(time)
    OBVIOUS
  <1>3. PICK rest : rest = SubSeq(observations, k + 1, Len(observations))
    OBVIOUS
  <1>4. /\ pc = "flush" /\ pc' = "activity" /\ observations' = <<>>
        /\ gone' = Plus(gone, Tally(SubSeq(observations, 1, k)))
        /\ row' = ActivityStats(rest)
        /\ cutoff' = window_until - Retention
        /\ horizon' = IF cutoff' > horizon THEN cutoff' ELSE horizon
        /\ window_since' = window_until /\ window_until' = 0
        /\ UNCHANGED <<now, system, set_back, reading, armed, activity, database,
                       ask, stops, made, reported>>
    BY <1>1, <1>2, <1>3 DEF Flush, Flushed, Cutoff, clockVars, tableVars
  <1>5. TypeInv /\ RowInv /\ WindowInv /\ PairInv /\ AskInv /\ Accounted
    BY DEF Inv
  <1>6. /\ now \in Nat \ {0} /\ window_since \in Nat \ {0} /\ window_until \in Nat \ {0}
        /\ Interval \in Nat \ {0} /\ Retention \in Nat /\ cutoff \in Int
        /\ horizon \in Int /\ armed \in 0..now /\ system \in Nat
        /\ \A r \in activity : r.until \in Nat \ {0}
        /\ \A t \in database : t \in Nat \ {0}
        /\ IsFiniteSet(Lacking) /\ stops \in Nat
    BY <1>4, <1>5, Clock DEF RowInv
  <1>7. cutoff' \in Int /\ horizon' \in Int /\ cutoff' <= horizon' /\ horizon <= horizon'
    BY <1>4, <1>6
  <1>8. k \in 0..Len(observations)
    BY <1>2, <1>5, PrunedPrefix
  <1>9. \A i \in 1..Len(rest) :
            rest[i].name = "query_request" => rest[i].item_count = 1
    BY <1>3, <1>5, <1>8, Remainder
  <1>10. observations \in Seq(Observation)
    BY <1>5, Registry
  <1>11. /\ SubSeq(observations, 1, k) \in Seq(Observation)
         /\ rest \in Seq(Observation)
         /\ \A n \in Names : Items(observations, n) =
                                Items(SubSeq(observations, 1, k), n) + Items(rest, n)
    BY <1>3, <1>8, <1>10, ItemsSplit
  <1>12. gone \in [Names -> Nat] /\ made \in [Names -> Nat] /\ reported \in [Names -> Nat]
    BY <1>5 DEF TypeInv, TypeOK
  <1>13. /\ gone' \in [Names -> Nat]
         /\ \A n \in Names : gone'[n] = gone[n] + Items(SubSeq(observations, 1, k), n)
    BY <1>4, <1>11, <1>12, PlusTally
  <1>14. /\ Samples(rest, "query_request") = Items(rest, "query_request")
         /\ Samples(rest, "query_request") \in Nat
         /\ Samples(rest, "insert_batch") \in Nat
         /\ Items(rest, "insert_batch") \in Nat
    BY <1>9, <1>11, SamplesItems, ItemsFinite
  <1>15. row' = [since |-> window_since, until |-> window_until,
                 query_count |-> Samples(rest, "query_request"),
                 insert_batch_count |-> Samples(rest, "insert_batch"),
                 insert_total_count |-> Items(rest, "insert_batch")]
    BY <1>4 DEF ActivityStats
  <1>16. /\ row'.since = window_since /\ row'.until = window_until
         /\ row'.query_count = Items(rest, "query_request")
         /\ row'.insert_total_count = Items(rest, "insert_batch")
    BY <1>14, <1>15
  <1>17. TypeInv'
    <2>1. /\ observations' \in Seq([at : 1..now, name : Names, item_count : 1..MaxItems])
          /\ Len(observations') = 0
      BY <1>4, EmptySeq
    <2>2. row'.until = window_since'
      BY <1>4, <1>16
    <2>3. {made, reported, gone'} \subseteq [Names -> Nat]
      BY <1>12, <1>13
    <2>4. TypeOK'
      BY <1>4, <1>5, <1>6, <1>7, <2>1, <2>2, <2>3 DEF TypeInv, TypeOK, Writing
    <2>5. QED
      BY <1>4, <1>5, <2>1, <2>4 DEF TypeInv
  <1>18. RowInv'
    <2>1. row' \in [since : Nat \ {0}, until : Nat \ {0}, query_count : Nat,
                    insert_batch_count : Nat, insert_total_count : Nat]
      BY <1>6, <1>14, <1>15
    <2>2. QED
      BY <1>4, <1>6, <2>1 DEF RowInv
  <1>19. Monotone => Monotone'
    <2>1. End' = window_since /\ End = window_since
      BY <1>4, <1>16 DEF End
    <2>2. QED
      BY <1>4, <1>6, <1>16, <2>1 DEF Monotone
  <1>20. WindowInv'
    BY <1>4, <1>5, <1>19 DEF WindowInv, DisjointWindows
  <1>21. PairInv'
    <2>1. \A t \in database : t < horizon' \/ \E r \in activity : r.until = t
      BY <1>5, <1>6, <1>7 DEF PairInv
    <2>2. Lacking' \subseteq Lacking
      <3>1. ASSUME NEW r \in Lacking' PROVE r \in Lacking
        <4>1. r \in activity /\ r.until \notin database /\ r.until >= horizon'
          BY <1>4 DEF Lacking
        <4>2. r.until >= horizon
          BY <1>6, <1>7, <4>1
        <4>3. QED
          BY <1>4, <4>1, <4>2 DEF Lacking
      <3>2. QED
        BY <3>1
    <2>3. Cardinality(Lacking') <= stops
      BY <1>5, <1>6, <2>2, Fewer DEF PairInv
    <2>4. QED
      BY <1>4, <1>7, <2>1, <2>3 DEF PairInv
  <1>22. AskInv'
    <2>1. ASSUME NEW r \in ask.rows, ask.open PROVE r \in activity \/ r.until < horizon'
      <3>1. r.until \in Nat \ {0} /\ (r \in activity \/ r.until < horizon)
        BY <1>5, <2>1 DEF AskInv
      <3>2. QED
        BY <1>6, <1>7, <3>1
    <2>2. QED
      BY <1>4, <1>5, <2>1 DEF AskInv, InRange
  <1>23. Balanced'
    <2>1. Balanced
      BY <1>5, AccountedBalanced
    <2>2. \A n \in Names : InRow[n] = 0
      BY <1>4 DEF InRow, Zero
    <2>3. \A n \in Names : InRow'[n] = Items(rest, n)
      BY <1>4, <1>16 DEF InRow, RowTally, Names
    <2>4. \A n \in Names : Items(observations', n) = 0
      BY <1>4, ItemsEmpty
    <2>5. ASSUME NEW n \in Names
          PROVE  made[n] = reported[n] + gone'[n] + (Items(observations', n) + InRow'[n])
      <3>1. made[n] = reported[n] + gone[n] + (Items(observations, n) + InRow[n])
        BY <2>1 DEF Balanced
      <3>2. /\ Items(SubSeq(observations, 1, k), n) \in Nat /\ Items(rest, n) \in Nat
            /\ Items(observations, n) = Items(SubSeq(observations, 1, k), n) + Items(rest, n)
        BY <1>11, ItemsFinite
      <3>3. made[n] \in Nat /\ reported[n] \in Nat /\ gone[n] \in Nat
        BY <1>12
      <3>4. QED
        BY <1>13, <2>2, <2>3, <2>4, <3>1, <3>2, <3>3
    <2>6. QED
      BY <1>4, <2>5 DEF Balanced
  <1>24. QED
    BY <1>17, <1>18, <1>20, <1>21, <1>22, <1>23, InvBalanced DEF Inv

\* The row is written: it follows every other, and its database row is next.
LEMMA InvInsertActivityStats ==
    ASSUME Inv, InsertActivityStats
    PROVE  Inv'
  <1>1. /\ pc = "activity" /\ pc' = "database" /\ activity' = activity \cup {row}
        /\ reported' = Plus(reported, RowTally)
        /\ UNCHANGED <<now, system, set_back, reading, observations, armed,
                       window_since, window_until, row, cutoff, database, ask, stops,
                       made, gone, horizon>>
    BY DEF InsertActivityStats, clockVars
  <1>2. TypeInv /\ RowInv /\ WindowInv /\ PairInv /\ AskInv /\ Accounted
    BY DEF Inv
  <1>3. /\ window_since \in Nat /\ stops \in Nat /\ Interval \in Nat \ {0}
        /\ IsFiniteSet(activity) /\ IsFiniteSet(Lacking)
        /\ \A r \in activity : r.since \in Nat \ {0} /\ r.until \in Nat \ {0}
    BY <1>2, Clock
  <1>4. /\ row \in [since : Nat \ {0}, until : Nat \ {0}, query_count : Nat,
                    insert_batch_count : Nat, insert_total_count : Nat]
        /\ row.until = window_since
    BY <1>1, <1>2 DEF RowInv, Writing, TypeInv, TypeOK
  <1>5. row.since \in Nat \ {0} /\ row.until \in Nat \ {0}
    BY <1>4
  <1>6. RowTally \in [Names -> Nat]
    BY <1>4 DEF RowTally, Names
  <1>7. reported \in [Names -> Nat] /\ gone \in [Names -> Nat] /\ made \in [Names -> Nat]
    BY <1>2 DEF TypeInv, TypeOK
  <1>8. /\ reported' \in [Names -> Nat]
        /\ \A n \in Names : reported'[n] = reported[n] + RowTally[n]
    BY <1>1, <1>6, <1>7, PlusType
  <1>9. TypeInv'
    <2>1. IsFiniteSet(activity')
      BY <1>1, <1>3, FS_AddElement
    <2>2. \A r \in activity' : r.since \in Nat \ {0} /\ r.until \in Nat \ {0}
      BY <1>1, <1>3, <1>5
    <2>3. QED
      BY <1>1, <1>2, <1>4, <1>8, <2>1, <2>2 DEF TypeInv, TypeOK, Writing
  <1>10. RowInv'
    BY <1>1, <1>2 DEF RowInv, Writing
  <1>11. WindowInv'
    <2>1. CASE set_back
      BY <1>1, <2>1 DEF WindowInv, DisjointWindows
    <2>2. CASE ~set_back
      <3>1. End = row.since /\ End' = window_since
        BY <1>1 DEF End
      <3>2. /\ Monotone /\ row.until - row.since >= Interval
            /\ \A r \in activity : r.until <= row.since
        BY <1>1, <1>2, <2>2, <3>1 DEF WindowInv, Monotone, Writing
      <3>3. \A r \in activity' : r.until <= End'
        BY <1>1, <1>3, <1>4, <1>5, <3>1, <3>2
      <3>4. Monotone'
        BY <1>1, <3>2, <3>3 DEF Monotone, Writing
      <3>5. ASSUME NEW r \in activity', NEW q \in activity'
            PROVE  /\ r.until - r.since >= Interval
                   /\ r # q => r.until <= q.since \/ q.until <= r.since
        <4>1. CASE r \in activity /\ q \in activity
          BY <1>2, <2>2, <4>1 DEF WindowInv, DisjointWindows
        <4>2. CASE r \in activity /\ q = row
          <5>1. r.until - r.since >= Interval
            BY <1>2, <2>2, <4>2 DEF WindowInv, DisjointWindows
          <5>2. QED
            BY <3>2, <4>2, <5>1
        <4>3. CASE r = row /\ q \in activity
          BY <3>2, <4>3
        <4>4. CASE r = row /\ q = row
          BY <3>2, <4>4
        <4>5. QED
          BY <1>1, <4>1, <4>2, <4>3, <4>4
      <3>6. DisjointWindows'
        BY <3>5 DEF DisjointWindows
      <3>7. QED
        BY <3>4, <3>6 DEF WindowInv
    <2>3. QED
      BY <2>1, <2>2
  <1>12. PairInv'
    <2>1. Lacking' \subseteq Lacking
      BY <1>1 DEF Lacking
    <2>2. Cardinality(Lacking') <= stops
      BY <1>2, <1>3, <2>1, Fewer DEF PairInv
    <2>3. \A t \in database : t < horizon \/ \E r \in activity' : r.until = t
      BY <1>1, <1>2 DEF PairInv
    <2>4. row \in activity'
      BY <1>1
    <2>5. QED
      BY <1>1, <1>2, <2>2, <2>3, <2>4 DEF PairInv
  <1>13. AskInv'
    BY <1>1, <1>2 DEF AskInv, InRange
  <1>14. Balanced'
    <2>1. Balanced
      BY <1>2, AccountedBalanced
    <2>2. \A n \in Names : InRow[n] = RowTally[n] /\ InRow'[n] = 0
      BY <1>1 DEF InRow, Zero
    <2>3. ASSUME NEW n \in Names
          PROVE  made[n] = reported'[n] + gone[n] + (Items(observations, n) + InRow'[n])
      <3>1. made[n] = reported[n] + gone[n] + (Items(observations, n) + InRow[n])
        BY <2>1 DEF Balanced
      <3>2. Items(observations, n) \in Nat
        BY <1>2, Registry, ItemsFinite
      <3>3. /\ made[n] \in Nat /\ reported[n] \in Nat /\ gone[n] \in Nat
            /\ RowTally[n] \in Nat
        BY <1>6, <1>7
      <3>4. QED
        BY <1>8, <2>2, <3>1, <3>2, <3>3
    <2>4. QED
      BY <1>1, <2>3 DEF Balanced
  <1>15. QED
    BY <1>9, <1>10, <1>11, <1>12, <1>13, <1>14, InvBalanced DEF Inv

\* The database row is written: the sample is paired.
LEMMA InvInsertDatabaseStats ==
    ASSUME Inv, InsertDatabaseStats
    PROVE  Inv'
  <1>1. /\ pc = "database" /\ pc' = "delete_activity"
        /\ database' = database \cup {row.until}
        /\ UNCHANGED <<now, system, set_back, reading, observations, armed,
                       window_since, window_until, row, cutoff, activity, ask, stops,
                       made, reported, gone, horizon>>
    BY DEF InsertDatabaseStats, clockVars, historyVars
  <1>2. TypeInv /\ RowInv /\ WindowInv /\ PairInv /\ AskInv /\ Accounted
    BY DEF Inv
  <1>3. stops \in Nat /\ IsFiniteSet(Lacking)
    BY <1>2, Clock
  <1>4. row.until \in Nat \ {0} /\ row \in activity
    BY <1>1, <1>2 DEF RowInv, Writing, PairInv
  <1>5. TypeInv'
    <2>1. database' \subseteq Nat \ {0}
      BY <1>1, <1>2, <1>4 DEF TypeInv, TypeOK
    <2>2. QED
      BY <1>1, <1>2, <2>1 DEF TypeInv, TypeOK, Writing
  <1>6. RowInv' /\ Accounted'
    BY <1>1, <1>2 DEF RowInv, Writing, Accounted
  <1>7. WindowInv'
    <2>1. End' = End
      BY <1>1 DEF End
    <2>2. Monotone => Monotone'
      BY <1>1, <2>1 DEF Monotone, Writing
    <2>3. QED
      BY <1>1, <1>2, <2>2 DEF WindowInv, DisjointWindows
  <1>8. PairInv'
    <2>1. Lacking' \subseteq Lacking
      BY <1>1 DEF Lacking
    <2>2. Cardinality(Lacking') <= stops
      BY <1>2, <1>3, <2>1, Fewer DEF PairInv
    <2>3. \A t \in database' : t < horizon \/ \E r \in activity : r.until = t
      BY <1>1, <1>2, <1>4 DEF PairInv
    <2>4. QED
      BY <1>1, <1>2, <2>2, <2>3 DEF PairInv
  <1>9. AskInv'
    BY <1>1, <1>2 DEF AskInv, InRange
  <1>10. QED
    BY <1>5, <1>6, <1>7, <1>8, <1>9 DEF Inv

\* Expired samples go from the first table.
LEMMA InvDeleteActivityStats ==
    ASSUME Inv, DeleteActivityStats
    PROVE  Inv'
  <1>1. /\ pc = "delete_activity" /\ pc' = "delete_database"
        /\ activity' = {r \in activity : r.until >= cutoff}
        /\ UNCHANGED <<now, system, set_back, reading, observations, armed,
                       window_since, window_until, row, cutoff, database, ask, stops,
                       made, reported, gone, horizon>>
    BY DEF DeleteActivityStats, clockVars, historyVars
  <1>2. TypeInv /\ RowInv /\ WindowInv /\ PairInv /\ AskInv /\ Accounted
    BY DEF Inv
  <1>3. /\ cutoff \in Int /\ horizon \in Int /\ cutoff <= horizon
        /\ IsFiniteSet(activity) /\ IsFiniteSet(Lacking) /\ stops \in Nat
        /\ activity' \subseteq activity
        /\ \A r \in activity : r.until \in Nat \ {0}
        /\ \A t \in database : t \in Nat \ {0}
    BY <1>1, <1>2, Clock DEF PairInv
  <1>4. TypeInv'
    <2>1. IsFiniteSet(activity')
      BY <1>3, FS_Subset
    <2>2. QED
      BY <1>1, <1>2, <1>3, <2>1 DEF TypeInv, TypeOK, Writing
  <1>5. RowInv' /\ Accounted'
    BY <1>1, <1>2 DEF RowInv, Writing, Accounted
  <1>6. WindowInv'
    <2>1. End' = End
      BY <1>1 DEF End
    <2>2. Monotone => Monotone'
      BY <1>1, <1>3, <2>1 DEF Monotone, Writing
    <2>3. QED
      BY <1>1, <1>2, <1>3, <2>2 DEF WindowInv, DisjointWindows
  <1>7. PairInv'
    <2>1. Lacking' \subseteq Lacking
      BY <1>1 DEF Lacking
    <2>2. Cardinality(Lacking') <= stops
      BY <1>2, <1>3, <2>1, Fewer DEF PairInv
    <2>3. \A t \in database : t < horizon \/ \E r \in activity' : r.until = t
      <3>1. ASSUME NEW t \in database, ~(t < horizon)
            PROVE  \E r \in activity' : r.until = t
        <4>1. PICK r \in activity : r.until = t
          BY <1>2, <3>1 DEF PairInv
        <4>2. r.until >= cutoff
          BY <1>3, <3>1, <4>1
        <4>3. QED
          BY <1>1, <4>1, <4>2
      <3>2. QED
        BY <3>1
    <2>4. QED
      BY <1>1, <1>2, <2>2, <2>3 DEF PairInv
  <1>8. AskInv'
    <2>1. ASSUME NEW r \in ask.rows, ask.open PROVE r \in activity' \/ r.until < horizon
      <3>1. r.until \in Nat /\ (r \in activity \/ r.until < horizon)
        BY <1>2, <2>1 DEF AskInv
      <3>2. QED
        BY <1>1, <1>3, <3>1
    <2>2. QED
      BY <1>1, <1>2, <2>1 DEF AskInv, InRange
  <1>9. QED
    BY <1>4, <1>5, <1>6, <1>7, <1>8 DEF Inv

\* And from the second; the timer is armed again.
LEMMA InvDeleteDatabaseStats ==
    ASSUME Inv, DeleteDatabaseStats
    PROVE  Inv'
  <1>1. /\ pc = "delete_database" /\ pc' = "wait"
        /\ database' = {t \in database : t >= cutoff}
        /\ armed' = now /\ row' = NoRow
        /\ UNCHANGED <<now, system, set_back, reading, observations, window_since,
                       window_until, cutoff, activity, ask, stops, made, reported,
                       gone, horizon>>
    BY DEF DeleteDatabaseStats, clockVars, historyVars
  <1>2. TypeInv /\ RowInv /\ WindowInv /\ PairInv /\ AskInv /\ Accounted
    BY DEF Inv
  <1>3. /\ cutoff \in Int /\ horizon \in Int /\ cutoff <= horizon
        /\ IsFiniteSet(Lacking) /\ stops \in Nat /\ database' \subseteq database
        /\ now \in Nat \ {0} /\ window_since \in Nat /\ system \in Nat
        /\ \A r \in activity : r.until \in Nat \ {0}
    BY <1>1, <1>2, Clock DEF PairInv
  <1>4. TypeInv'
    <2>1. now \in 0..now
      BY <1>3
    <2>2. QED
      BY <1>1, <1>2, <1>3, <2>1 DEF TypeInv, TypeOK, Writing
  <1>5. RowInv' /\ Accounted'
    BY <1>1, <1>2 DEF RowInv, Writing, Accounted
  <1>6. WindowInv'
    <2>1. End' = End
      BY <1>1 DEF End
    <2>2. Monotone => Monotone'
      BY <1>1, <1>3, <2>1 DEF Monotone, Writing
    <2>3. QED
      BY <1>1, <1>2, <2>2 DEF WindowInv, DisjointWindows
  <1>7. PairInv'
    <2>1. Lacking' \subseteq Lacking
      <3>1. ASSUME NEW r \in Lacking' PROVE r \in Lacking
        <4>1. /\ r \in activity /\ r.until >= horizon
              /\ ~(r.until \in database /\ r.until >= cutoff)
          BY <1>1 DEF Lacking
        <4>2. r.until >= cutoff
          BY <1>3, <4>1
        <4>3. QED
          BY <1>1, <4>1, <4>2 DEF Lacking
      <3>2. QED
        BY <3>1
    <2>2. Cardinality(Lacking') <= stops
      BY <1>2, <1>3, <2>1, Fewer DEF PairInv
    <2>3. QED
      BY <1>1, <1>2, <1>3, <2>2 DEF PairInv
  <1>8. AskInv'
    BY <1>1, <1>2 DEF AskInv, InRange
  <1>9. QED
    BY <1>4, <1>5, <1>6, <1>7, <1>8 DEF Inv

\* GET /stats reads the first table.
LEMMA InvQueryActivityStats ==
    ASSUME Inv, NEW range, QueryActivityStats(range)
    PROVE  Inv'
  <1>1. /\ ask' = [rows |-> {r \in activity : InRange(range, r.until)},
                   range |-> range, open |-> TRUE]
        /\ UNCHANGED <<now, system, set_back, reading, observations, pc, armed,
                       window_since, window_until, row, cutoff, activity, database,
                       stops, made, reported, gone, horizon>>
    BY DEF QueryActivityStats, clockVars, taskVars, tableVars, historyVars
  <1>2. TypeInv /\ RowInv /\ WindowInv /\ PairInv /\ AskInv /\ Accounted
    BY DEF Inv
  <1>3. TypeInv' /\ RowInv' /\ Accounted'
    BY <1>1, <1>2 DEF TypeInv, TypeOK, RowInv, Accounted, RowTally
  <1>4. WindowInv' /\ PairInv'
    BY <1>1, <1>2 DEF WindowInv, Monotone, DisjointWindows, End, PairInv, Lacking
  <1>5. AskInv'
    <2>1. /\ ask'.rows = {r \in activity : InRange(range, r.until)}
          /\ ask'.range = range
      BY <1>1
    <2>2. \A r \in activity : r.until \in Nat \ {0}
      BY <1>2, Clock
    <2>3. \A r \in ask'.rows : /\ InRange(ask'.range, r.until)
                               /\ r.until \in Nat \ {0} /\ r \in activity
      BY <2>1, <2>2
    <2>4. QED
      BY <1>1, <2>3 DEF AskInv, InRange
  <1>6. QED
    BY <1>3, <1>4, <1>5 DEF Inv

\* And the second: the answer is sent.
LEMMA InvQueryDatabaseStats ==
    ASSUME Inv, QueryDatabaseStats
    PROVE  Inv'
  <1>1. /\ ask' = None
        /\ UNCHANGED <<now, system, set_back, reading, observations, pc, armed,
                       window_since, window_until, row, cutoff, activity, database,
                       stops, made, reported, gone, horizon>>
    BY DEF QueryDatabaseStats, clockVars, taskVars, tableVars, historyVars
  <1>2. TypeInv /\ RowInv /\ WindowInv /\ PairInv /\ AskInv /\ Accounted
    BY DEF Inv
  <1>3. TypeInv' /\ RowInv' /\ Accounted'
    BY <1>1, <1>2 DEF TypeInv, TypeOK, RowInv, Accounted, RowTally
  <1>4. WindowInv' /\ PairInv'
    BY <1>1, <1>2 DEF WindowInv, Monotone, DisjointWindows, End, PairInv, Lacking
  <1>5. AskInv'
    BY <1>1 DEF AskInv, None
  <1>6. QED
    BY <1>3, <1>4, <1>5 DEF Inv

\* The process is gone, and with it the registry and the unwritten row: a sample
\* that was being written stays without its database row.
LEMMA InvStop ==
    ASSUME Inv, Stop
    PROVE  Inv'
  <1>1. /\ pc # "down" /\ pc' = "down" /\ stops' = stops + 1 /\ observations' = <<>>
        /\ gone' = Plus(gone, Plus(Tally(observations), InRow))
        /\ reading' = [t \in Threads |-> 0] /\ ask' = None /\ row' = NoRow
        /\ armed' = 0 /\ window_since' = 0 /\ window_until' = 0
        /\ UNCHANGED <<now, system, set_back, cutoff, activity, database, made,
                       reported, horizon>>
    BY DEF Stop, clockVars, tableVars, InRow
  <1>2. TypeInv /\ RowInv /\ WindowInv /\ PairInv /\ AskInv /\ Accounted
    BY DEF Inv
  <1>3. /\ now \in Nat \ {0} /\ window_since \in Nat /\ stops \in Nat
        /\ system \in Nat \ {0} /\ Interval \in Nat /\ IsFiniteSet(Lacking)
        /\ \A r \in activity : r.until \in Nat \ {0}
    BY <1>2, Clock
  <1>4. /\ reported \in [Names -> Nat] /\ gone \in [Names -> Nat]
        /\ made \in [Names -> Nat]
    BY <1>2 DEF TypeInv, TypeOK
  <1>5. InRow \in [Names -> Nat]
    <2>1. Zero \in [Names -> Nat]
      BY DEF Zero
    <2>2. pc = "activity" => RowTally \in [Names -> Nat]
      BY <1>2 DEF RowInv, Writing, RowTally, Names
    <2>3. QED
      BY <2>1, <2>2 DEF InRow
  <1>6. PICK lost : lost = Plus(Tally(observations), InRow)
    OBVIOUS
  <1>7. /\ lost \in [Names -> Nat]
        /\ \A n \in Names : lost[n] = Items(observations, n) + InRow[n]
    <2>1. PICK g : g = Tally(observations)
      OBVIOUS
    <2>2. g \in [Names -> Nat] /\ \A n \in Names : g[n] = Items(observations, n)
      BY <1>2, <2>1, Registry, TallyType DEF Tally
    <2>3. QED
      BY <1>5, <1>6, <2>1, <2>2, PlusType
  <1>8. /\ gone' \in [Names -> Nat]
        /\ \A n \in Names : gone'[n] = gone[n] + lost[n]
    BY <1>1, <1>4, <1>6, <1>7, PlusType
  <1>9. TypeInv'
    <2>1. /\ observations' \in Seq([at : 1..now, name : Names, item_count : 1..MaxItems])
          /\ Len(observations') = 0
      BY <1>1, EmptySeq
    <2>2. reading' \in [Threads -> 0..now] /\ 0 \in 0..now
      BY <1>1, <1>3
    <2>3. stops' \in Nat
      BY <1>1, <1>3
    <2>4. QED
      BY <1>1, <1>2, <1>8, <2>1, <2>2, <2>3 DEF TypeInv, TypeOK, Writing
  <1>10. RowInv' /\ AskInv'
    BY <1>1 DEF RowInv, Writing, AskInv, None
  <1>11. Monotone => Monotone'
    <2>1. End' = system
      BY <1>1 DEF End
    <2>2. Monotone => End <= system
      <3>1. CASE pc = "activity"
        <4>1. /\ End = row.since /\ row.since \in Nat /\ row.until \in Nat
              /\ row.until = window_since
          BY <1>2, <3>1 DEF End, RowInv, Writing, TypeInv, TypeOK
        <4>2. QED
          BY <1>3, <3>1, <4>1 DEF Monotone, Writing
      <3>2. CASE pc # "activity"
        BY <1>1, <3>2 DEF End, Monotone
      <3>3. QED
        BY <3>1, <3>2
    <2>3. End \in Nat
      BY <1>1, <1>2, <1>3 DEF End, RowInv, Writing
    <2>4. Monotone => \A r \in activity : r.until <= system
      BY <1>3, <2>2, <2>3 DEF Monotone
    <2>5. QED
      BY <1>1, <1>3, <2>1, <2>4 DEF Monotone, Writing
  <1>12. WindowInv'
    BY <1>1, <1>2, <1>11 DEF WindowInv, DisjointWindows
  <1>13. PairInv'
    <2>1. Lacking' \subseteq Lacking \cup {row}
      BY <1>1 DEF Lacking
    <2>2. /\ IsFiniteSet(Lacking \cup {row}) /\ Cardinality(Lacking) \in Nat
          /\ Cardinality(Lacking \cup {row}) =
                IF row \in Lacking THEN Cardinality(Lacking)
                                   ELSE Cardinality(Lacking) + 1
      BY <1>3, FS_AddElement, FS_CardinalityType
    <2>3. Cardinality(Lacking \cup {row}) <= stops + 1 /\ stops + 1 \in Nat
      BY <1>2, <1>3, <2>2 DEF PairInv
    <2>4. Cardinality(Lacking') <= stops + 1
      BY <2>1, <2>2, <2>3, Fewer
    <2>5. QED
      BY <1>1, <1>2, <2>4 DEF PairInv
  <1>14. Balanced'
    <2>1. Balanced
      BY <1>2, AccountedBalanced
    <2>2. \A n \in Names : InRow'[n] = 0 /\ Items(observations', n) = 0
      BY <1>1, ItemsEmpty DEF InRow, Zero
    <2>3. ASSUME NEW n \in Names
          PROVE  made[n] = reported[n] + gone'[n] + (Items(observations', n) + InRow'[n])
      <3>1. made[n] = reported[n] + gone[n] + (Items(observations, n) + InRow[n])
        BY <2>1 DEF Balanced
      <3>2. made[n] \in Nat /\ reported[n] \in Nat /\ gone[n] \in Nat /\ lost[n] \in Nat
        BY <1>4, <1>7
      <3>3. QED
        BY <1>7, <1>8, <2>2, <3>1, <3>2
    <2>4. QED
      BY <1>1, <2>3 DEF Balanced
  <1>15. QED
    BY <1>9, <1>10, <1>12, <1>13, <1>14, InvBalanced DEF Inv

\* A new process: its first window starts at the system clock's time.
LEMMA InvStart ==
    ASSUME Inv, Start
    PROVE  Inv'
  <1>1. /\ pc = "down" /\ pc' = "wait" /\ armed' = now /\ window_since' = system
        /\ UNCHANGED <<now, system, set_back, reading, observations, window_until,
                       row, cutoff, activity, database, ask, stops, made, reported,
                       gone, horizon>>
    BY DEF Start, clockVars, tableVars, historyVars
  <1>2. TypeInv /\ RowInv /\ WindowInv /\ PairInv /\ AskInv /\ Accounted
    BY DEF Inv
  <1>3. now \in Nat \ {0} /\ now \in 0..now /\ system \in Nat \ {0}
    BY <1>2, Clock
  <1>4. TypeInv'
    BY <1>1, <1>2, <1>3 DEF TypeInv, TypeOK, Writing
  <1>5. RowInv' /\ AskInv' /\ Accounted'
    BY <1>1, <1>2, <1>3 DEF RowInv, Writing, AskInv, InRange, Accounted
  <1>6. WindowInv'
    <2>1. End' = system /\ End = system
      BY <1>1 DEF End
    <2>2. Monotone => Monotone'
      BY <1>1, <1>3, <2>1 DEF Monotone, Writing
    <2>3. QED
      BY <1>1, <1>2, <2>2 DEF WindowInv, DisjointWindows
  <1>7. PairInv'
    <2>1. Lacking' = Lacking
      BY <1>1 DEF Lacking
    <2>2. QED
      BY <1>1, <1>2, <2>1 DEF PairInv
  <1>8. QED
    BY <1>4, <1>5, <1>6, <1>7 DEF Inv

-----------------------------------------------------------------------------
(* The theorems *)

\* A new database and a new process satisfy the invariant.
LEMMA InvInit == Init => Inv
  <1>1. SUFFICES ASSUME Init PROVE Inv
    OBVIOUS
  <1>2. MaxTime \in Nat \ {0} /\ Retention \in Nat
    BY DiagnosticsAssumption
  <1>3. IsFiniteSet({}) /\ Cardinality({}) = 0
    BY FS_EmptySet
  <1>4. TypeInv
    <2>1. /\ observations \in Seq([at : 1..now, name : Names, item_count : 1..MaxItems])
          /\ Len(observations) = 0
      BY <1>1, EmptySeq DEF Init
    <2>2. {made, reported, gone} \subseteq [Names -> Nat]
      BY <1>1 DEF Init, Zero
    <2>3. now \in 1..MaxTime /\ reading \in [Threads -> 0..now] /\ armed \in 0..now
      BY <1>1, <1>2 DEF Init
    <2>4. set_back \in BOOLEAN
      BY <1>1 DEF Init
    <2>5. /\ system = 1 /\ pc = "wait" /\ window_since = 1 /\ window_until = 0
          /\ cutoff = 0 /\ horizon = 0 /\ stops = 0 /\ activity = {} /\ database = {}
      BY <1>1 DEF Init
    <2>6. QED
      BY <1>3, <2>1, <2>2, <2>3, <2>4, <2>5 DEF TypeInv, TypeOK, Writing
  <1>5. RowInv
    BY <1>1 DEF Init, RowInv, Writing
  <1>6. WindowInv
    BY <1>1 DEF Init, WindowInv, Monotone, DisjointWindows, Writing
  <1>7. PairInv
    <2>1. Lacking = {}
      BY <1>1 DEF Init, Lacking
    <2>2. QED
      BY <1>1, <1>3, <2>1 DEF Init, PairInv
  <1>8. AskInv
    BY <1>1 DEF Init, AskInv, None
  <1>9. Balanced
    <2>1. \A n \in Names : /\ made[n] = 0 /\ reported[n] = 0 /\ gone[n] = 0
                           /\ InRow[n] = 0 /\ Items(observations, n) = 0
      BY <1>1, ItemsEmpty DEF Init, Zero, InRow
    <2>2. QED
      BY <2>1 DEF Balanced
  <1>10. QED
    BY <1>4, <1>5, <1>6, <1>7, <1>8, <1>9, AccountedBalanced DEF Inv

\* Every step of a thread, of the task, of a query, of a clock or of the process
\* keeps it.
LEMMA InvNext == Inv /\ [Next]_vars => Inv'
  <1>1. SUFFICES ASSUME Inv, [Next]_vars PROVE Inv'
    OBVIOUS
  <1>2. CASE Tick
    BY <1>1, <1>2, InvTick
  <1>3. CASE Stop
    BY <1>1, <1>3, InvStop
  <1>4. CASE Start
    BY <1>1, <1>4, InvStart
  <1>5. ASSUME NEW t \in Threads, CollectStart(t) PROVE Inv'
    BY <1>1, <1>5, InvCollectStart
  <1>6. ASSUME NEW t \in Threads, NEW name \in Names, Collect(t, name, ItemCount(name))
        PROVE  Inv'
    BY <1>1, <1>6, InvCollect
  <1>7. CASE TimerFires
    BY <1>1, <1>7, InvTimerFires
  <1>8. CASE Flush
    BY <1>1, <1>8, InvFlush
  <1>9. CASE InsertActivityStats
    BY <1>1, <1>9, InvInsertActivityStats
  <1>10. CASE InsertDatabaseStats
    BY <1>1, <1>10, InvInsertDatabaseStats
  <1>11. CASE DeleteActivityStats
    BY <1>1, <1>11, InvDeleteActivityStats
  <1>12. CASE DeleteDatabaseStats
    BY <1>1, <1>12, InvDeleteDatabaseStats
  <1>13. ASSUME NEW range \in Ranges, QueryActivityStats(range) PROVE Inv'
    BY <1>1, <1>13, InvQueryActivityStats
  <1>14. CASE QueryDatabaseStats
    BY <1>1, <1>14, InvQueryDatabaseStats
  <1>15. ASSUME NEW time \in 1..MaxTime, SetClock(time) PROVE Inv'
    BY <1>1, <1>15, InvSetClock
  <1>16. CASE UNCHANGED vars
    <2>1. UNCHANGED <<now, system, set_back, reading, observations, pc, armed,
                      window_since, window_until, row, cutoff, activity, database, ask,
                      stops, made, reported, gone, horizon>>
      BY <1>16 DEF vars, clockVars, taskVars, tableVars, historyVars
    <2>2. TypeInv /\ RowInv /\ WindowInv /\ PairInv /\ AskInv /\ Accounted
      BY <1>1 DEF Inv
    <2>3. TypeInv' /\ RowInv' /\ Accounted'
      BY <2>1, <2>2 DEF TypeInv, TypeOK, RowInv, Accounted, RowTally
    <2>4. WindowInv'
      BY <2>1, <2>2 DEF WindowInv, Monotone, DisjointWindows, End
    <2>5. QED
      BY <2>1, <2>2, <2>3, <2>4, InvApart DEF Inv
  <1>17. QED
    BY <1>1, <1>2, <1>3, <1>4, <1>5, <1>6, <1>7, <1>8, <1>9, <1>10, <1>11, <1>12,
       <1>13, <1>14, <1>15, <1>16 DEF Next

\* The invariant holds in every reachable state.
LEMMA Invariance == Spec => []Inv
  BY InvInit, InvNext, PTL DEF Spec

\* Types: readings of the steady clock are past, the counts are natural numbers
\* per name, and the window that is written ends where the next one of the
\* process begins (diagnostics.hpp, run).
THEOREM TypeCorrect == Spec => []TypeOK
  <1>1. Inv => TypeOK
    BY DEF Inv, TypeInv
  <1>2. QED
    BY <1>1, Invariance, PTL

\* Every observation is reported once, in the registry, or dropped, for any
\* number of threads that race with Flush (metrics.cpp, Collect and Flush).
THEOREM SafeAccounted == Spec => []Accounted
  <1>1. Inv => Accounted
    BY DEF Inv
  <1>2. QED
    BY <1>1, Invariance, PTL

\* Unless the system clock was set back, windows never overlap and are an
\* interval long, across any crashes and any settings forward, however late the
\* timer fires and however long a pass takes (diagnostics.hpp, run).
THEOREM SafeDisjointWindows == Spec => []DisjointWindows
  <1>1. Inv => DisjointWindows
    BY DEF Inv, WindowInv
  <1>2. QED
    BY <1>1, Invariance, PTL

\* Whatever is done to the system clock, the tables stay paired, and of the
\* samples that GET /stats answers at most one, and one for every crash, lacks its
\* database row.
THEOREM SafeAnswerPaired == Spec => []AnswerPaired
  <1>1. ASSUME Inv PROVE AnswerPaired
    <2>1. TypeInv /\ PairInv /\ AskInv
      BY <1>1 DEF Inv
    <2>2. stops \in Nat /\ horizon \in Int /\ IsFiniteSet(Lacking)
      BY <2>1, Clock
    <2>3. \A t \in database : t < horizon \/ \E r \in activity : r.until = t
      BY <2>1 DEF PairInv
    <2>4. ASSUME ask.open
          PROVE  Cardinality({r \in ask.rows : /\ r.until \notin DatabaseAnswer
                                               /\ r.until >= horizon}) <= 1 + stops
      <3>1. PICK bare : bare = {r \in ask.rows : /\ r.until \notin DatabaseAnswer
                                                 /\ r.until >= horizon}
        OBVIOUS
      <3>2. ASSUME NEW r \in bare PROVE r \in Lacking \cup {row}
        <4>1. r \in ask.rows /\ r.until \notin DatabaseAnswer /\ r.until >= horizon
          BY <3>1
        <4>2. /\ InRange(ask.range, r.until) /\ r.until \in Nat \ {0}
              /\ r \in activity \/ r.until < horizon
          BY <2>1, <2>4, <4>1 DEF AskInv
        <4>3. r \in activity
          BY <2>2, <4>1, <4>2
        <4>4. r.until \notin database
          BY <4>1, <4>2 DEF DatabaseAnswer
        <4>5. QED
          BY <4>1, <4>3, <4>4 DEF Lacking
      <3>3. /\ IsFiniteSet(Lacking \cup {row}) /\ Cardinality(Lacking) \in Nat
            /\ Cardinality(Lacking \cup {row}) =
                  IF row \in Lacking THEN Cardinality(Lacking)
                                     ELSE Cardinality(Lacking) + 1
        BY <2>2, FS_AddElement, FS_CardinalityType
      <3>4. Cardinality(Lacking \cup {row}) <= 1 + stops /\ 1 + stops \in Nat
        BY <2>1, <2>2, <3>3 DEF PairInv
      <3>5. bare \subseteq Lacking \cup {row}
        BY <3>2
      <3>6. Cardinality(bare) <= 1 + stops
        BY <3>3, <3>4, <3>5, Fewer
      <3>7. QED
        BY <3>1, <3>6
    <2>5. QED
      BY <2>3, <2>4 DEF AnswerPaired
  <1>2. QED
    BY <1>1, Invariance, PTL

=============================================================================
