-------------------------- MODULE MCCompressedStore ---------------------------
(* Model values for CompressedStore: two of the three values have texts    *)
(* that SQLite takes for the same number.                                  *)
EXTENDS CompressedStore, TLC

CONSTANTS five, padded, other

MCValues == {five, padded, other}
MCText == [v \in MCValues |-> CASE v = five -> "5"
                                [] v = padded -> "05"
                                [] v = other -> "other"]
MCAffinity == ("5" :> "5") @@ ("05" :> "5") @@ ("other" :> "other")
\* A filter on every column that accepts two of the three texts.
MCFilters == {[c \in Columns |-> {"5", "other"}]}
\* No column is told apart from another.
Symmetry == Permutations(Columns)

=============================================================================
