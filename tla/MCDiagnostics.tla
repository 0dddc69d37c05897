---------------------------- MODULE MCDiagnostics -----------------------------
(* Diagnostics for TLC: the threads that record observations are alike.    *)
EXTENDS Diagnostics, TLC

Symmetry == Permutations(Threads)

=============================================================================
