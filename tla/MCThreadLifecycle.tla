------------------------- MODULE MCThreadLifecycle -------------------------
EXTENDS ThreadLifecycle, TLC

(* Control cells and TIDs are interchangeable: no operator tells two of    *)
(* them apart, and the run checks invariants only.                         *)
Interchangeable == Permutations(Controls) \cup Permutations(Tids)
=============================================================================
