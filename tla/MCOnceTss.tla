----------------------------- MODULE MCOnceTss -----------------------------
EXTENDS OnceTss, TLC

(* No operator tells two threads or two flags apart, and the run checks    *)
(* invariants only.                                                        *)
Interchangeable == Permutations(Threads) \cup Permutations(Flags)
=============================================================================
