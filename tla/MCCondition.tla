---------------------------- MODULE MCCondition ----------------------------
EXTENDS Condition, TLC

(* No operator tells two threads apart, and the run checks invariants and  *)
(* action properties only.                                                 *)
Interchangeable == Permutations(Threads)
=============================================================================
