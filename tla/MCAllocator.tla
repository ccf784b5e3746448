---------------------------- MODULE MCAllocator ----------------------------
EXTENDS Allocator, TLC

(* Threads are told apart by nothing but their place in realloc.           *)
Interchangeable == Permutations(Threads)

(* Sizes on both sides of each rounding and splitting limit, and sizes too *)
(* near to WordMax for the rounding, the header and the break (31, 30, 28).*)
SomeSizes == {1, 4, 7, 28, 30, 31}

(* An array that fits, and one whose size overflows to 4.                  *)
SomeArrays == {<<1, 2>>, <<6, 6>>}
=============================================================================
