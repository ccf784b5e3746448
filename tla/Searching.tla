------------------------------ MODULE Searching ------------------------------
(***************************************************************************)
(* src/stdlib/bsearch.c: binary search, the insertion sort behind qsort,   *)
(* and the division functions.  The comparison function the caller passes  *)
(* is the constant Compare, which may call elements equal that are not.    *)
(***************************************************************************)
EXTENDS Integers, Sequences, FiniteSets, SequencesExt

CONSTANT Compare(_, _)

(* bsearch: the position of an element equal to key, 0 for none.           *)
RECURSIVE Bsearch(_, _, _, _)
Bsearch(a, key, low, high) ==
    IF low >= high THEN 0
    ELSE LET mid == low + (high - low) \div 2
             order == Compare(key, a[mid + 1])
         IN  CASE order < 0 -> Bsearch(a, key, low, mid)
               [] order > 0 -> Bsearch(a, key, mid + 1, high)
               [] OTHER     -> mid + 1

Swapped(a, j) == [a EXCEPT ![j] = a[j + 1], ![j + 1] = a[j]]

(* The inner loop of qsort: element j + 1 sinks to its place.              *)
RECURSIVE Sink(_, _)
Sink(a, j) ==
    IF j = 0 THEN a
    ELSE IF Compare(a[j], a[j + 1]) <= 0 THEN a ELSE Sink(Swapped(a, j), j - 1)

Qsort(a) == FoldLeft(LAMBDA sorted, i : Sink(sorted, i), a, [i \in 1 .. Len(a) - 1 |-> i])

(* abs and div: C division truncates toward zero.                          *)
Abs(j) == IF j < 0 THEN -j ELSE j

Quot(n, d) == IF (n >= 0) = (d > 0) THEN Abs(n) \div Abs(d)
                                          ELSE -(Abs(n) \div Abs(d))

Div(n, d) == [quot |-> Quot(n, d), rem |-> n - Quot(n, d) * d]

-----------------------------------------------------------------------------
(* The sorted array is an ordered permutation that keeps equal elements in *)
(* their order, and bsearch on it finds exactly the keys that it holds.    *)
SortedRight(a, key) ==
    LET s == Qsort(a)
    IN  /\ \A i, j \in 1 .. Len(s) : i < j => Compare(s[i], s[j]) <= 0
        /\ \E p \in [1 .. Len(a) -> 1 .. Len(a)] :
              /\ \A i, j \in 1 .. Len(a) : i # j => p[i] # p[j]
              /\ \A i \in 1 .. Len(a) : s[i] = a[p[i]]
              /\ \A i, j \in 1 .. Len(a) :
                    i < j /\ Compare(s[i], s[j]) = 0 => p[i] < p[j]
        /\ LET hit == Bsearch(s, key, 0, Len(s))
           IN  IF \E i \in 1 .. Len(s) : Compare(key, s[i]) = 0
                 THEN hit # 0 /\ Compare(key, s[hit]) = 0 ELSE hit = 0

DividedRight(n, d) ==
    LET r == Div(n, d)
    IN  /\ r.quot * d + r.rem = n /\ Abs(r.rem) < Abs(d)
        /\ r.rem # 0 => (r.rem < 0 <=> n < 0)
=============================================================================
