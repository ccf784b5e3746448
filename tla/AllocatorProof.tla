--------------------------- MODULE AllocatorProof ---------------------------
(***************************************************************************)
(* Proofs about the allocator for any threads, sizes, alignment, header,   *)
(* arena and word: the block list tiles the arena and is coalesced, data   *)
(* of a live allocation is never lost, and every used block has an owner.  *)
(***************************************************************************)
EXTENDS Allocator, FiniteSetTheorems, WellFoundedInduction, TLAPS

-----------------------------------------------------------------------------
(* Multiples of the alignment.                                             *)
LEMMA Factor ==
    ASSUME NEW a \in Nat \ {0}, NEW x \in Nat, x % a = 0
    PROVE  \E k \in Nat : x = k * a
OBVIOUS

LEMMA Multiple == ASSUME NEW a \in Nat \ {0}, NEW k \in Nat PROVE (k * a) % a = 0
OBVIOUS

LEMMA SumAligned ==
    ASSUME NEW a \in Nat \ {0}, NEW x \in Nat, NEW y \in Nat, x % a = 0, y % a = 0
    PROVE  (x + y) % a = 0
<1>1. PICK k \in Nat : x = k * a
  BY Factor
<1>2. PICK l \in Nat : y = l * a
  BY Factor
<1>3. x + y = (k + l) * a /\ k + l \in Nat
  BY <1>1, <1>2
<1> QED BY <1>3, Multiple

LEMMA RestAligned ==
    ASSUME NEW a \in Nat \ {0}, NEW x \in Nat, NEW y \in Nat, x % a = 0, y % a = 0, y <= x
    PROVE  (x - y) % a = 0
<1>1. PICK k \in Nat : x = k * a
  BY Factor
<1>2. PICK l \in Nat : y = l * a
  BY Factor
<1>3. x - y = (k - l) * a
  BY <1>1, <1>2
<1>4. k - l \in Nat
  <2> SUFFICES ASSUME k < l PROVE FALSE
    OBVIOUS
  <2>1. PICK m \in Nat : l = k + m /\ m >= 1
    <3>1. l = k + (l - k) /\ l - k \in Nat /\ l - k >= 1
      OBVIOUS
    <3> QED BY <3>1
  <2>2. y = x + m * a /\ m * a >= a
    BY <1>1, <1>2, <2>1
  <2> QED BY <2>2
<1> QED BY <1>3, <1>4, Multiple

LEMMA DivMod ==
    ASSUME NEW A \in Nat \ {0}, NEW x \in Nat
    PROVE  x = A * (x \div A) + (x % A) /\ x \div A \in Nat
OBVIOUS

LEMMA Division ==
    ASSUME NEW a \in Nat \ {0}, NEW x \in Nat
    PROVE  \E q \in Nat : x - (x % a) = q * a /\ q * a <= x /\ q * a >= x - (a - 1)
<1>1. x = a * (x \div a) + (x % a) /\ x \div a \in Nat
  BY DivMod
<1>2. x % a \in 0 .. a - 1
  OBVIOUS
<1>3. PICK q \in Nat : q = x \div a
  BY <1>1
<1>4. x - (x % a) = q * a
  BY <1>1, <1>2, <1>3
<1>5. q * a <= x /\ q * a >= x - (a - 1)
  BY <1>2, <1>4
<1> QED BY <1>4, <1>5

LEMMA Constants ==
    /\ Align \in Nat \ {0} /\ Header \in Nat \ {0} /\ Header % Align = 0
    /\ Break \in Nat \ {0} /\ Limit \in Nat /\ Break <= Limit /\ Limit <= WordMax
    /\ WordMax \in Nat /\ Tags \subseteq Nat \ {0}
    /\ Sizes \subseteq 1 .. WordMax /\ Arrays \subseteq (1 .. WordMax) \X (1 .. WordMax)
BY AllocatorConstants

(* align_size: zero, or the next multiple, which fits in a word.           *)
LEMMA Aligned ==
    ASSUME NEW n \in Nat, n > 0
    PROVE  /\ AlignSize(n) \in Nat /\ AlignSize(n) <= WordMax
           /\ AlignSize(n) # 0 =>
                AlignSize(n) >= n /\ AlignSize(n) >= Align /\ AlignSize(n) % Align = 0
<1>1. CASE n > WordMax - (Align - 1)
  BY <1>1, Constants DEF AlignSize
<1>2. CASE n <= WordMax - (Align - 1)
  <2>1. PICK m \in Nat : m = n + Align - 1
    BY Constants
  <2>2. PICK q \in Nat : /\ m - (m % Align) = q * Align
                        /\ q * Align <= m /\ q * Align >= m - (Align - 1)
    BY Division, Constants
  <2>3. AlignSize(n) = m - (m % Align)
    BY <1>2, <2>1, Constants DEF AlignSize
  <2>4. AlignSize(n) = q * Align
    BY <2>2, <2>3
  <2>5. q * Align \in Nat /\ q * Align <= WordMax
    BY <1>2, <2>1, <2>2, Constants
  <2>6. q * Align >= n
    BY <2>1, <2>2, <2>5, Constants
  <2>7. q >= 1
    BY <2>6, Constants
  <2>8. q * Align >= Align
    BY <2>7, Constants
  <2>9. (q * Align) % Align = 0
    BY Multiple, Constants
  <2> QED BY <2>4, <2>5, <2>6, <2>8, <2>9, Constants
<1> QED BY <1>1, <1>2, Constants

-----------------------------------------------------------------------------
(* The block list, heap by heap.  A block's neighbour is the block that    *)
(* starts where it ends; Chain says what HeapTiled does, by addresses.     *)
Blocks(h) == DOMAIN h.block

Used(h) == {b \in Blocks(h) : ~h.block[b].free}

IsHeap(h) ==
    h = [block |-> [b \in DOMAIN h.block |-> h.block[b]],
         head |-> h.head, tail |-> h.tail, end |-> h.end]

Ends(h) ==
    /\ h.end \in 0 .. Limit
    /\ Blocks(h) = {} => h.head = Null /\ h.tail = Null /\ h.end \in {0, AlignSize(Break)}
    /\ Blocks(h) # {} => h.head = AlignSize(Break) /\ h.head \in Blocks(h) /\ h.tail \in Blocks(h)

Placed(h, b) ==
    /\ h.block[b].size >= Align /\ h.block[b].size % Align = 0
    /\ After(h, b) <= h.end
    /\ b = h.tail => h.block[b].next = Null /\ After(h, b) = h.end
    /\ b # h.tail => h.block[b].next = After(h, b) /\ After(h, b) \in Blocks(h)

Chain(h) ==
    /\ IsHeap(h) /\ Ends(h)
    /\ Blocks(h) \subseteq Arena
    /\ \A b \in Blocks(h) : h.block[b] \in Block
    /\ \A b \in Blocks(h) : Placed(h, b)
    /\ \A b, c \in Blocks(h) : b < c => After(h, b) <= c
    /\ \A b \in Blocks(h) : b # h.head => \E p \in Blocks(h) : After(h, p) = b
    /\ \A b \in Blocks(h) : h.head <= b

(* The free blocks that have a free neighbour behind them.                 *)
Clashes(h) == {b \in Blocks(h) : h.block[b].free /\ Mergeable(h, b)}

(* The used blocks other than b are the same in both heaps.                *)
Kept(h, r, b) ==
    /\ Used(r) \ {b} = Used(h) \ {b}
    /\ \A c \in Used(h) \ {b} : /\ r.block[c].size = h.block[c].size
                                /\ r.block[c].requested = h.block[c].requested

LEMMA KeptThrough ==
    ASSUME NEW h, NEW r, NEW s, NEW b, Kept(h, r, b), Kept(r, s, b)
    PROVE  Kept(h, s, b)
BY DEF Kept

LEMMA KeptSame == ASSUME NEW h, NEW b PROVE Kept(h, h, b)
BY DEF Kept

(* With changes one block of the list, or adds it.                         *)
LEMMA WithFacts ==
    ASSUME NEW h, NEW b, NEW x, IsHeap(h)
    PROVE  /\ IsHeap(With(h, b, x))
           /\ Blocks(With(h, b, x)) = Blocks(h) \cup {b}
           /\ With(h, b, x).block[b] = x
           /\ \A c \in Blocks(h) : c # b => With(h, b, x).block[c] = h.block[c]
           /\ With(h, b, x).head = h.head /\ With(h, b, x).tail = h.tail
           /\ With(h, b, x).end = h.end
<1>1. PICK f : f = [c \in DOMAIN h.block \cup {b} |-> IF c = b THEN x ELSE h.block[c]]
  OBVIOUS
<1>2. With(h, b, x) = [block |-> f, head |-> h.head, tail |-> h.tail, end |-> h.end]
  BY <1>1 DEF With, IsHeap
<1>3. f = [c \in DOMAIN f |-> f[c]]
  BY <1>1
<1> QED BY <1>1, <1>2, <1>3 DEF IsHeap, Blocks

(* A block and what is behind it.                                          *)
LEMMA BlockFacts ==
    ASSUME NEW h, Chain(h), NEW b \in Blocks(h)
    PROVE  /\ b \in Nat /\ b >= 1 /\ b <= Limit
           /\ h.block[b].size \in Nat /\ h.block[b].size >= 1 /\ h.block[b].size <= Limit
           /\ h.block[b].free \in BOOLEAN /\ h.block[b].requested \in 0 .. WordMax
           /\ After(h, b) \in Nat /\ After(h, b) = b + Header + h.block[b].size
           /\ After(h, b) > b + Header /\ After(h, b) <= h.end
           /\ h.end \in Nat /\ h.end <= Limit
<1>1. b \in Arena /\ h.block[b] \in Block /\ Placed(h, b) /\ h.end \in 0 .. Limit
  BY DEF Chain, Ends
<1>2. PICK s \in Nat : s = h.block[b].size
  BY <1>1, Constants DEF Block
<1>3. s >= 1 /\ b + Header + s <= h.end /\ After(h, b) = b + Header + s
  BY <1>1, <1>2, Constants DEF Placed, After
<1>4. h.block[b].free \in BOOLEAN /\ h.block[b].requested \in 0 .. WordMax
  BY <1>1 DEF Block
<1> QED BY <1>1, <1>2, <1>3, <1>4, Constants DEF Arena

LEMMA Apart ==
    ASSUME NEW h, Chain(h), NEW b \in Blocks(h), NEW c \in Blocks(h), b # c
    PROVE  After(h, b) <= c \/ After(h, c) <= b
<1>1. b \in Nat /\ c \in Nat
  BY BlockFacts
<1>2. b < c \/ c < b
  BY <1>1
<1> QED BY <1>2 DEF Chain

LEMMA Neighbour ==
    ASSUME NEW h, Chain(h), NEW b \in Blocks(h)
    PROVE  /\ b = h.tail => h.block[b].next = Null /\ After(h, b) = h.end
           /\ b # h.tail => h.block[b].next = After(h, b) /\ After(h, b) \in Blocks(h)
           /\ Mergeable(h, b) <=> b # h.tail /\ h.block[After(h, b)].free
<1>1. Placed(h, b)
  BY DEF Chain
<1>2. After(h, b) # Null
  BY BlockFacts, Constants DEF Null
<1> QED BY <1>1, <1>2 DEF Placed, Mergeable

(* No two blocks end at the same place.                                    *)
LEMMA OneBefore ==
    ASSUME NEW h, Chain(h), NEW b \in Blocks(h), NEW c \in Blocks(h), After(h, b) = After(h, c)
    PROVE  b = c
<1>1. After(h, b) > b /\ After(h, c) > c /\ b \in Nat /\ c \in Nat /\ After(h, b) \in Nat
  BY BlockFacts, Constants
<1>2. CASE b # c
  BY <1>1, <1>2, Apart
<1> QED BY <1>2

(* Marking a block used or free leaves the list as it is.                  *)
LEMMA Relabel ==
    ASSUME NEW h, Chain(h), NEW b \in Blocks(h), NEW x \in Block,
           x.size = h.block[b].size, x.next = h.block[b].next,
           NEW r, r = With(h, b, x)
    PROVE  /\ Chain(r) /\ Blocks(r) = Blocks(h) /\ r.tail = h.tail /\ r.end = h.end
           /\ r.block[b] = x
           /\ \A c \in Blocks(h) \ {b} : r.block[c] = h.block[c]
           /\ \A c \in Blocks(h) : After(r, c) = After(h, c)
<1>1. /\ IsHeap(r) /\ Blocks(r) = Blocks(h) /\ r.block[b] = x
      /\ \A c \in Blocks(h) : c # b => r.block[c] = h.block[c]
      /\ r.head = h.head /\ r.tail = h.tail /\ r.end = h.end
  <2>1. IsHeap(h) /\ Blocks(h) \cup {b} = Blocks(h)
    BY DEF Chain
  <2>2. Blocks(r) = Blocks(h) \cup {b}
    BY <2>1, WithFacts
  <2>3. /\ IsHeap(r) /\ r.block[b] = x
        /\ \A c \in Blocks(h) : c # b => r.block[c] = h.block[c]
        /\ r.head = h.head /\ r.tail = h.tail /\ r.end = h.end
    BY <2>1, WithFacts
  <2> QED BY <2>1, <2>2, <2>3
<1>2. \A c \in Blocks(h) : /\ r.block[c].size = h.block[c].size
                           /\ r.block[c].next = h.block[c].next
                           /\ r.block[c] \in Block
  BY <1>1 DEF Chain
<1>3. \A c \in Blocks(h) : After(r, c) = After(h, c)
  BY <1>2 DEF After
<1>4. Ends(r)
  BY <1>1 DEF Chain, Ends
<1>5. ASSUME NEW c \in Blocks(r) PROVE Placed(r, c)
  <2>1. Placed(h, c) /\ After(r, c) = After(h, c)
    BY <1>1, <1>3 DEF Chain
  <2> QED BY <1>1, <1>2, <2>1 DEF Placed
<1>6. Chain(r)
  BY <1>1, <1>2, <1>3, <1>4, <1>5 DEF Chain
<1> QED BY <1>1, <1>3, <1>6

LEMMA RequestFacts ==
    ASSUME NEW h, Chain(h), NEW b \in Blocks(h), NEW size \in 0 .. WordMax,
           NEW r, r = Request(h, b, size)
    PROVE  /\ Chain(r) /\ Kept(h, r, b) /\ b \in Used(r)
           /\ r.block[b].requested = size /\ r.block[b].size = h.block[b].size
           /\ Clashes(r) \subseteq Clashes(h) \ {b}
<1>1. h.block[b] \in Block
  BY DEF Chain
<1>2. PICK x : x = [h.block[b] EXCEPT !.free = FALSE, !.requested = size]
  OBVIOUS
<1>3. /\ x \in Block /\ x.size = h.block[b].size /\ x.next = h.block[b].next
      /\ x.free = FALSE /\ x.requested = size
  BY <1>1, <1>2 DEF Block
<1>4. r = With(h, b, x)
  BY <1>2 DEF Request
<1>5. /\ Chain(r) /\ Blocks(r) = Blocks(h) /\ r.tail = h.tail
      /\ r.block[b] = x
      /\ \A c \in Blocks(h) \ {b} : r.block[c] = h.block[c]
      /\ \A c \in Blocks(h) : After(r, c) = After(h, c)
  BY <1>3, <1>4, Relabel
<1>6. ASSUME NEW c \in Clashes(r) PROVE c \in Clashes(h) \ {b}
  <2>1. c \in Blocks(h) /\ c # b /\ r.block[c].free /\ Mergeable(r, c)
    BY <1>3, <1>5, <1>6 DEF Clashes
  <2>2. c # r.tail /\ After(r, c) \in Blocks(r) /\ r.block[After(r, c)].free
    BY <1>5, <2>1, Neighbour
  <2>3. c # h.tail /\ h.block[After(h, c)].free
    BY <1>3, <1>5, <2>1, <2>2
  <2> QED BY <1>5, <2>1, <2>3, Neighbour DEF Clashes
<1>7. Used(r) = Used(h) \cup {b}
  BY <1>3, <1>5 DEF Used
<1>8. Kept(h, r, b)
  BY <1>5, <1>7 DEF Kept, Used
<1> QED BY <1>3, <1>5, <1>6, <1>7, <1>8

(* free's first step.                                                      *)
MarkedFree(h, b) == With(h, b, [h.block[b] EXCEPT !.free = TRUE])

LEMMA MarkFreeFacts ==
    ASSUME NEW h, Chain(h), NEW b \in Blocks(h),
           NEW r, r = MarkedFree(h, b)
    PROVE  /\ Chain(r) /\ Blocks(r) = Blocks(h) /\ r.block[b].free /\ Kept(h, r, b)
           /\ \A c \in Blocks(h) : After(r, c) = After(h, c)
           /\ \A c \in Clashes(r) : c \in Clashes(h) \/ c = b \/ After(h, c) = b
<1>1. h.block[b] \in Block
  BY DEF Chain
<1>2. PICK x : x = [h.block[b] EXCEPT !.free = TRUE]
  OBVIOUS
<1>3. x \in Block /\ x.size = h.block[b].size /\ x.next = h.block[b].next /\ x.free = TRUE
  BY <1>1, <1>2 DEF Block
<1>4. r = With(h, b, x)
  BY <1>2 DEF MarkedFree
<1>5. /\ Chain(r) /\ Blocks(r) = Blocks(h) /\ r.tail = h.tail
      /\ r.block[b] = x
      /\ \A c \in Blocks(h) \ {b} : r.block[c] = h.block[c]
      /\ \A c \in Blocks(h) : After(r, c) = After(h, c)
  BY <1>3, <1>4, Relabel
<1>6. ASSUME NEW c \in Clashes(r), c # b, After(h, c) # b PROVE c \in Clashes(h)
  <2>1. c \in Blocks(h) /\ r.block[c].free /\ Mergeable(r, c)
    BY <1>5 DEF Clashes
  <2>2. c # r.tail /\ After(r, c) \in Blocks(r) /\ r.block[After(r, c)].free
    BY <1>5, <2>1, Neighbour
  <2>3. c # h.tail /\ h.block[After(h, c)].free
    BY <1>5, <1>6, <2>1, <2>2
  <2> QED BY <1>5, <1>6, <2>1, <2>3, Neighbour DEF Clashes
<1>7. Used(r) = Used(h) \ {b}
  BY <1>3, <1>5 DEF Used
<1>8. Kept(h, r, b)
  BY <1>5, <1>7 DEF Kept, Used
<1> QED BY <1>3, <1>5, <1>6, <1>8

-----------------------------------------------------------------------------
(* split_block: a free block of what is left appears behind the block.     *)
LEMMA SplitShape ==
    ASSUME NEW h, Chain(h), NEW b \in Blocks(h), NEW size \in Nat, Splits(h, b, size),
           NEW rest, rest = b + Header + size,
           NEW r, r = Split(h, b, size)
    PROVE  /\ IsHeap(r) /\ Blocks(r) = Blocks(h) \cup {rest} /\ rest # b
           /\ r.block[b] = [size |-> size, next |-> rest, free |-> h.block[b].free,
                            requested |-> h.block[b].requested]
           /\ r.block[rest] = [size |-> h.block[b].size - size - Header,
                               next |-> h.block[b].next, free |-> TRUE, requested |-> 0]
           /\ \A c \in Blocks(h) : c # b /\ c # rest => r.block[c] = h.block[c]
           /\ r.head = h.head /\ r.end = h.end
           /\ r.tail = IF h.tail = b THEN rest ELSE h.tail
<1>1. IsHeap(h) /\ h.block[b] \in Block
  BY DEF Chain
<1>2. rest # b
  BY BlockFacts, Constants
<1>3. PICK cut : cut = [h.block[b] EXCEPT !.size = size, !.next = rest]
  OBVIOUS
<1>4. cut = [size |-> size, next |-> rest, free |-> h.block[b].free,
             requested |-> h.block[b].requested]
  BY <1>1, <1>3 DEF Block
<1>5. PICK new : new = [size |-> h.block[b].size - size - Header,
                        next |-> h.block[b].next, free |-> TRUE, requested |-> 0]
  OBVIOUS
<1>6. PICK first : first = With(h, b, cut)
  OBVIOUS
<1>7. PICK both : both = With(first, rest, new)
  OBVIOUS
<1>8. r = [both EXCEPT !.tail = IF @ = b THEN rest ELSE @]
  BY <1>3, <1>5, <1>6, <1>7 DEF Split, Remaining
<1>9. /\ IsHeap(first) /\ Blocks(first) = Blocks(h) \cup {b}
      /\ first.block[b] = cut
      /\ \A c \in Blocks(h) : c # b => first.block[c] = h.block[c]
      /\ first.head = h.head /\ first.tail = h.tail /\ first.end = h.end
  BY <1>1, <1>6, WithFacts
<1>10. /\ IsHeap(both) /\ Blocks(both) = Blocks(first) \cup {rest}
       /\ both.block[rest] = new
       /\ \A c \in Blocks(first) : c # rest => both.block[c] = first.block[c]
       /\ both.head = first.head /\ both.tail = first.tail /\ both.end = first.end
  BY <1>7, <1>9, WithFacts
<1>11. /\ IsHeap(r) /\ r.block = both.block /\ r.head = both.head /\ r.end = both.end
       /\ r.tail = IF both.tail = b THEN rest ELSE both.tail
  BY <1>8, <1>10 DEF IsHeap
<1>12. Blocks(r) = Blocks(h) \cup {rest}
  BY <1>9, <1>10, <1>11 DEF Blocks
<1>13. r.block[b] = cut /\ r.block[rest] = new
  BY <1>2, <1>9, <1>10, <1>11
<1>14. \A c \in Blocks(h) : c # b /\ c # rest => r.block[c] = h.block[c]
  BY <1>9, <1>10, <1>11
<1> QED BY <1>2, <1>4, <1>5, <1>9, <1>10, <1>11, <1>12, <1>13, <1>14

LEMMA SplitChain ==
    ASSUME NEW h, Chain(h), NEW b \in Blocks(h), NEW size \in Nat, Splits(h, b, size),
           size >= Align, size % Align = 0,
           NEW rest, rest = b + Header + size,
           NEW r, r = Split(h, b, size)
    PROVE  /\ Chain(r) /\ rest \notin Blocks(h) /\ rest \in Nat
           /\ After(r, b) = rest /\ After(r, rest) = After(h, b)
           /\ \A c \in Blocks(h) \ {b} : r.block[c] = h.block[c] /\ After(r, c) = After(h, c)
<1>1. /\ IsHeap(r) /\ Blocks(r) = Blocks(h) \cup {rest} /\ rest # b
      /\ r.block[b] = [size |-> size, next |-> rest, free |-> h.block[b].free,
                       requested |-> h.block[b].requested]
      /\ r.block[rest] = [size |-> h.block[b].size - size - Header,
                          next |-> h.block[b].next, free |-> TRUE, requested |-> 0]
      /\ \A c \in Blocks(h) : c # b /\ c # rest => r.block[c] = h.block[c]
      /\ r.head = h.head /\ r.end = h.end
      /\ r.tail = IF h.tail = b THEN rest ELSE h.tail
  BY SplitShape
<1>2. h.block[b] \in Block /\ b \in Arena /\ Placed(h, b) /\ Ends(h)
  BY DEF Chain
<1>3. PICK s \in Nat : s = h.block[b].size /\ s - size - Header >= Align /\ s <= WordMax
  BY <1>2, Constants DEF Block, Splits, Remaining
<1>4. /\ b \in Nat /\ b >= 1 /\ After(h, b) = b + Header + s /\ After(h, b) <= h.end
      /\ After(h, b) \in Nat
      /\ h.end \in Nat /\ h.end <= Limit
  BY <1>3, BlockFacts
<1>5. rest \in Nat /\ rest > b /\ rest < After(h, b) /\ rest \in Arena
  BY <1>3, <1>4, Constants DEF Arena
<1>6. rest \notin Blocks(h)
  <2> SUFFICES ASSUME rest \in Blocks(h) PROVE FALSE
    OBVIOUS
  <2>1. After(h, b) <= rest \/ After(h, rest) <= b
    BY <1>1, Apart
  <2>2. After(h, rest) > rest /\ After(h, rest) \in Nat
    BY <1>5, BlockFacts, Constants
  <2> QED BY <1>4, <1>5, <2>1, <2>2
<1>7. \A c \in Blocks(h) \ {b} : r.block[c] = h.block[c] /\ After(r, c) = After(h, c)
  BY <1>1, <1>6 DEF After
<1>8. After(r, b) = rest
  BY <1>1 DEF After
<1>9. After(r, rest) = After(h, b)
  BY <1>1, <1>3, <1>4, <1>5, Constants DEF After
<1>10. Ends(r)
  BY <1>1, <1>2 DEF Ends
<1>11. r.block[b] \in Block
  BY <1>1, <1>2, <1>3, <1>5, Constants DEF Block, Arena
<1>12. r.block[rest] \in Block
  BY <1>1, <1>2, <1>3, <1>5, Constants DEF Block, Arena
<1>13. \A c \in Blocks(r) : r.block[c] \in Block
  BY <1>1, <1>7, <1>11, <1>12 DEF Chain
<1>14. Placed(r, b)
  BY <1>1, <1>4, <1>5, <1>8, Constants DEF Placed
<1>15. Placed(r, rest)
  <2>1. (s - size - Header) % Align = 0 /\ s - size - Header >= Align
    <3>1. s % Align = 0 /\ Header % Align = 0
      BY <1>2, <1>3, Constants DEF Placed
    <3>2. s - size \in Nat /\ size <= s
      BY <1>3, Constants
    <3>3. (s - size) % Align = 0
      BY <3>1, <3>2, RestAligned, Constants
    <3>4. PICK d \in Nat : d = s - size /\ d % Align = 0 /\ Header <= d
      BY <1>3, <3>2, <3>3, Constants
    <3>5. (d - Header) % Align = 0
      BY <3>1, <3>4, RestAligned, Constants
    <3> QED BY <1>3, <3>4, <3>5
  <2>2. r.block[rest].size >= Align /\ r.block[rest].size % Align = 0
    BY <1>1, <1>3, <2>1
  <2>3. CASE h.tail = b
    BY <1>1, <1>2, <1>4, <1>9, <2>2, <2>3 DEF Placed
  <2>4. CASE h.tail # b
    <3>1. rest # r.tail
      BY <1>1, <1>2, <1>6, <2>4 DEF Ends
    <3> QED BY <1>1, <1>2, <1>4, <1>9, <2>2, <2>4, <3>1 DEF Placed
  <2> QED BY <2>3, <2>4
<1>16. ASSUME NEW c \in Blocks(h) \ {b} PROVE Placed(r, c)
  <2>1. Placed(h, c) /\ c # rest
    BY <1>6 DEF Chain
  <2>2. c = r.tail <=> c = h.tail
    BY <1>1, <2>1
  <2> QED BY <1>1, <1>7, <2>1, <2>2 DEF Placed
<1>17. ASSUME NEW c \in Blocks(r), NEW d \in Blocks(r), c < d PROVE After(r, c) <= d
  <2>0. \A e \in Blocks(h) : e \in Nat /\ After(h, e) \in Nat
    BY BlockFacts
  <2>1. CASE c = b /\ d # rest
    <3>1. After(h, b) <= d
      BY <1>1, <1>17, <2>1 DEF Chain
    <3>2. d \in Nat
      BY <1>1, <1>17, <2>0, <2>1
    <3> QED BY <1>4, <1>5, <1>8, <2>1, <3>1, <3>2
  <2>2. CASE c = b /\ d = rest
    BY <1>5, <1>8, <2>2
  <2>3. CASE c = rest
    <3>0. d \in Blocks(h)
      BY <1>1, <1>5, <1>17, <2>3
    <3>1. d \in Blocks(h) /\ b < d
      BY <1>4, <1>5, <1>17, <2>0, <2>3, <3>0
    <3>2. After(h, b) <= d
      BY <3>1 DEF Chain
    <3> QED BY <1>9, <2>3, <3>2
  <2>4. CASE c # b /\ c # rest /\ d = rest
    <3>1. c \in Blocks(h) \ {b} /\ After(r, c) = After(h, c)
      BY <1>1, <1>7, <2>4
    <3>2. After(h, c) <= b \/ After(h, b) <= c
      BY <2>4, <3>1, Apart
    <3> QED BY <1>4, <1>5, <1>17, <2>0, <2>4, <3>1, <3>2
  <2>5. CASE c # b /\ c # rest /\ d # rest
    BY <1>1, <1>7, <1>17, <2>5 DEF Chain
  <2> QED BY <2>1, <2>2, <2>3, <2>4, <2>5
<1>18. ASSUME NEW c \in Blocks(r), c # r.head PROVE \E p \in Blocks(r) : After(r, p) = c
  <2>1. CASE c = rest
    BY <1>1, <1>8, <2>1
  <2>2. CASE c # rest
    <3>1. PICK p \in Blocks(h) : After(h, p) = c
      BY <1>1, <1>18, <2>2 DEF Chain
    <3> QED BY <1>1, <1>7, <1>9, <3>1
  <2> QED BY <2>1, <2>2
<1>19. Blocks(r) \subseteq Arena
  BY <1>1, <1>5 DEF Chain
<1>20. \A c \in Blocks(r) : Placed(r, c)
  BY <1>1, <1>14, <1>15, <1>16
<1>21. ASSUME NEW c \in Blocks(r) PROVE r.head <= c
  <2>1. h.head \in Blocks(h) /\ h.head <= b
    BY <1>2 DEF Chain, Ends
  <2>2. h.head \in Nat
    BY <2>1, BlockFacts
  <2>3. CASE c = rest
    BY <1>1, <1>4, <1>5, <2>1, <2>2, <2>3
  <2>4. CASE c # rest
    BY <1>1, <2>4 DEF Chain
  <2> QED BY <2>3, <2>4
<1>22. Chain(r)
  BY <1>1, <1>10, <1>13, <1>17, <1>18, <1>19, <1>20, <1>21 DEF Chain
<1> QED BY <1>5, <1>6, <1>7, <1>8, <1>9, <1>22

LEMMA SplitFacts ==
    ASSUME NEW h, Chain(h), NEW b \in Blocks(h), NEW size \in Nat, Splits(h, b, size),
           size >= Align, size % Align = 0,
           NEW rest, rest = b + Header + size,
           NEW r, r = Split(h, b, size)
    PROVE  /\ Chain(r) /\ Kept(h, r, b) /\ b \in Blocks(r) /\ rest \in Blocks(r)
           /\ b \in Used(r) <=> b \in Used(h)
           /\ r.block[b].size = size /\ r.block[b].requested = h.block[b].requested
           /\ rest # b /\ r.block[rest].free
           /\ \A c \in Clashes(r) : c \in Clashes(h) \/ c = b \/ c = rest
           /\ Mergeable(r, rest) <=> Mergeable(h, b)
<1>1. /\ Blocks(r) = Blocks(h) \cup {rest} /\ rest # b
      /\ r.block[b] = [size |-> size, next |-> rest, free |-> h.block[b].free,
                       requested |-> h.block[b].requested]
      /\ r.block[rest].free
      /\ r.tail = IF h.tail = b THEN rest ELSE h.tail
  <2>1. /\ IsHeap(r) /\ Blocks(r) = Blocks(h) \cup {rest} /\ rest # b
        /\ r.block[b] = [size |-> size, next |-> rest, free |-> h.block[b].free,
                         requested |-> h.block[b].requested]
        /\ r.block[rest] = [size |-> h.block[b].size - size - Header,
                            next |-> h.block[b].next, free |-> TRUE, requested |-> 0]
        /\ \A c \in Blocks(h) : c # b /\ c # rest => r.block[c] = h.block[c]
        /\ r.head = h.head /\ r.end = h.end
        /\ r.tail = IF h.tail = b THEN rest ELSE h.tail
    BY SplitShape
  <2> QED BY <2>1
<1>2. /\ Chain(r) /\ rest \notin Blocks(h)
      /\ After(r, b) = rest /\ After(r, rest) = After(h, b)
      /\ \A c \in Blocks(h) \ {b} : r.block[c] = h.block[c] /\ After(r, c) = After(h, c)
  BY SplitChain
<1>3. Used(r) = IF h.block[b].free THEN Used(h) ELSE Used(h) \cup {b}
  BY <1>1, <1>2 DEF Used
<1>4. Kept(h, r, b)
  BY <1>2, <1>3 DEF Kept, Used
<1>5. \A c \in Blocks(h) : h.block[c].free \in BOOLEAN
  BY BlockFacts
<1>6. ASSUME NEW c \in Blocks(h) \ {b} PROVE Mergeable(r, c) <=> Mergeable(h, c)
  <2>1. c # r.tail <=> c # h.tail
    BY <1>1, <1>2, <1>6
  <2>2. CASE c # h.tail
    <3>1. After(h, c) \in Blocks(h)
      BY <2>2, Neighbour
    <3>2. r.block[After(h, c)].free = h.block[After(h, c)].free
      BY <1>1, <1>2, <3>1
    <3> QED BY <1>1, <1>2, <2>1, <3>2, Neighbour
  <2>3. CASE c = h.tail
    BY <1>1, <1>2, <2>1, <2>3, Neighbour
  <2> QED BY <2>2, <2>3
<1>7. ASSUME NEW c \in Clashes(r), c # b, c # rest PROVE c \in Clashes(h)
  BY <1>1, <1>2, <1>6, <1>7 DEF Clashes
<1>8. Mergeable(r, rest) <=> Mergeable(h, b)
  <2>1. CASE b = h.tail
    BY <1>1, <1>2, <2>1, Neighbour
  <2>2. CASE b # h.tail
    <3>1. After(h, b) \in Blocks(h) \ {b}
      BY <2>2, Neighbour, BlockFacts, Constants
    <3>2. rest # r.tail
      BY <1>1, <1>2, <2>2 DEF Chain, Ends
    <3> QED BY <1>1, <1>2, <2>2, <3>1, <3>2, Neighbour
  <2> QED BY <2>1, <2>2
<1> QED BY <1>1, <1>2, <1>3, <1>4, <1>7, <1>8 DEF Used

-----------------------------------------------------------------------------
(* merge_with_next: the block takes over its free neighbour.               *)
LEMMA MergeShape ==
    ASSUME NEW h, Chain(h), NEW b \in Blocks(h), Mergeable(h, b),
           NEW n, n = After(h, b),
           NEW r, r = MergeNext(h, b)
    PROVE  /\ n \in Blocks(h) /\ n # b /\ b # h.tail /\ h.block[n].free
           /\ IsHeap(r) /\ Blocks(r) = Blocks(h) \ {n}
           /\ r.block[b] = [size |-> h.block[b].size + Header + h.block[n].size,
                            next |-> h.block[n].next, free |-> h.block[b].free,
                            requested |-> h.block[b].requested]
           /\ \A c \in Blocks(r) \ {b} : r.block[c] = h.block[c]
           /\ r.head = h.head /\ r.end = h.end
           /\ r.tail = IF h.tail = n THEN b ELSE h.tail
<1>1. b # h.tail /\ n \in Blocks(h) /\ h.block[b].next = n /\ h.block[n].free
  BY Neighbour
<1>2. n # b
  BY BlockFacts, Constants
<1>3. PICK big : big = [h.block[b] EXCEPT !.size = @ + Header + h.block[n].size,
                                          !.next = h.block[n].next]
  OBVIOUS
<1>4. big = [size |-> h.block[b].size + Header + h.block[n].size,
             next |-> h.block[n].next, free |-> h.block[b].free,
             requested |-> h.block[b].requested]
  <2>1. h.block[b] \in Block
    BY DEF Chain
  <2> QED BY <1>3, <2>1 DEF Block
<1>5. PICK fewer : fewer = Restrict(h.block, DOMAIN h.block \ {n})
  OBVIOUS
<1>6. /\ DOMAIN fewer = Blocks(h) \ {n}
      /\ \A c \in Blocks(h) \ {n} : fewer[c] = h.block[c]
      /\ fewer = [c \in DOMAIN fewer |-> fewer[c]]
  BY <1>5 DEF Restrict, Blocks
<1>7. PICK f : f = [fewer EXCEPT ![b] = big]
  OBVIOUS
<1>8. /\ DOMAIN f = Blocks(h) \ {n} /\ f[b] = big
      /\ \A c \in Blocks(h) \ {n} : c # b => f[c] = h.block[c]
      /\ f = [c \in DOMAIN f |-> f[c]]
  BY <1>2, <1>6, <1>7
<1>9. r = [block |-> f, head |-> h.head, tail |-> IF h.tail = n THEN b ELSE h.tail,
           end |-> h.end]
  BY <1>1, <1>3, <1>5, <1>7 DEF MergeNext
<1> QED BY <1>1, <1>2, <1>4, <1>8, <1>9 DEF IsHeap, Blocks

LEMMA MergeChain ==
    ASSUME NEW h, Chain(h), NEW b \in Blocks(h), Mergeable(h, b),
           NEW n, n = After(h, b),
           NEW r, r = MergeNext(h, b)
    PROVE  /\ Chain(r) /\ After(r, b) = After(h, n)
           /\ r.block[b].size = h.block[b].size + Header + h.block[n].size
           /\ \A c \in Blocks(r) \ {b} : After(r, c) = After(h, c) /\ After(h, c) # n
<1>1. /\ n \in Blocks(h) /\ n # b /\ b # h.tail /\ h.block[n].free
      /\ IsHeap(r) /\ Blocks(r) = Blocks(h) \ {n}
      /\ r.block[b] = [size |-> h.block[b].size + Header + h.block[n].size,
                       next |-> h.block[n].next, free |-> h.block[b].free,
                       requested |-> h.block[b].requested]
      /\ \A c \in Blocks(r) \ {b} : r.block[c] = h.block[c]
      /\ r.head = h.head /\ r.end = h.end
      /\ r.tail = IF h.tail = n THEN b ELSE h.tail
  BY MergeShape
<1>2. h.block[b] \in Block /\ h.block[n] \in Block /\ Placed(h, b) /\ Placed(h, n) /\ Ends(h)
  BY <1>1 DEF Chain
<1>3. PICK s \in Nat, u \in Nat : s = h.block[b].size /\ u = h.block[n].size
  BY <1>2, Constants DEF Block
<1>4. /\ b \in Nat /\ n \in Nat /\ n = b + Header + s /\ n > b
      /\ After(h, n) = n + Header + u /\ After(h, n) \in Nat /\ After(h, n) > n
      /\ After(h, n) <= h.end /\ h.end \in Nat /\ h.end <= Limit
  BY <1>1, <1>3, BlockFacts, Constants
<1>5. After(r, b) = After(h, n)
  BY <1>1, <1>3, <1>4, Constants DEF After
<1>6. ASSUME NEW c \in Blocks(r) \ {b} PROVE After(r, c) = After(h, c) /\ After(h, c) # n
  <2>1. c \in Blocks(h) /\ After(r, c) = After(h, c)
    BY <1>1 DEF After
  <2> QED BY <2>1, OneBefore
<1>7. Ends(r)
  <2>1. h.head # n
    <3>1. h.head <= b
      BY DEF Chain
    <3> QED BY <1>4, <3>1
  <2> QED BY <1>1, <1>2, <2>1 DEF Ends
<1>8. r.block[b] \in Block
  <2>1. s + Header + u \in 0 .. WordMax
    BY <1>3, <1>4, Constants
  <2> QED BY <1>1, <1>2, <1>3, <2>1 DEF Block
<1>9. \A c \in Blocks(r) : r.block[c] \in Block
  BY <1>1, <1>8 DEF Chain
<1>10. Placed(r, b)
  <2>1. s + Header + u >= Align /\ (s + Header + u) % Align = 0
    <3>1. s % Align = 0 /\ u % Align = 0 /\ Header % Align = 0 /\ s >= Align
      BY <1>2, <1>3, Constants DEF Placed
    <3>2. PICK d \in Nat : d = s + Header /\ d % Align = 0
      BY <1>3, <3>1, SumAligned, Constants
    <3>3. (d + u) % Align = 0
      BY <3>1, <3>2, SumAligned, Constants
    <3> QED BY <1>3, <3>1, <3>2, <3>3, Constants
  <2>2. r.block[b].size >= Align /\ r.block[b].size % Align = 0
    BY <1>1, <1>3, <2>1
  <2>3. CASE h.tail = n
    BY <1>1, <1>2, <1>4, <1>5, <2>2, <2>3 DEF Placed
  <2>4. CASE h.tail # n
    BY <1>1, <1>2, <1>4, <1>5, <2>2, <2>4 DEF Placed
  <2> QED BY <2>3, <2>4
<1>11. ASSUME NEW c \in Blocks(r) \ {b} PROVE Placed(r, c)
  <2>1. Placed(h, c) /\ c \in Blocks(h) /\ c # n
    BY <1>1 DEF Chain
  <2>2. c = r.tail <=> c = h.tail
    BY <1>1, <1>11, <2>1
  <2>3. c # h.tail => After(h, c) \in Blocks(r)
    BY <1>1, <1>6, <2>1 DEF Placed
  <2> QED BY <1>1, <1>6, <2>1, <2>2, <2>3 DEF Placed
<1>12. ASSUME NEW c \in Blocks(r), NEW d \in Blocks(r), c < d PROVE After(r, c) <= d
  <2>1. CASE c = b
    <3>1. d \in Blocks(h) /\ d # n /\ d \in Nat
      BY <1>1, BlockFacts
    <3>2. n <= d
      BY <1>12, <2>1, <3>1 DEF Chain
    <3>3. n < d
      BY <1>4, <3>1, <3>2
    <3>4. After(h, n) <= d
      BY <1>1, <3>1, <3>3 DEF Chain
    <3> QED BY <1>5, <2>1, <3>4
  <2>2. CASE c # b
    BY <1>1, <1>6, <1>12, <2>2 DEF Chain
  <2> QED BY <2>1, <2>2
<1>13. ASSUME NEW c \in Blocks(r), c # r.head PROVE \E p \in Blocks(r) : After(r, p) = c
  <2>1. PICK p \in Blocks(h) : After(h, p) = c
    BY <1>1, <1>13 DEF Chain
  <2>2. CASE p = n
    BY <1>1, <1>5, <2>1, <2>2
  <2>3. CASE p # n
    <3>1. p # b
      BY <1>1, <2>1, <2>3
    <3> QED BY <1>1, <1>6, <2>1, <2>3, <3>1
  <2> QED BY <2>2, <2>3
<1>14. \A c \in Blocks(r) : r.head <= c
  BY <1>1 DEF Chain
<1>15. Blocks(r) \subseteq Arena /\ \A c \in Blocks(r) : Placed(r, c)
  BY <1>1, <1>10, <1>11 DEF Chain
<1>16. Chain(r)
  BY <1>1, <1>7, <1>9, <1>12, <1>13, <1>14, <1>15 DEF Chain
<1> QED BY <1>1, <1>5, <1>6, <1>16

(* Of two free neighbours one is left, which is followed by what followed  *)
(* the second.                                                             *)
LEMMA MergeFacts ==
    ASSUME NEW h, Chain(h), NEW b \in Blocks(h), Mergeable(h, b),
           After(h, b) \notin Clashes(h),
           NEW r, r = MergeNext(h, b)
    PROVE  /\ Chain(r) /\ Kept(h, r, b) /\ b \in Blocks(r)
           /\ b \in Used(r) <=> b \in Used(h)
           /\ r.block[b].size = h.block[b].size + Header + h.block[After(h, b)].size
           /\ r.block[b].requested = h.block[b].requested
           /\ Clashes(r) \subseteq Clashes(h) \ {b}
           /\ After(h, b) = h.tail => b = r.tail
           /\ \A c \in Blocks(h) \ {b, After(h, b)} :
                c \in Blocks(r) /\ r.block[c] = h.block[c] /\ After(r, c) = After(h, c)
<1>0. PICK n : n = After(h, b)
  OBVIOUS
<1>1. /\ n \in Blocks(h) /\ n # b /\ b # h.tail /\ h.block[n].free
      /\ IsHeap(r) /\ Blocks(r) = Blocks(h) \ {n}
      /\ r.block[b] = [size |-> h.block[b].size + Header + h.block[n].size,
                       next |-> h.block[n].next, free |-> h.block[b].free,
                       requested |-> h.block[b].requested]
      /\ \A c \in Blocks(r) \ {b} : r.block[c] = h.block[c]
      /\ r.head = h.head /\ r.end = h.end
      /\ r.tail = IF h.tail = n THEN b ELSE h.tail
  BY <1>0, MergeShape
<1>2. /\ Chain(r) /\ After(r, b) = After(h, n)
      /\ r.block[b].size = h.block[b].size + Header + h.block[n].size
      /\ \A c \in Blocks(r) \ {b} : After(r, c) = After(h, c) /\ After(h, c) # n
  BY <1>0, MergeChain
<1>3. \A c \in Blocks(h) : h.block[c].free \in BOOLEAN
  BY BlockFacts
<1>4. Used(r) = Used(h)
  BY <1>1, <1>2, <1>3 DEF Used
<1>5. Kept(h, r, b)
  BY <1>1, <1>2, <1>4 DEF Kept, Used
<1>6. ~Mergeable(h, n)
  BY <1>0, <1>1 DEF Clashes
<1>7. b \notin Clashes(r)
  <2>1. CASE n = h.tail
    BY <1>1, <1>2, <2>1, Neighbour DEF Clashes
  <2>2. CASE n # h.tail
    <3>1. After(h, n) \in Blocks(h) /\ ~h.block[After(h, n)].free
      BY <1>1, <1>6, <2>2, Neighbour
    <3>2. After(h, n) # n /\ After(h, n) # b
      <4>1. After(h, n) > n /\ n > b /\ b \in Nat /\ n \in Nat /\ After(h, n) \in Nat
        BY <1>0, <1>1, BlockFacts, Constants
      <4> QED BY <4>1
    <3>3. ~r.block[After(r, b)].free
      BY <1>1, <1>2, <3>1, <3>2
    <3> QED BY <1>1, <1>2, <3>3, Neighbour DEF Clashes
  <2> QED BY <2>1, <2>2
<1>8. ASSUME NEW c \in Clashes(r) PROVE c \in Clashes(h) \ {b}
  <2>1. c \in Blocks(r) \ {b} /\ r.block[c].free /\ Mergeable(r, c)
    BY <1>7, <1>8 DEF Clashes
  <2>2. c \in Blocks(h) /\ h.block[c].free
    BY <1>1, <2>1
  <2>3. c # r.tail /\ After(r, c) \in Blocks(r) /\ r.block[After(r, c)].free
    BY <1>2, <2>1, Neighbour
  <2>4. c # h.tail /\ h.block[After(h, c)].free
    BY <1>1, <1>2, <2>1, <2>3
  <2> QED BY <2>1, <2>2, <2>4, Neighbour DEF Clashes
<1> QED BY <1>0, <1>1, <1>2, <1>4, <1>5, <1>8 DEF Used

(* realloc's cut: the rest is merged with a free block behind it.          *)
LEMMA SplitAndMergeFacts ==
    ASSUME NEW h, Chain(h), Clashes(h) = {}, NEW b \in Used(h), NEW size \in Nat,
           size >= Align, size % Align = 0, size <= h.block[b].size,
           NEW r, r = SplitAndMerge(h, b, size)
    PROVE  /\ Chain(r) /\ Clashes(r) = {} /\ Kept(h, r, b) /\ b \in Used(r)
           /\ r.block[b].size >= size /\ r.block[b].requested = h.block[b].requested
<1>0. b \in Blocks(h)
  BY DEF Used
<1>1. CASE ~Splits(h, b, size)
  <2>1. r = h
    BY <1>1 DEF SplitAndMerge
  <2> QED BY <2>1, KeptSame
<1>2. CASE Splits(h, b, size)
  <2>1. PICK rest : rest = b + Header + size
    OBVIOUS
  <2>2. PICK s : s = Split(h, b, size)
    OBVIOUS
  <2>3. r = MergeNext(s, rest)
    BY <1>2, <2>1, <2>2 DEF SplitAndMerge
  <2>4. /\ Chain(s) /\ Kept(h, s, b) /\ b \in Blocks(s) /\ rest \in Blocks(s)
        /\ b \in Used(s) <=> b \in Used(h)
        /\ s.block[b].size = size /\ s.block[b].requested = h.block[b].requested
        /\ rest # b /\ s.block[rest].free
        /\ \A c \in Clashes(s) : c \in Clashes(h) \/ c = b \/ c = rest
    BY <1>0, <1>2, <2>1, <2>2, SplitFacts
  <2>5. Clashes(s) \subseteq {rest}
    BY <2>4 DEF Clashes, Used
  <2>6. CASE ~Mergeable(s, rest)
    <3>1. r = s
      BY <2>3, <2>6 DEF MergeNext
    <3>2. rest \notin Clashes(s)
      BY <2>6 DEF Clashes
    <3> QED BY <2>4, <2>5, <3>1, <3>2
  <2>7. CASE Mergeable(s, rest)
    <3>1. After(s, rest) # rest /\ After(s, rest) \in Nat
      BY <2>4, BlockFacts, Constants
    <3>2. /\ Chain(r) /\ Kept(s, r, rest)
          /\ Clashes(r) \subseteq Clashes(s) \ {rest}
          /\ \A c \in Blocks(s) \ {rest, After(s, rest)} :
               c \in Blocks(r) /\ r.block[c] = s.block[c] /\ After(r, c) = After(s, c)
          /\ rest \in Used(r) <=> rest \in Used(s)
      BY <2>3, <2>4, <2>5, <2>7, <3>1, MergeFacts
    <3>3. b # After(s, rest)
      <4>1. s.block[After(s, rest)].free
        BY <2>4, <2>7, Neighbour
      <4> QED BY <2>4, <4>1 DEF Used
    <3>4. r.block[b] = s.block[b] /\ b \in Blocks(r)
      BY <2>4, <3>2, <3>3
    <3>5. Used(r) = Used(s)
      BY <3>2 DEF Kept
    <3>6. Kept(s, r, b)
      BY <2>4, <3>2, <3>5 DEF Kept, Used
    <3>7. Kept(h, r, b)
      BY <2>4, <3>6, KeptThrough
    <3> QED BY <2>4, <2>5, <3>2, <3>4, <3>5, <3>7
  <2> QED BY <2>6, <2>7
<1> QED BY <1>1, <1>2

(* free, by the block that is freed.                                       *)
FreedBlock(h, b) ==
    LET marked == MergeNext(MarkedFree(h, b), b)
    IN  IF \E p \in Previous(marked, b) : marked.block[p].free /\ After(marked, p) = b
        THEN MergeNext(marked, CHOOSE p \in Previous(marked, b) : TRUE)
        ELSE marked

LEMMA FreedByBlock == ASSUME NEW h, NEW at PROVE Freed(h, at) = FreedBlock(h, at - Header)
BY DEF Freed, FreedBlock, MarkedFree

(* free: the block is free, or part of a free block before it.             *)
LEMMA FreedFacts ==
    ASSUME NEW h, Chain(h), Clashes(h) = {}, NEW b \in Used(h),
           NEW at, at - Header = b, NEW r, r = Freed(h, at)
    PROVE  Chain(r) /\ Clashes(r) = {} /\ Used(r) = Used(h) \ {b} /\ Kept(h, r, b)
<1>0. b \in Blocks(h) /\ b \in Nat /\ b >= 1
  BY BlockFacts DEF Used
<1>1. PICK m : m = MarkedFree(h, b)
  OBVIOUS
<1>2. PICK marked : marked = MergeNext(m, b)
  OBVIOUS
<1>4. r = IF \E p \in Previous(marked, b) : marked.block[p].free /\ After(marked, p) = b
          THEN MergeNext(marked, CHOOSE p \in Previous(marked, b) : TRUE)
          ELSE marked
  <2>1. r = FreedBlock(h, b)
    BY FreedByBlock
  <2> QED BY <1>1, <1>2, <2>1 DEF FreedBlock
<1>5. /\ Chain(m) /\ Blocks(m) = Blocks(h) /\ m.block[b].free /\ Kept(h, m, b)
      /\ \A c \in Blocks(h) : After(m, c) = After(h, c)
      /\ \A c \in Clashes(m) : c \in Clashes(h) \/ c = b \/ After(h, c) = b
  BY <1>0, <1>1, MarkFreeFacts
<1>6. /\ Chain(marked) /\ b \in Blocks(marked) /\ Used(marked) = Used(h) \ {b}
      /\ Kept(h, marked, b)
      /\ \A c \in Clashes(marked) : After(marked, c) = b
  <2>1. CASE ~Mergeable(m, b)
    <3>1. marked = m
      BY <1>2, <2>1 DEF MergeNext
    <3>2. b \notin Clashes(m)
      BY <2>1 DEF Clashes
    <3>3. Used(m) = Used(h) \ {b}
      BY <1>5 DEF Kept, Used
    <3>4. Clashes(m) \subseteq Blocks(h)
      BY <1>5 DEF Clashes
    <3> QED BY <1>0, <1>5, <3>1, <3>2, <3>3, <3>4
  <2>2. CASE Mergeable(m, b)
    <3>1. After(m, b) \in Blocks(h) /\ After(m, b) \in Nat /\ After(m, b) > b
      BY <1>0, <1>5, <2>2, Neighbour, BlockFacts, Constants
    <3>2. After(h, After(m, b)) # b
      <4>1. After(h, After(m, b)) > After(m, b) /\ After(h, After(m, b)) \in Nat
        BY <3>1, BlockFacts, Constants
      <4> QED BY <1>0, <3>1, <4>1
    <3>3. After(m, b) \notin Clashes(m)
      BY <1>0, <1>5, <3>1, <3>2
    <3>4. /\ Chain(marked) /\ Kept(m, marked, b) /\ b \in Blocks(marked)
          /\ b \in Used(marked) <=> b \in Used(m)
          /\ Clashes(marked) \subseteq Clashes(m) \ {b}
          /\ \A c \in Blocks(m) \ {b, After(m, b)} :
               c \in Blocks(marked) /\ marked.block[c] = m.block[c]
                 /\ After(marked, c) = After(m, c)
      BY <1>0, <1>2, <1>5, <2>2, <3>3, MergeFacts
    <3>5. ASSUME NEW c \in Clashes(marked) PROVE After(marked, c) = b
      <4>1. c \in Clashes(m) /\ c \in Blocks(m) /\ c # b /\ c # After(m, b)
        BY <3>3, <3>4 DEF Clashes
      <4> QED BY <1>5, <3>4, <4>1
    <3>6. b \notin Used(m) /\ Used(m) = Used(h) \ {b}
      BY <1>5 DEF Kept, Used
    <3>7. Used(marked) = Used(h) \ {b}
      BY <3>4, <3>6 DEF Kept
    <3>8. Kept(h, marked, b)
      BY <1>5, <3>4, KeptThrough
    <3> QED BY <3>4, <3>5, <3>7, <3>8
  <2> QED BY <2>1, <2>2
<1>7. ASSUME NEW p PROVE p \in Previous(marked, b) <=>
                           p \in Blocks(marked) /\ After(marked, p) = b
  <2>1. p \in Previous(marked, b) <=> p \in Blocks(marked) /\ marked.block[p].next = b
    BY DEF Previous, Blocks
  <2>2. ASSUME p \in Blocks(marked) PROVE marked.block[p].next = b <=> After(marked, p) = b
    <3>1. CASE p = marked.tail
      <4>0. marked.block[p].next = Null
        BY <1>6, <2>2, <3>1, Neighbour
      <4>1. marked.block[p].next # b
        BY <1>0, <4>0 DEF Null
      <4>2. After(marked, p) # b
        <5>1. After(marked, b) <= marked.end /\ After(marked, b) > b /\ After(marked, b) \in Nat
              /\ marked.end \in Nat
          BY <1>0, <1>6, BlockFacts, Constants
        <5>2. After(marked, p) = marked.end
          BY <1>6, <2>2, <3>1, Neighbour
        <5> QED BY <1>0, <5>1, <5>2
      <4> QED BY <4>1, <4>2
    <3>2. CASE p # marked.tail
      BY <1>6, <2>2, <3>2, Neighbour
    <3> QED BY <3>1, <3>2
  <2> QED BY <2>1, <2>2
<1>8. CASE \E p \in Previous(marked, b) : marked.block[p].free /\ After(marked, p) = b
  <2>1. PICK p : p = CHOOSE q \in Previous(marked, b) : TRUE
    OBVIOUS
  <2>2. p \in Previous(marked, b)
    BY <1>8, <2>1
  <2>3. p \in Blocks(marked) /\ After(marked, p) = b
    BY <1>7, <2>2
  <2>4. marked.block[p].free
    BY <1>6, <1>7, <1>8, <2>3, OneBefore
  <2>5. p # marked.tail
    <3>1. After(marked, b) <= marked.end /\ After(marked, b) > b /\ After(marked, b) \in Nat
          /\ marked.end \in Nat
      BY <1>0, <1>6, BlockFacts, Constants
    <3>2. p = marked.tail => After(marked, p) = marked.end
      BY <1>6, <2>3, Neighbour
    <3> QED BY <1>0, <2>3, <3>1, <3>2
  <2>6. Mergeable(marked, p)
    <3>1. marked.block[b].free
      BY <1>6 DEF Used
    <3> QED BY <1>6, <2>3, <2>5, <3>1, Neighbour
  <2>7. r = MergeNext(marked, p)
    BY <1>4, <1>8, <2>1
  <2>8. After(marked, p) \notin Clashes(marked)
    <3>1. After(marked, b) # b
      BY <1>0, <1>6, BlockFacts, Constants
    <3> QED BY <1>6, <2>3, <3>1
  <2>9. /\ Chain(r) /\ Kept(marked, r, p)
        /\ p \in Used(r) <=> p \in Used(marked)
        /\ Clashes(r) \subseteq Clashes(marked) \ {p}
    BY <1>6, <2>3, <2>6, <2>7, <2>8, MergeFacts
  <2>10. Clashes(marked) \subseteq {p}
    BY <1>6, <2>3, OneBefore DEF Clashes
  <2>11. p \notin Used(marked) /\ Used(r) = Used(marked)
    BY <2>4, <2>9 DEF Kept, Used
  <2>12. Kept(marked, r, b)
    BY <2>9, <2>11 DEF Kept
  <2>13. Kept(h, r, b)
    BY <1>6, <2>12, KeptThrough
  <2> QED BY <1>6, <2>9, <2>10, <2>11, <2>13
<1>9. CASE ~\E p \in Previous(marked, b) : marked.block[p].free /\ After(marked, p) = b
  <2>1. r = marked
    BY <1>4, <1>9
  <2>2. Clashes(marked) = {}
    <3> SUFFICES ASSUME NEW c \in Clashes(marked) PROVE FALSE
      OBVIOUS
    <3>1. c \in Blocks(marked) /\ marked.block[c].free /\ After(marked, c) = b
      BY <1>6 DEF Clashes
    <3> QED BY <1>7, <1>9, <3>1
  <2> QED BY <1>6, <2>1, <2>2
<1> QED BY <1>8, <1>9

-----------------------------------------------------------------------------
(* initialize_heap moves the end of the empty heap, and nothing else.      *)
LEMMA InitializedFacts ==
    ASSUME NEW h, Chain(h), NEW granted, NEW g, g = Initialized(h, granted)
    PROVE  /\ Chain(g) /\ g.block = h.block /\ g.head = h.head /\ g.tail = h.tail
           /\ Blocks(g) = Blocks(h) /\ Clashes(g) = Clashes(h) /\ Used(g) = Used(h)
           /\ g.end # 0 /\ Blocks(g) = {} => g.end = AlignSize(Break)
<1>0. IsHeap(h) /\ Ends(h)
  BY DEF Chain
<1>1. CASE g = h
  BY <1>0, <1>1 DEF Ends
<1>2. CASE g # h
  <2>1. PICK start : start = AlignSize(Break)
    OBVIOUS
  <2>2. h.end = 0 /\ start # 0 /\ (start = Break \/ start <= Limit) /\ g = [h EXCEPT !.end = start]
    BY <1>2, <2>1 DEF Initialized, Brk
  <2>3. g.block = h.block /\ g.head = h.head /\ g.tail = h.tail /\ g.end = start /\ IsHeap(g)
    BY <1>0, <2>2 DEF IsHeap
  <2>4. start \in 0 .. Limit
    BY <2>1, <2>2, Aligned, Constants
  <2>5. Blocks(h) = {}
    <3> SUFFICES ASSUME NEW b \in Blocks(h) PROVE FALSE
      OBVIOUS
    <3>1. After(h, b) <= 0 /\ After(h, b) > b /\ b \in Nat /\ After(h, b) \in Nat
      BY <2>2, BlockFacts, Constants
    <3> QED BY <3>1
  <2>6. Blocks(g) = {}
    BY <2>3, <2>5 DEF Blocks
  <2>7. Ends(g)
    BY <1>0, <2>1, <2>3, <2>4, <2>5, <2>6 DEF Ends
  <2>8. Chain(g)
    BY <2>3, <2>6, <2>7 DEF Chain
  <2> QED BY <2>1, <2>3, <2>5, <2>6, <2>8 DEF Clashes, Used
<1> QED BY <1>1, <1>2

(* grow_heap: what the block at the end of the arena looks like.           *)
Appended(g, size) ==
    LET block  == [size |-> size, next |-> Null, free |-> FALSE, requested |-> 0]
        linked == IF g.tail = Null THEN [g EXCEPT !.head = g.end]
                  ELSE With(g, g.tail, [g.block[g.tail] EXCEPT !.next = g.end])
    IN  [With(linked, g.end, block) EXCEPT !.tail = g.end, !.end = g.end + Header + size]

LEMMA GrowIs ==
    ASSUME NEW h, NEW size, NEW granted, NEW g, g = Initialized(h, granted)
    PROVE  \/ Grow(h, size, granted) = g
           \/ /\ Grow(h, size, granted) = Appended(g, size)
              /\ g.end # 0 /\ g.end + Header + size <= Limit
BY DEF Grow, Appended, Brk

LEMMA AppendShape ==
    ASSUME NEW g, Chain(g), NEW size \in Nat, g.end # 0,
           NEW r, r = Appended(g, size),
           NEW e, e = g.end
    PROVE  /\ IsHeap(r) /\ Blocks(r) = Blocks(g) \cup {e} /\ e \notin Blocks(g)
           /\ r.block[e] = [size |-> size, next |-> Null, free |-> FALSE, requested |-> 0]
           /\ r.tail = e /\ r.end = e + Header + size
           /\ r.head = IF Blocks(g) = {} THEN e ELSE g.head
           /\ \A c \in Blocks(g) \ {g.tail} : r.block[c] = g.block[c]
           /\ Blocks(g) # {} => r.block[g.tail] = [g.block[g.tail] EXCEPT !.next = e]
<1>1. IsHeap(g) /\ Ends(g)
  BY DEF Chain
<1>2. e \notin Blocks(g)
  <2> SUFFICES ASSUME e \in Blocks(g) PROVE FALSE
    OBVIOUS
  <2>1. After(g, e) > e /\ After(g, e) <= g.end /\ e \in Nat /\ After(g, e) \in Nat
    BY BlockFacts, Constants
  <2> QED BY <2>1
<1>3. PICK block : block = [size |-> size, next |-> Null, free |-> FALSE, requested |-> 0]
  OBVIOUS
<1>4. PICK linked : linked = IF g.tail = Null THEN [g EXCEPT !.head = e]
                             ELSE With(g, g.tail, [g.block[g.tail] EXCEPT !.next = e])
  OBVIOUS
<1>5. PICK both : both = With(linked, e, block)
  OBVIOUS
<1>6. r = [both EXCEPT !.tail = e, !.end = e + Header + size]
  BY <1>3, <1>4, <1>5 DEF Appended
<1>7. g.tail = Null <=> Blocks(g) = {}
  <2>1. Blocks(g) # {} => g.tail \in Blocks(g) /\ g.tail >= 1
    BY <1>1, BlockFacts DEF Ends
  <2> QED BY <1>1, <2>1 DEF Ends, Null
<1>8. /\ IsHeap(linked) /\ Blocks(linked) = Blocks(g)
      /\ linked.head = IF Blocks(g) = {} THEN e ELSE g.head
      /\ \A c \in Blocks(g) \ {g.tail} : linked.block[c] = g.block[c]
      /\ Blocks(g) # {} => linked.block[g.tail] = [g.block[g.tail] EXCEPT !.next = e]
  <2>1. CASE Blocks(g) = {}
    <3>1. linked = [g EXCEPT !.head = e]
      BY <1>4, <1>7, <2>1
    <3> QED BY <1>1, <2>1, <3>1 DEF IsHeap, Blocks
  <2>2. CASE Blocks(g) # {}
    <3>1. PICK x : x = [g.block[g.tail] EXCEPT !.next = e]
      OBVIOUS
    <3>2. linked = With(g, g.tail, x) /\ g.tail \in Blocks(g)
      BY <1>1, <1>4, <1>7, <2>2, <3>1 DEF Ends
    <3>3. /\ IsHeap(linked) /\ Blocks(linked) = Blocks(g) \cup {g.tail}
          /\ linked.block[g.tail] = x /\ linked.head = g.head
          /\ \A c \in Blocks(g) : c # g.tail => linked.block[c] = g.block[c]
      BY <1>1, <3>2, WithFacts
    <3> QED BY <2>2, <3>1, <3>2, <3>3
  <2> QED BY <2>1, <2>2
<1>9. /\ IsHeap(both) /\ Blocks(both) = Blocks(linked) \cup {e}
      /\ both.block[e] = block
      /\ \A c \in Blocks(linked) : c # e => both.block[c] = linked.block[c]
      /\ both.head = linked.head
  BY <1>5, <1>8, WithFacts
<1>10. /\ IsHeap(r) /\ r.block = both.block /\ r.head = both.head
       /\ r.tail = e /\ r.end = e + Header + size
  <2>1. PICK f, last : /\ both = [block |-> f, head |-> both.head,
                                 tail |-> both.tail, end |-> both.end]
                       /\ f = [c \in DOMAIN f |-> f[c]] /\ f = both.block
                       /\ last = e + Header + size
    BY <1>9 DEF IsHeap
  <2>2. r = [block |-> f, head |-> both.head, tail |-> e, end |-> last]
    BY <1>6, <2>1
  <2> QED BY <2>1, <2>2 DEF IsHeap
<1>11. Blocks(r) = Blocks(g) \cup {e}
  BY <1>8, <1>9, <1>10 DEF Blocks
<1>12. \A c \in Blocks(g) : r.block[c] = linked.block[c]
  BY <1>2, <1>8, <1>9, <1>10
<1>13. Blocks(g) # {} => g.tail \in Blocks(g)
  BY <1>1 DEF Ends
<1> QED BY <1>2, <1>3, <1>8, <1>9, <1>10, <1>11, <1>12, <1>13

LEMMA AppendFacts ==
    ASSUME NEW g, Chain(g), NEW size \in Nat, size >= Align, size % Align = 0,
           size <= WordMax, g.end # 0, Blocks(g) = {} => g.end = AlignSize(Break),
           g.end + Header + size <= Limit,
           NEW r, r = Appended(g, size),
           NEW e, e = g.end
    PROVE  /\ Chain(r) /\ e \notin Blocks(g) /\ e \in Used(r) /\ r.tail = e
           /\ Blocks(r) = Blocks(g) \cup {e} /\ r.block[e].size = size
           /\ Kept(g, r, e) /\ Clashes(r) \subseteq Clashes(g)
<1>1. /\ IsHeap(r) /\ Blocks(r) = Blocks(g) \cup {e} /\ e \notin Blocks(g)
      /\ r.block[e] = [size |-> size, next |-> Null, free |-> FALSE, requested |-> 0]
      /\ r.tail = e /\ r.end = e + Header + size
      /\ r.head = IF Blocks(g) = {} THEN e ELSE g.head
      /\ \A c \in Blocks(g) \ {g.tail} : r.block[c] = g.block[c]
      /\ Blocks(g) # {} => r.block[g.tail] = [g.block[g.tail] EXCEPT !.next = e]
  BY AppendShape
<1>2. Ends(g) /\ e \in Nat /\ e >= 1 /\ e <= Limit /\ e \in Arena /\ e + Header + size \in Nat
  <2>1. Ends(g) /\ e \in Nat /\ e # 0
    BY Constants DEF Chain, Ends
  <2> QED BY <2>1, Constants DEF Arena
<1>3. \A c \in Blocks(g) : /\ r.block[c].size = g.block[c].size
                           /\ r.block[c].free = g.block[c].free
                           /\ r.block[c].requested = g.block[c].requested
                           /\ r.block[c] \in Block
  <2> SUFFICES ASSUME NEW c \in Blocks(g)
               PROVE  /\ r.block[c].size = g.block[c].size
                      /\ r.block[c].free = g.block[c].free
                      /\ r.block[c].requested = g.block[c].requested
                      /\ r.block[c] \in Block
    OBVIOUS
  <2>1. g.block[c] \in Block
    BY DEF Chain
  <2>2. CASE c # g.tail
    BY <1>1, <2>1, <2>2
  <2>3. CASE c = g.tail
    <3>1. r.block[c] = [g.block[c] EXCEPT !.next = e] /\ e \in 0 .. Limit
      BY <1>1, <1>2, <2>3
    <3> QED BY <2>1, <3>1 DEF Block
  <2> QED BY <2>2, <2>3
<1>4. \A c \in Blocks(g) : After(r, c) = After(g, c) /\ c # e
  BY <1>1, <1>3 DEF After
<1>5. After(r, e) = e + Header + size
  BY <1>1 DEF After
<1>6. \A c \in Blocks(g) : /\ c \in Nat /\ After(g, c) \in Nat /\ After(g, c) <= e
                           /\ c < After(g, c)
  BY BlockFacts, Constants
<1>7. r.block[e] \in Block
  BY <1>1, Constants DEF Block, Null
<1>8. Placed(r, e)
  BY <1>1, <1>5, <1>2 DEF Placed
<1>9. ASSUME NEW c \in Blocks(g) PROVE Placed(r, c)
  <2>1. Placed(g, c)
    BY DEF Chain
  <2>2. After(r, c) <= r.end
    BY <1>1, <1>2, <1>4, <1>6, Constants
  <2>3. r.block[c].next = After(r, c) /\ After(r, c) \in Blocks(r)
    <3>1. CASE c = g.tail
      <4>1. r.block[c] = [g.block[c] EXCEPT !.next = e] /\ g.block[c] \in Block
        BY <1>1, <3>1 DEF Chain
      <4>2. r.block[c].next = e
        BY <4>1 DEF Block
      <4> QED BY <1>1, <1>4, <2>1, <3>1, <4>2 DEF Placed
    <3>2. CASE c # g.tail
      BY <1>1, <1>4, <2>1, <3>2 DEF Placed
    <3> QED BY <3>1, <3>2
  <2> QED BY <1>1, <1>3, <1>4, <2>1, <2>2, <2>3 DEF Placed
<1>10. ASSUME NEW c \in Blocks(r), NEW d \in Blocks(r), c < d PROVE After(r, c) <= d
  <2>1. c # e
    <3> SUFFICES ASSUME c = e PROVE FALSE
      OBVIOUS
    <3>1. d \in Blocks(g)
      BY <1>1, <1>2, <1>10
    <3> QED BY <1>2, <1>6, <1>10, <3>1
  <2>2. c \in Blocks(g)
    BY <1>1, <2>1
  <2>3. CASE d = e
    BY <1>4, <1>6, <2>2, <2>3
  <2>4. CASE d # e
    BY <1>1, <1>4, <1>10, <2>2, <2>4 DEF Chain
  <2> QED BY <2>3, <2>4
<1>11. ASSUME NEW c \in Blocks(r), c # r.head PROVE \E p \in Blocks(r) : After(r, p) = c
  <2>1. Blocks(g) # {}
    BY <1>1, <1>11
  <2>2. CASE c = e
    <3>1. g.tail \in Blocks(g) /\ Placed(g, g.tail)
      BY <1>2, <2>1 DEF Chain, Ends
    <3> QED BY <1>1, <1>4, <2>2, <3>1 DEF Placed
  <2>3. CASE c # e
    <3>1. PICK p \in Blocks(g) : After(g, p) = c
      BY <1>1, <1>11, <2>1, <2>3 DEF Chain
    <3> QED BY <1>1, <1>4, <3>1
  <2> QED BY <2>2, <2>3
<1>12. ASSUME NEW c \in Blocks(r) PROVE r.head <= c
  <2>1. CASE Blocks(g) = {}
    BY <1>1, <1>2, <2>1
  <2>2. CASE Blocks(g) # {} /\ c = e
    <3>1. g.head \in Blocks(g)
      BY <1>2, <2>2 DEF Ends
    <3>2. g.head < After(g, g.head) /\ After(g, g.head) <= e
          /\ g.head \in Nat /\ After(g, g.head) \in Nat
      BY <1>6, <3>1
    <3> QED BY <1>1, <1>2, <2>2, <3>2
  <2>3. CASE c # e
    BY <1>1, <2>3 DEF Chain
  <2> QED BY <2>1, <2>2, <2>3
<1>13. Ends(r)
  BY <1>1, <1>2 DEF Ends
<1>14. Chain(r)
  <2>1. /\ Blocks(r) \subseteq Arena
        /\ \A c \in Blocks(r) : Placed(r, c)
        /\ \A c \in Blocks(r) : r.block[c] \in Block
    BY <1>1, <1>2, <1>3, <1>7, <1>8, <1>9 DEF Chain
  <2> QED BY <1>1, <1>10, <1>11, <1>12, <1>13, <2>1 DEF Chain
<1>15. Used(r) = Used(g) \cup {e}
  BY <1>1, <1>3 DEF Used
<1>16. Kept(g, r, e)
  BY <1>3, <1>15 DEF Kept, Used
<1>17. ASSUME NEW c \in Clashes(r) PROVE c \in Clashes(g)
  <2>1. c \in Blocks(g) /\ r.block[c].free /\ Mergeable(r, c)
    BY <1>1, <1>17 DEF Clashes
  <2>2. After(r, c) # e
    <3>1. r.block[After(r, c)].free
      BY <1>1, <1>14, <2>1, Neighbour
    <3> QED BY <1>1, <3>1
  <2>3. c # g.tail
    <3>1. c = g.tail => After(g, c) = e
      BY <2>1, Neighbour
    <3> QED BY <1>4, <2>1, <2>2, <3>1
  <2>4. After(g, c) \in Blocks(g) /\ g.block[After(g, c)].free
    <3>1. After(g, c) \in Blocks(g)
      BY <2>1, <2>3, Neighbour
    <3>2. r.block[After(r, c)].free
      BY <1>1, <1>14, <2>1, Neighbour
    <3> QED BY <1>3, <1>4, <2>1, <3>1, <3>2
  <2> QED BY <1>3, <2>1, <2>3, <2>4, Neighbour DEF Clashes
<1> QED BY <1>1, <1>14, <1>15, <1>16, <1>17

-----------------------------------------------------------------------------
(* A set of naturals has a least element: first fit finds it.              *)
LEMMA Least ==
    ASSUME NEW T \in SUBSET Nat, T # {}
    PROVE  \E i \in T : \A j \in T : i <= j
<1>1. IsWellFoundedOn(OpToRel(<, Nat), Nat)
  BY Zenon, NatLessThanWellFounded
<1>2. PICK R : R = OpToRel(<, Nat)
  BY Zenon
<1>3. \E x \in T : \A y \in T : ~(<<y, x>> \in R)
  BY Zenon, <1>1, <1>2, WFMin
<1>4. \A x, y \in Nat : y < x => <<y, x>> \in R
  BY Zenon, <1>2 DEF OpToRel
<1>5. \A x, y \in T : x \in Nat /\ y \in Nat /\ (~(y < x) => x <= y)
  OBVIOUS
<1> QED BY <1>3, <1>4, <1>5

LEMMA FirstFitFacts ==
    ASSUME NEW h, Chain(h), NEW size \in Nat, Fits(h, size) # {}
    PROVE  /\ FirstFit(h, size) \in Blocks(h) /\ h.block[FirstFit(h, size)].free
           /\ h.block[FirstFit(h, size)].size >= size
<1>1. \A b \in Fits(h, size) : b \in Nat
  BY BlockFacts DEF Fits, Blocks
<1>2. PICK T : T = Fits(h, size)
  OBVIOUS
<1>3. \E b \in T : \A c \in T : b <= c
  BY <1>1, <1>2, Least
<1>4. FirstFit(h, size) = CHOOSE b \in T : \A c \in T : b <= c
  BY <1>2 DEF FirstFit
<1>5. FirstFit(h, size) \in T
  BY <1>3, <1>4
<1> QED BY <1>2, <1>5 DEF Fits, Blocks

(* The block a successful malloc returns was not in use, is large enough   *)
(* and remembers the size that was asked for.                              *)
Given(h, r, b, size) ==
    /\ b \notin Used(h) /\ b \in Used(r) /\ b \in Nat /\ b >= 1
    /\ size <= r.block[b].size /\ r.block[b].requested = size

LEMMA MallocFits ==
    ASSUME NEW h, Chain(h), Clashes(h) = {}, NEW size \in 1 .. WordMax,
           NEW aligned, aligned = AlignSize(size), aligned # 0,
           NEW b \in Blocks(h), h.block[b].free, h.block[b].size >= aligned,
           NEW r, r = Request(Split(h, b, aligned), b, size)
    PROVE  Chain(r) /\ Clashes(r) = {} /\ Kept(h, r, b) /\ Given(h, r, b, size)
<1>0. /\ aligned \in Nat /\ aligned <= WordMax /\ aligned >= size /\ aligned >= Align
      /\ aligned % Align = 0
  BY Aligned, Constants
<1>1. PICK s : s = Split(h, b, aligned)
  OBVIOUS
<1>2. ~Mergeable(h, b)
  BY DEF Clashes
<1>3. /\ Chain(s) /\ Kept(h, s, b) /\ b \in Blocks(s) /\ s.block[b].size >= aligned
      /\ Clashes(s) \subseteq {b}
  <2>1. CASE Splits(h, b, aligned)
    <3>1. PICK rest : rest = b + Header + aligned
      OBVIOUS
    <3>2. /\ Chain(s) /\ Kept(h, s, b) /\ b \in Blocks(s) /\ s.block[b].size = aligned
          /\ \A c \in Clashes(s) : c \in Clashes(h) \/ c = b \/ c = rest
          /\ Mergeable(s, rest) <=> Mergeable(h, b)
      BY <1>0, <1>1, <2>1, <3>1, SplitFacts
    <3>3. rest \notin Clashes(s)
      BY <1>2, <3>2 DEF Clashes
    <3> QED BY <1>0, <3>2, <3>3
  <2>2. CASE ~Splits(h, b, aligned)
    <3>1. s = h
      BY <1>1, <2>2 DEF Split
    <3> QED BY <3>1, KeptSame
  <2> QED BY <2>1, <2>2
<1>4. size \in 0 .. WordMax /\ r = Request(s, b, size)
  BY <1>1, Constants
<1>5. /\ Chain(r) /\ Kept(s, r, b) /\ b \in Used(r)
      /\ r.block[b].requested = size /\ r.block[b].size = s.block[b].size
      /\ Clashes(r) \subseteq Clashes(s) \ {b}
  BY <1>3, <1>4, RequestFacts
<1>6. Kept(h, r, b)
  BY <1>3, <1>5, KeptThrough
<1>7. b \notin Used(h) /\ b \in Nat /\ b >= 1
  BY BlockFacts DEF Used
<1>8. size <= r.block[b].size
  <2>1. r.block[b].size \in Nat /\ r.block[b].size >= aligned
    BY <1>3, <1>5, BlockFacts
  <2> QED BY <1>0, <2>1, Constants
<1> QED BY <1>3, <1>5, <1>6, <1>7, <1>8 DEF Given

LEMMA MallocGrows ==
    ASSUME NEW h, Chain(h), Clashes(h) = {}, NEW size \in 1 .. WordMax,
           NEW aligned, aligned = AlignSize(size), aligned # 0, NEW granted,
           NEW r, r = Grow(h, aligned, granted)
    PROVE  \/ Chain(r) /\ Clashes(r) = {} /\ Blocks(r) = Blocks(h) /\ Kept(h, r, Null)
           \/ /\ Blocks(r) # Blocks(h)
              /\ \A s : s = Request(r, r.tail, size) =>
                   /\ Chain(s) /\ Clashes(s) = {} /\ Kept(h, s, r.tail)
                   /\ Given(h, s, r.tail, size)
<1>0. /\ aligned \in Nat /\ aligned <= WordMax /\ aligned >= size /\ aligned >= Align
      /\ aligned % Align = 0
  BY Aligned, Constants
<1>1. PICK g : g = Initialized(h, granted)
  OBVIOUS
<1>2. /\ Chain(g) /\ g.block = h.block /\ Blocks(g) = Blocks(h) /\ Clashes(g) = Clashes(h)
      /\ Used(g) = Used(h) /\ (g.end # 0 /\ Blocks(g) = {} => g.end = AlignSize(Break))
  BY <1>1, InitializedFacts
<1>3. CASE r = g
  <2>1. Kept(h, g, Null)
    BY <1>2 DEF Kept
  <2> QED BY <1>2, <1>3, <2>1
<1>4. CASE /\ r = Appended(g, aligned) /\ g.end # 0 /\ g.end + Header + aligned <= Limit
  <2>1. PICK e : e = g.end
    OBVIOUS
  <2>2. Blocks(g) = {} => g.end = AlignSize(Break)
    BY <1>2, <1>4
  <2>3. /\ Chain(r) /\ e \notin Blocks(g) /\ e \in Used(r) /\ r.tail = e
        /\ Blocks(r) = Blocks(g) \cup {e} /\ r.block[e].size = aligned
        /\ Kept(g, r, e) /\ Clashes(r) \subseteq Clashes(g)
    BY <1>0, <1>2, <1>4, <2>1, <2>2, AppendFacts
  <2>4. Kept(h, r, e) /\ e \notin Used(h) /\ e \in Blocks(r)
    BY <1>2, <2>3 DEF Kept, Used
  <2>5. ASSUME NEW s, s = Request(r, r.tail, size)
        PROVE  Chain(s) /\ Clashes(s) = {} /\ Kept(h, s, e) /\ Given(h, s, e, size)
    <3>0. size \in 0 .. WordMax /\ s = Request(r, e, size)
      BY <2>3, <2>5, Constants
    <3>1. /\ Chain(s) /\ Kept(r, s, e) /\ e \in Used(s)
          /\ s.block[e].requested = size /\ s.block[e].size = r.block[e].size
          /\ Clashes(s) \subseteq Clashes(r) \ {e}
      BY <2>3, <2>4, <3>0, RequestFacts
    <3>2. Kept(h, s, e)
      BY <2>4, <3>1, KeptThrough
    <3>3. e \in Nat /\ e >= 1
      BY <2>3, <2>4, BlockFacts
    <3>4. size <= s.block[e].size
      BY <1>0, <2>3, <3>1
    <3> QED BY <1>2, <2>3, <2>4, <3>1, <3>2, <3>3, <3>4 DEF Given
  <2> QED BY <1>2, <2>3, <2>5
<1> QED BY <1>1, <1>3, <1>4, GrowIs

(* malloc of a size from 1 to WordMax, which a caller always asks for.     *)
LEMMA MallocFacts ==
    ASSUME NEW h, Chain(h), Clashes(h) = {}, NEW size \in 1 .. WordMax, NEW granted,
           NEW r, r = Malloc(h, size, granted)
    PROVE  /\ Chain(r.heap) /\ Clashes(r.heap) = {}
           /\ r.at = Null => Kept(h, r.heap, Null)
           /\ r.at # Null => \E b \in Nat : /\ r.at = b + Header
                                            /\ Kept(h, r.heap, b)
                                            /\ Given(h, r.heap, b, size)
<1>1. PICK aligned : aligned = AlignSize(size)
  OBVIOUS
<1>2. PICK grown : grown = Grow(h, aligned, granted)
  OBVIOUS
<1>3. PICK b : b = FirstFit(h, aligned)
  OBVIOUS
<1>4. r = IF aligned = 0 THEN [heap |-> h, at |-> Null]
          ELSE IF Fits(h, aligned) # {}
          THEN [heap |-> Request(Split(h, b, aligned), b, size), at |-> b + Header]
          ELSE IF DOMAIN grown.block = DOMAIN h.block
          THEN [heap |-> grown, at |-> Null]
          ELSE [heap |-> Request(grown, grown.tail, size), at |-> grown.tail + Header]
  BY <1>1, <1>2, <1>3 DEF Malloc
<1>5. CASE aligned = 0
  BY <1>4, <1>5, KeptSame
<1>6. CASE aligned # 0 /\ Fits(h, aligned) # {}
  <2>1. aligned \in Nat
    BY <1>1, Aligned, Constants
  <2>2. b \in Blocks(h) /\ h.block[b].free /\ h.block[b].size >= aligned
    BY <1>3, <1>6, <2>1, FirstFitFacts
  <2>3. PICK s : s = Request(Split(h, b, aligned), b, size)
    OBVIOUS
  <2>4. Chain(s) /\ Clashes(s) = {} /\ Kept(h, s, b) /\ Given(h, s, b, size)
    BY <1>1, <1>6, <2>2, <2>3, MallocFits
  <2>5. r.heap = s /\ r.at = b + Header /\ b \in Nat
    BY <1>4, <1>6, <2>3, <2>4 DEF Given
  <2>6. r.at # Null
    BY <2>4, <2>5, Constants DEF Given, Null
  <2> QED BY <2>4, <2>5, <2>6
<1>7. CASE aligned # 0 /\ Fits(h, aligned) = {}
  <2>1. CASE Blocks(grown) = Blocks(h)
    <3>1. r.heap = grown /\ r.at = Null
      BY <1>4, <1>7, <2>1 DEF Blocks
    <3> QED BY <1>1, <1>2, <1>7, <2>1, <3>1, MallocGrows
  <2>2. CASE Blocks(grown) # Blocks(h)
    <3>1. PICK s, e : s = Request(grown, grown.tail, size) /\ e = grown.tail
      OBVIOUS
    <3>2. Chain(s) /\ Clashes(s) = {} /\ Kept(h, s, e) /\ Given(h, s, e, size)
      BY <1>1, <1>2, <1>7, <2>2, <3>1, MallocGrows
    <3>3. r.heap = s /\ r.at = e + Header /\ e \in Nat
      BY <1>4, <1>7, <2>2, <3>1, <3>2 DEF Given, Blocks
    <3>4. r.at # Null
      BY <3>2, <3>3, Constants DEF Given, Null
    <3> QED BY <3>2, <3>3, <3>4
  <2> QED BY <2>1, <2>2
<1> QED BY <1>5, <1>6, <1>7

-----------------------------------------------------------------------------
(* Resizing in place: the block stays used, and the others as they were.   *)
Resized(h, r, b) ==
    /\ Chain(r) /\ Clashes(r) = {} /\ Kept(h, r, b) /\ b \in Used(r)
    /\ r.block[b].requested = h.block[b].requested

LEMMA ResizedSame ==
    ASSUME NEW h, Chain(h), Clashes(h) = {}, NEW b \in Used(h)
    PROVE  Resized(h, h, b)
BY KeptSame DEF Resized

LEMMA ExtendTailFacts ==
    ASSUME NEW h, Chain(h), Clashes(h) = {}, NEW b \in Used(h), b = h.tail,
           NEW aligned \in Nat, aligned % Align = 0, aligned > h.block[b].size,
           NEW granted, NEW r, r = ExtendTail(h, b, aligned, granted)
    PROVE  Resized(h, r, b)
<1>0. b \in Blocks(h)
  BY DEF Used
<1>1. CASE r = h
  BY <1>1, ResizedSame
<1>2. CASE r # h
  <2>1. PICK s \in Nat : s = h.block[b].size
    BY <1>0, BlockFacts
  <2>2. /\ b \in Nat /\ b >= 1 /\ h.end = b + Header + s /\ h.end \in Nat /\ After(h, b) = h.end
        /\ h.block[b] \in Block /\ Placed(h, b) /\ IsHeap(h) /\ Ends(h) /\ s >= Align
        /\ aligned > s
    BY <1>0, <2>1, BlockFacts, Neighbour DEF Chain, Placed
  <2>3. PICK target : target = h.end + (aligned - s)
    OBVIOUS
  <2>4. target \in Nat /\ target <= Limit /\ target = b + Header + aligned /\ target > h.end
    <3>1. target <= Limit
      BY <1>2, <2>1, <2>3 DEF ExtendTail, Brk
    <3> QED BY <2>1, <2>2, <2>3, <3>1, Constants
  <2>5. PICK x : x = [h.block[b] EXCEPT !.size = aligned]
    OBVIOUS
  <2>6. x = [size |-> aligned, next |-> h.block[b].next, free |-> h.block[b].free,
             requested |-> h.block[b].requested]
    BY <2>2, <2>5 DEF Block
  <2>7. PICK g : g = [h EXCEPT !.end = target]
    OBVIOUS
  <2>8. r = With(g, b, x)
    BY <1>2, <2>1, <2>3, <2>5, <2>7 DEF ExtendTail
  <2>9. IsHeap(g) /\ g.block = h.block /\ g.head = h.head /\ g.tail = h.tail /\ g.end = target
    BY <2>2, <2>7 DEF IsHeap
  <2>10. Blocks(g) = Blocks(h) /\ Blocks(h) \cup {b} = Blocks(h)
    BY <1>0, <2>9 DEF Blocks
  <2>11. /\ IsHeap(r) /\ Blocks(r) = Blocks(g) \cup {b} /\ r.block[b] = x
         /\ \A c \in Blocks(g) : c # b => r.block[c] = g.block[c]
         /\ r.head = g.head /\ r.tail = g.tail /\ r.end = g.end
    BY <2>8, <2>9, WithFacts
  <2>12. /\ Blocks(r) = Blocks(h) /\ \A c \in Blocks(h) \ {b} : r.block[c] = h.block[c]
         /\ r.head = h.head /\ r.tail = h.tail /\ r.end = target
    BY <2>9, <2>10, <2>11
  <2>13. \A c \in Blocks(h) \ {b} : After(r, c) = After(h, c)
    BY <2>12 DEF After
  <2>14. After(r, b) = target
    BY <2>4, <2>6, <2>11 DEF After
  <2>15. Ends(r)
    BY <1>0, <2>2, <2>4, <2>12 DEF Ends
  <2>16. r.block[b] \in Block
    BY <2>2, <2>4, <2>6, <2>11, Constants DEF Block
  <2>17. Placed(r, b)
    BY <2>2, <2>1, <2>4, <2>6, <2>11, <2>12, <2>14, Constants DEF Placed
  <2>18. ASSUME NEW c \in Blocks(h) \ {b} PROVE Placed(r, c)
    <3>1. Placed(h, c) /\ After(h, c) \in Nat /\ After(h, c) <= h.end
      BY BlockFacts DEF Chain
    <3>2. After(r, c) <= r.end
      BY <2>2, <2>4, <2>12, <2>13, <3>1
    <3> QED BY <2>12, <2>13, <3>1, <3>2 DEF Placed
  <2>19. ASSUME NEW c \in Blocks(r), NEW d \in Blocks(r), c < d PROVE After(r, c) <= d
    <3>1. c # b
      <4> SUFFICES ASSUME c = b PROVE FALSE
        OBVIOUS
      <4>1. After(h, b) <= d
        BY <2>12, <2>19 DEF Chain
      <4>2. After(h, d) > d /\ After(h, d) <= h.end /\ d \in Nat /\ After(h, d) \in Nat
        BY <2>12, BlockFacts, Constants
      <4> QED BY <2>2, <4>1, <4>2
    <3> QED BY <2>12, <2>13, <2>19, <3>1 DEF Chain
  <2>20. ASSUME NEW c \in Blocks(r), c # r.head PROVE \E p \in Blocks(r) : After(r, p) = c
    <3>1. PICK p \in Blocks(h) : After(h, p) = c
      BY <2>12, <2>20 DEF Chain
    <3>2. p # b
      <4>1. After(h, c) > c /\ After(h, c) <= h.end /\ c \in Nat /\ After(h, c) \in Nat
        BY <2>12, BlockFacts, Constants
      <4> QED BY <2>2, <3>1, <4>1
    <3> QED BY <2>12, <2>13, <3>1, <3>2
  <2>21. Chain(r)
    <3>1. /\ Blocks(r) \subseteq Arena /\ \A c \in Blocks(r) : r.head <= c
          /\ \A c \in Blocks(r) : Placed(r, c)
          /\ \A c \in Blocks(r) : r.block[c] \in Block
      BY <2>12, <2>16, <2>17, <2>18 DEF Chain
    <3> QED BY <2>11, <2>15, <2>19, <2>20, <3>1 DEF Chain
  <2>22. x.free = h.block[b].free /\ x.requested = h.block[b].requested
    BY <2>6
  <2>23. Used(r) = Used(h)
    BY <1>0, <2>11, <2>12, <2>22 DEF Used
  <2>24. Kept(h, r, b)
    BY <2>12, <2>23 DEF Kept, Used
  <2>25. Clashes(r) = {}
    <3> SUFFICES ASSUME NEW c \in Clashes(r) PROVE FALSE
      OBVIOUS
    <3>1. c \in Blocks(h) /\ r.block[c].free /\ Mergeable(r, c) /\ c # b
      BY <2>12, <2>23 DEF Clashes, Used
    <3>2. c # r.tail /\ After(r, c) \in Blocks(r) /\ r.block[After(r, c)].free
      BY <2>12, <2>21, <3>1, Neighbour
    <3>3. c # h.tail /\ h.block[After(h, c)].free
      BY <2>12, <2>13, <2>22, <2>11, <3>1, <3>2
    <3> QED BY <2>12, <3>1, <3>3, Neighbour DEF Clashes
  <2> QED BY <2>11, <2>21, <2>22, <2>23, <2>24, <2>25 DEF Resized
<1> QED BY <1>1, <1>2

LEMMA ResizedThrough ==
    ASSUME NEW h, NEW r, NEW s, NEW b, Resized(h, r, b), Resized(r, s, b)
    PROVE  Resized(h, s, b)
BY KeptThrough DEF Resized

LEMMA AbsorbFacts ==
    ASSUME NEW h, Chain(h), Clashes(h) = {}, NEW b \in Used(h), Mergeable(h, b),
           NEW aligned \in Nat, aligned >= Align, aligned % Align = 0,
           NEW granted, NEW r, r = Absorb(h, b, aligned, granted)
    PROVE  Resized(h, r, b)
<1>0. b \in Blocks(h)
  BY DEF Used
<1>1. h.block[b].next = After(h, b) /\ After(h, b) \in Blocks(h)
  BY <1>0, Neighbour
<1>2. PICK m : m = MergeNext(h, b)
  OBVIOUS
<1>3. PICK combined : combined = h.block[b].size + Header + h.block[After(h, b)].size
  OBVIOUS
<1>4. r = IF combined >= aligned THEN SplitAndMerge(m, b, aligned)
          ELSE IF After(h, b) # h.tail THEN h
          ELSE IF ExtendTail(m, b, aligned, granted) = m THEN h
          ELSE ExtendTail(m, b, aligned, granted)
  BY <1>1, <1>2, <1>3 DEF Absorb
<1>5. /\ Chain(m) /\ Kept(h, m, b) /\ b \in Blocks(m)
      /\ b \in Used(m) <=> b \in Used(h)
      /\ m.block[b].size = combined
      /\ m.block[b].requested = h.block[b].requested
      /\ Clashes(m) \subseteq Clashes(h) \ {b}
      /\ After(h, b) = h.tail => b = m.tail
  BY <1>0, <1>2, <1>3, MergeFacts
<1>6. Resized(h, m, b) /\ b \in Used(m) /\ Clashes(m) = {}
  BY <1>5 DEF Resized
<1>7. combined \in Nat
  BY <1>5, BlockFacts
<1>8. CASE combined >= aligned
  <2>1. /\ Chain(r) /\ Clashes(r) = {} /\ Kept(m, r, b) /\ b \in Used(r)
        /\ r.block[b].requested = m.block[b].requested
    BY <1>4, <1>5, <1>6, <1>8, SplitAndMergeFacts
  <2>2. Resized(m, r, b)
    BY <2>1 DEF Resized
  <2> QED BY <1>6, <2>2, ResizedThrough
<1>9. CASE ~(combined >= aligned) /\ r = ExtendTail(m, b, aligned, granted) /\ After(h, b) = h.tail
  <2>1. aligned > m.block[b].size /\ b = m.tail
    BY <1>5, <1>7, <1>9
  <2>2. Resized(m, r, b)
    BY <1>5, <1>6, <1>9, <2>1, ExtendTailFacts
  <2> QED BY <1>6, <2>2, ResizedThrough
<1>10. CASE r = h
  BY <1>10, ResizedSame
<1> QED BY <1>4, <1>8, <1>9, <1>10

LEMMA InPlaceFacts ==
    ASSUME NEW h, Chain(h), Clashes(h) = {}, NEW b \in Used(h),
           NEW aligned \in Nat, aligned >= Align, aligned % Align = 0,
           NEW granted, NEW r, r = InPlace(h, b, aligned, granted)
    PROVE  Resized(h, r, b)
<1>0. h.block[b].size \in Nat
  BY BlockFacts DEF Used
<1>1. CASE aligned <= h.block[b].size
  <2>1. r = SplitAndMerge(h, b, aligned)
    BY <1>1 DEF InPlace
  <2>2. /\ Chain(r) /\ Clashes(r) = {} /\ Kept(h, r, b) /\ b \in Used(r)
        /\ r.block[b].requested = h.block[b].requested
    BY <1>1, <2>1, SplitAndMergeFacts
  <2> QED BY <2>2 DEF Resized
<1>2. CASE ~(aligned <= h.block[b].size) /\ Mergeable(h, b)
  <2>1. r = Absorb(h, b, aligned, granted)
    BY <1>2 DEF InPlace
  <2> QED BY <1>2, <2>1, AbsorbFacts
<1>3. CASE ~(aligned <= h.block[b].size) /\ ~Mergeable(h, b) /\ b = h.tail
  <2>1. r = ExtendTail(h, b, aligned, granted) /\ aligned > h.block[b].size
    BY <1>0, <1>3 DEF InPlace
  <2> QED BY <1>3, <2>1, ExtendTailFacts
<1>4. CASE ~(aligned <= h.block[b].size) /\ ~Mergeable(h, b) /\ b # h.tail
  <2>1. r = h
    BY <1>4 DEF InPlace
  <2> QED BY <2>1, ResizedSame
<1> QED BY <1>1, <1>2, <1>3, <1>4

-----------------------------------------------------------------------------
(* The program's side.  Holds: the payload at an address is that of a used *)
(* block, which is large enough for size bytes and remembers the size.     *)
Holds(h, at, size) ==
    /\ at \in Nat /\ at - Header \in Used(h)
    /\ size <= h.block[at - Header].size
    /\ h.block[at - Header].requested = size

StateType ==
    /\ mem \in [Arena -> {0} \cup Tags]
    /\ live \in [Tags -> [at : 0 .. Limit, size : Nat]]
    /\ moving \in [Threads -> [pc : {"idle", "allocate", "copy"}, tag : {0} \cup Tags,
                               size : 0 .. WordMax, copy : 0 .. WordMax, to : 0 .. Limit]]

HeapInv == Chain(heap) /\ Clashes(heap) = {}

Alive(g) == live[g].at # Null

LiveHeld == \A g \in Tags : Alive(g) => Holds(heap, live[g].at, live[g].size)

LiveApart == \A g, k \in Tags : Alive(g) /\ live[g].at = live[k].at => g = k

LiveData == \A g \in Tags : Alive(g) => \A a \in Bytes(live[g].at, live[g].size) : mem[a] = g

(* A thread in realloc keeps an allocation from the others, and in "copy"  *)
(* a replacement that nobody else knows.                                   *)
MovingHeld ==
    \A t \in Threads :
        /\ moving[t].pc = "idle" => moving[t].tag = 0
        /\ moving[t].pc # "idle" =>
             /\ moving[t].tag \in Tags /\ Alive(moving[t].tag)
             /\ moving[t].size >= 1 /\ moving[t].copy <= moving[t].size
             /\ moving[t].copy <= live[moving[t].tag].size
        /\ moving[t].pc = "copy" =>
             /\ moving[t].to # Null /\ Holds(heap, moving[t].to, moving[t].size)
             /\ \A g \in Tags : live[g].at # moving[t].to

MovingApart ==
    \A t, u \in Threads : t # u =>
        /\ moving[t].pc # "idle" => moving[t].tag # moving[u].tag
        /\ moving[t].pc = "copy" /\ moving[u].pc = "copy" => moving[t].to # moving[u].to

Claimed ==
    \A b \in Used(heap) :
        \/ \E g \in Tags : Alive(g) /\ live[g].at = b + Header
        \/ \E t \in Threads : moving[t].pc = "copy" /\ moving[t].to = b + Header

IInv ==
    /\ StateType /\ HeapInv
    /\ LiveHeld /\ LiveApart /\ LiveData
    /\ MovingHeld /\ MovingApart
    /\ Claimed

-----------------------------------------------------------------------------
(* What the invariant says of the properties.                              *)
LEMMA OnePrevious ==
    ASSUME NEW h, Chain(h), NEW b \in Blocks(h), b # h.head
    PROVE  Cardinality(Previous(h, b)) = 1
<1>1. PICK p \in Blocks(h) : After(h, p) = b
  BY DEF Chain
<1>2. b \in Nat /\ b >= 1 /\ After(h, b) > b /\ After(h, b) <= h.end
      /\ h.end \in Nat /\ After(h, b) \in Nat
  BY BlockFacts, Constants
<1>3. p # h.tail
  BY <1>1, <1>2, Neighbour
<1>4. p \in Previous(h, b)
  BY <1>1, <1>3, Neighbour DEF Previous, Blocks
<1>5. ASSUME NEW q \in Previous(h, b) PROVE q = p
  <2>1. q \in Blocks(h) /\ h.block[q].next = b
    BY DEF Previous, Blocks
  <2>2. q # h.tail
    <3>1. q = h.tail => h.block[q].next = 0
      BY <2>1, Neighbour DEF Null
    <3> QED BY <1>2, <2>1, <3>1
  <2>3. After(h, q) = b
    BY <2>1, <2>2, Neighbour
  <2> QED BY <1>1, <2>1, <2>3, OneBefore
<1>6. Previous(h, b) = {p}
  BY <1>4, <1>5
<1> QED BY <1>6, FS_Singleton

LEMMA Tiled == ASSUME HeapInv PROVE HeapTiled /\ Coalesced
<1>1. Chain(heap) /\ Clashes(heap) = {} /\ Ends(heap)
  BY DEF HeapInv, Chain
<1>2. Coalesced
  BY <1>1 DEF Coalesced, Clashes, Blocks
<1>3. CASE Blocks(heap) = {}
  BY <1>1, <1>2, <1>3 DEF HeapTiled, Ends, Blocks
<1>4. CASE Blocks(heap) # {}
  <2>1. heap.head \in Blocks(heap) /\ heap.head # Null /\ heap.head = AlignSize(Break)
    <3>1. heap.head \in Blocks(heap) /\ heap.head = AlignSize(Break)
      BY <1>1, <1>4 DEF Ends
    <3>2. heap.head >= 1
      BY <1>1, <3>1, BlockFacts
    <3> QED BY <3>1, <3>2 DEF Null
  <2>2. ASSUME NEW b \in DOMAIN heap.block
        PROVE  /\ heap.block[b].size >= Align /\ heap.block[b].size % Align = 0
               /\ b = heap.head \/ Cardinality(Previous(heap, b)) = 1
               /\ b = heap.tail => heap.block[b].next = Null /\ After(heap, b) = heap.end
               /\ b # heap.tail => heap.block[b].next = After(heap, b)
                                   /\ heap.block[b].next \in DOMAIN heap.block
    <3>1. b \in Blocks(heap) /\ Placed(heap, b)
      BY <1>1, <2>2 DEF Blocks, Chain
    <3>2. b = heap.head \/ Cardinality(Previous(heap, b)) = 1
      BY <1>1, <3>1, OnePrevious
    <3> QED BY <3>1, <3>2 DEF Placed, Blocks
  <2>3. HeapTiled
    BY <2>1, <2>2 DEF HeapTiled
  <2> QED BY <1>2, <2>3
<1> QED BY <1>3, <1>4

LEMMA WellFormed == ASSUME IInv PROVE HeapWellFormed
<1>1. Chain(heap) /\ Ends(heap) /\ IsHeap(heap) /\ StateType
  BY DEF IInv, HeapInv, Chain
<1>2. heap.block \in [DOMAIN heap.block -> Block]
  <2>1. heap.block = [b \in DOMAIN heap.block |-> heap.block[b]]
    BY <1>1 DEF IsHeap
  <2>2. \A b \in DOMAIN heap.block : heap.block[b] \in Block
    BY <1>1 DEF Chain, Blocks
  <2> QED BY <2>1, <2>2
<1>3. /\ DOMAIN heap.block \subseteq Arena /\ heap.end \in 0 .. Limit
      /\ heap.head \in {Null} \cup DOMAIN heap.block
      /\ heap.tail \in {Null} \cup DOMAIN heap.block
  BY <1>1 DEF Chain, Ends, Blocks
<1>4. TypeOK
  BY <1>1, <1>2, <1>3 DEF TypeOK, StateType
<1> QED BY <1>4, Tiled DEF HeapWellFormed, IInv

LEMMA DataIsKept == ASSUME IInv PROVE DataKept
BY DEF IInv, DataKept, LiveHeld, LiveData, Alive, Holds, Used, Blocks, Unused

LEMMA NoLeak == ASSUME IInv PROVE NothingLeaked
<1>1. Used(heap) = {c \in DOMAIN heap.block : ~heap.block[c].free}
  BY DEF Used, Blocks
<1>2. \A b \in Used(heap) : b \in Nat /\ (b + Header) - Header = b
  BY BlockFacts, Constants DEF IInv, HeapInv, Used
<1>3. ASSUME NEW b \in Used(heap)
      PROVE  b + Header \in {live[g].at : g \in Tags \ Unused}
                              \cup {moving[t].to : t \in {u \in Threads : moving[u].pc = "copy"}}
  BY <1>3 DEF IInv, Claimed, Alive, Unused
<1>4. ASSUME NEW at, at \in Nat, at - Header \in Used(heap)
      PROVE  at \in {b + Header : b \in Used(heap)}
  <2>1. (at - Header) + Header = at
    BY <1>4, Constants
  <2> QED BY <1>4, <2>1
<1>5. ASSUME NEW g \in Tags \ Unused PROVE live[g].at \in {b + Header : b \in Used(heap)}
  BY <1>4 DEF IInv, LiveHeld, Holds, Alive, Unused
<1>6. ASSUME NEW t \in Threads, moving[t].pc = "copy"
      PROVE  moving[t].to \in {b + Header : b \in Used(heap)}
  BY <1>4, <1>6 DEF IInv, MovingHeld, Holds
<1> QED BY <1>1, <1>3, <1>5, <1>6 DEF NothingLeaked

-----------------------------------------------------------------------------
LEMMA InitInv == ASSUME Init PROVE IInv
<1>1. PICK h : h = [block |-> <<>>, head |-> Null, tail |-> Null, end |-> 0]
  OBVIOUS
<1>2. heap = h
  BY <1>1 DEF Init
<1>3. Blocks(h) = {} /\ h.head = Null /\ h.tail = Null /\ h.end = 0 /\ IsHeap(h)
  BY <1>1 DEF Blocks, IsHeap
<1>4. Chain(h) /\ Clashes(h) = {} /\ Used(h) = {}
  BY <1>3, Constants DEF Chain, Ends, Clashes, Used
<1>5. /\ mem = [a \in Arena |-> 0] /\ live = [g \in Tags |-> [at |-> Null, size |-> 0]]
      /\ moving = [t \in Threads |-> NotMoving]
  BY DEF Init
<1>6. StateType
  BY <1>5, Constants DEF StateType, NotMoving, Null
<1>7. \A g \in Tags : ~Alive(g)
  BY <1>5 DEF Alive
<1>8. \A t \in Threads : moving[t].pc = "idle" /\ moving[t].tag = 0
  BY <1>5 DEF NotMoving
<1>9. LiveHeld /\ LiveApart /\ LiveData
  BY <1>7 DEF LiveHeld, LiveApart, LiveData
<1>10. MovingHeld /\ MovingApart
  BY <1>8 DEF MovingHeld, MovingApart
<1> QED BY <1>2, <1>4, <1>6, <1>9, <1>10 DEF IInv, HeapInv, Claimed

-----------------------------------------------------------------------------
(* Memory.  A payload is in the arena, in no header and in no other payload*)
LEMMA Payload ==
    ASSUME NEW h, Chain(h), NEW at, NEW z \in Nat, Holds(h, at, z), NEW a \in Bytes(at, z)
    PROVE  /\ a \in Arena
           /\ \A c \in Blocks(h) : a \notin Bytes(c, Header)
           /\ \A to, y : Holds(h, to, y) /\ y \in Nat /\ to # at => a \notin Bytes(to, y)
<1>1. PICK b : b = at - Header
  OBVIOUS
<1>2. b \in Blocks(h) /\ at \in Nat /\ z <= h.block[b].size
  BY <1>1 DEF Holds, Used
<1>3. PICK s \in Nat : s = h.block[b].size
  BY <1>2, BlockFacts
<1>4. /\ b \in Nat /\ b >= 1 /\ at = b + Header /\ After(h, b) = at + s
      /\ After(h, b) <= Limit /\ z <= s /\ After(h, b) \in Nat
  <2>1. b \in Nat /\ b >= 1 /\ After(h, b) = b + Header + s /\ After(h, b) <= h.end
        /\ h.end \in Nat /\ h.end <= Limit
    BY <1>2, <1>3, BlockFacts
  <2> QED BY <1>1, <1>2, <1>3, <2>1, Constants
<1>5. a \in Nat /\ a >= at /\ a < at + z /\ a < After(h, b) /\ a > b
  BY <1>2, <1>4, Constants DEF Bytes
<1>6. a \in Arena
  BY <1>4, <1>5, Constants DEF Arena
<1>7. ASSUME NEW c \in Blocks(h) PROVE a \notin Bytes(c, Header)
  <2>1. c \in Nat /\ After(h, c) > c + Header /\ After(h, c) \in Nat
    BY BlockFacts
  <2>2. CASE c = b
    BY <1>4, <1>5, <2>2, Constants DEF Bytes
  <2>3. CASE c # b
    <3>1. After(h, c) <= b \/ After(h, b) <= c
      BY <1>2, <2>3, Apart
    <3> QED BY <1>4, <1>5, <2>1, <3>1, Constants DEF Bytes
  <2> QED BY <2>2, <2>3
<1>8. ASSUME NEW to, NEW y \in Nat, Holds(h, to, y), to # at PROVE a \notin Bytes(to, y)
  <2>1. PICK c : c = to - Header
    OBVIOUS
  <2>2. c \in Blocks(h) /\ to \in Nat /\ y <= h.block[c].size
    BY <1>8, <2>1 DEF Holds, Used
  <2>3. PICK u \in Nat : u = h.block[c].size
    BY <2>2, BlockFacts
  <2>4. c \in Nat /\ After(h, c) = c + Header + u /\ After(h, c) \in Nat
    BY <2>2, <2>3, BlockFacts
  <2>5. to = c + Header /\ y <= u
    BY <2>1, <2>2, <2>3, <2>4, Constants
  <2>6. c # b
    BY <1>4, <1>8, <2>5
  <2>7. After(h, c) <= b \/ After(h, b) <= c
    BY <1>2, <2>2, <2>6, Apart
  <2> QED BY <1>4, <1>5, <1>8, <2>4, <2>5, <2>7, Constants DEF Bytes
<1> QED BY <1>6, <1>7, <1>8

(* An allocation that a step does not touch.                               *)
LEMMA StillHolds ==
    ASSUME NEW h, NEW r, NEW b, Kept(h, r, b), NEW at, NEW z, Holds(h, at, z), at - Header # b
    PROVE  Holds(r, at, z)
BY DEF Kept, Holds

LEMMA HoldsBounds ==
    ASSUME NEW h, Chain(h), NEW at, NEW z, Holds(h, at, z)
    PROVE  at \in 1 .. Limit /\ at - Header >= 1 /\ at # Null
<1>1. PICK b : b = at - Header
  OBVIOUS
<1>2. b \in Blocks(h) /\ at \in Nat
  BY <1>1 DEF Holds, Used
<1>3. b \in Nat /\ b >= 1 /\ After(h, b) > b + Header /\ After(h, b) <= h.end
      /\ After(h, b) \in Nat /\ h.end \in Nat /\ h.end <= Limit
  BY <1>2, BlockFacts
<1>4. at = b + Header
  BY <1>1, <1>2, <1>3, Constants
<1> QED BY <1>1, <1>3, <1>4, Constants DEF Null

LEMMA SameBlock ==
    ASSUME NEW at \in Nat, NEW to \in Nat, at # to
    PROVE  at - Header # to - Header
BY Constants

LEMMA WrittenFacts ==
    ASSUME NEW h, NEW m, NEW at, NEW z, NEW tag, NEW w, w = Written(h, m, at, z, tag)
    PROVE  /\ \A a \in Arena : at # Null /\ a \in Bytes(at, z) => w[a] = tag
           /\ \A a \in Arena : /\ ~(at # Null /\ a \in Bytes(at, z))
                               /\ \A b \in Blocks(h) : a \notin Bytes(b, Header)
                               => w[a] = m[a]
BY DEF Written, Blocks

LEMMA WrittenType ==
    ASSUME NEW h, NEW m, \A a \in Arena : m[a] \in {0} \cup Tags,
           NEW at, NEW z, NEW tag \in {0} \cup Tags
    PROVE  Written(h, m, at, z, tag) \in [Arena -> {0} \cup Tags]
BY DEF Written

LEMMA ForgottenFacts ==
    ASSUME NEW m, NEW at, NEW z, NEW w, w = Forgotten(m, at, z),
           \A a \in Arena : m[a] \in {0} \cup Tags
    PROVE  /\ \A a \in Arena : w[a] \in {0} \cup Tags
           /\ \A a \in Arena : a \notin Bytes(at, z) => w[a] = m[a]
BY DEF Forgotten

-----------------------------------------------------------------------------
(* malloc, for the program or for realloc, touches no live allocation and  *)
(* no replacement; at, size and tag say what the program then fills.       *)
LEMMA MallocLeaves ==
    ASSUME IInv, NEW h, Chain(h), NEW b, b \notin Used(heap), Kept(heap, h, b),
           NEW at, NEW size \in Nat, NEW tag,
           at = Null \/ (at - Header = b /\ Holds(h, at, size)),
           NEW w, w = Written(h, mem, at, size, tag)
    PROVE  /\ \A g \in Tags : Alive(g) =>
                /\ Holds(h, live[g].at, live[g].size) /\ live[g].at # at
                /\ \A a \in Bytes(live[g].at, live[g].size) : w[a] = g
           /\ \A t \in Threads : moving[t].pc = "copy" =>
                Holds(h, moving[t].to, moving[t].size) /\ moving[t].to # at
<1>1. ASSUME NEW to, NEW z, Holds(heap, to, z), to # Null
      PROVE  Holds(h, to, z) /\ to # at
  <2>1. to - Header # b
    BY <1>1 DEF Holds
  <2>2. Holds(h, to, z)
    BY <1>1, <2>1, StillHolds
  <2> QED BY <1>1, <2>1, <2>2
<1>2. ASSUME NEW g \in Tags, Alive(g)
      PROVE  /\ Holds(h, live[g].at, live[g].size) /\ live[g].at # at
             /\ \A a \in Bytes(live[g].at, live[g].size) : w[a] = g
  <2>1. Holds(heap, live[g].at, live[g].size) /\ live[g].at # Null /\ live[g].size \in Nat
    BY <1>2 DEF IInv, LiveHeld, Alive, StateType
  <2>2. Holds(h, live[g].at, live[g].size) /\ live[g].at # at
    BY <1>1, <2>1
  <2>3. ASSUME NEW a \in Bytes(live[g].at, live[g].size) PROVE w[a] = g
    <3>1. /\ a \in Arena
          /\ \A c \in Blocks(h) : a \notin Bytes(c, Header)
          /\ \A to, y : Holds(h, to, y) /\ y \in Nat /\ to # live[g].at => a \notin Bytes(to, y)
      BY <2>1, <2>2, Payload
    <3>2. ~(at # Null /\ a \in Bytes(at, size))
      BY <2>2, <3>1
    <3>3. w[a] = mem[a]
      BY <3>1, <3>2, WrittenFacts
    <3> QED BY <1>2, <3>3 DEF IInv, LiveData
  <2> QED BY <2>2, <2>3
<1>3. ASSUME NEW t \in Threads, moving[t].pc = "copy"
      PROVE  Holds(h, moving[t].to, moving[t].size) /\ moving[t].to # at
  BY <1>1, <1>3 DEF IInv, MovingHeld
<1> QED BY <1>2, <1>3

LEMMA GivenHolds ==
    ASSUME NEW h, NEW r, NEW b \in Nat, NEW size, Given(h, r, b, size)
    PROVE  /\ b + Header \in Nat /\ (b + Header) - Header = b /\ b + Header # Null
           /\ Holds(r, b + Header, size)
<1>1. b + Header \in Nat /\ (b + Header) - Header = b /\ b + Header # Null
  BY Constants DEF Null
<1> QED BY <1>1 DEF Given, Holds

LEMMA TakeStep ==
    ASSUME IInv, NEW size \in 1 .. WordMax, NEW granted,
           NEW r, r = Malloc(heap, size, granted), Take(r, size), UNCHANGED moving
    PROVE  IInv'
<1>0. Chain(heap) /\ Clashes(heap) = {} /\ StateType /\ Null \notin Used(heap)
  <2>1. Chain(heap) /\ Clashes(heap) = {} /\ StateType
    BY DEF IInv, HeapInv
  <2> QED BY <2>1, BlockFacts DEF Used, Null
<1>1. PICK h : h = r.heap
  OBVIOUS
<1>2. /\ Chain(h) /\ Clashes(h) = {}
      /\ r.at = Null => Kept(heap, h, Null)
      /\ r.at # Null => \E b \in Nat : /\ r.at = b + Header
                                       /\ Kept(heap, h, b)
                                       /\ Given(heap, h, b, size)
  BY <1>0, <1>1, MallocFacts
<1>3. heap' = h /\ moving' = moving
  BY <1>1 DEF Take
<1>4. HeapInv'
  BY <1>2, <1>3 DEF HeapInv
<1>5. \A a \in Arena : mem[a] \in {0} \cup Tags
  BY <1>0 DEF StateType
<1>6. CASE r.at = Null
  <2>1. live' = live /\ mem' = Written(h, mem, Null, 0, 0)
    BY <1>1, <1>6 DEF Take
  <2>2. PICK w, none : w = Written(h, mem, none, 0, 0) /\ none = Null
    OBVIOUS
  <2>a. Kept(heap, h, none) /\ none \notin Used(heap)
    BY <1>0, <1>2, <1>6, <2>2
  <2>3. /\ \A g \in Tags : Alive(g) =>
             /\ Holds(h, live[g].at, live[g].size) /\ live[g].at # none
             /\ \A a \in Bytes(live[g].at, live[g].size) : w[a] = g
        /\ \A t \in Threads : moving[t].pc = "copy" =>
             Holds(h, moving[t].to, moving[t].size) /\ moving[t].to # none
    BY <1>2, <2>2, <2>a, MallocLeaves
  <2>4. w \in [Arena -> {0} \cup Tags]
    BY <1>5, <2>2, WrittenType
  <2>5. StateType'
    BY <1>0, <1>3, <2>1, <2>2, <2>4 DEF StateType
  <2>6. LiveHeld' /\ LiveApart' /\ LiveData'
    BY <1>3, <2>1, <2>2, <2>3 DEF IInv, LiveHeld, LiveApart, LiveData, Alive
  <2>7. MovingHeld' /\ MovingApart'
    BY <1>3, <2>1, <2>3 DEF IInv, MovingHeld, MovingApart, Alive
  <2>8. Used(h) = Used(heap)
    <3>1. none \notin Used(h)
      BY <1>2, <2>2, BlockFacts DEF Used, Null
    <3> QED BY <2>a, <3>1 DEF Kept
  <2>9. Claimed'
    BY <1>3, <2>1, <2>8 DEF IInv, Claimed, Alive
  <2> QED BY <1>4, <2>5, <2>6, <2>7, <2>9 DEF IInv
<1>7. CASE r.at # Null
  <2>1. PICK b \in Nat : r.at = b + Header /\ Kept(heap, h, b) /\ Given(heap, h, b, size)
    BY <1>2, <1>7
  <2>2. PICK at : at = r.at
    OBVIOUS
  <2>3. at \in Nat /\ at - Header = b /\ at # Null /\ Holds(h, at, size) /\ b \notin Used(heap)
    BY <2>1, <2>2, GivenHolds DEF Given
  <2>4. PICK g \in Unused : /\ live' = [live EXCEPT ![g] = [at |-> at, size |-> size]]
                            /\ mem' = Written(h, mem, at, size, g)
    BY <1>1, <1>7, <2>2 DEF Take
  <2>5. PICK w : w = Written(h, mem, at, size, g)
    OBVIOUS
  <2>6. size \in Nat /\ g \in Tags /\ ~Alive(g)
    BY <2>4 DEF Unused, Alive
  <2>7. /\ \A k \in Tags : Alive(k) =>
             /\ Holds(h, live[k].at, live[k].size) /\ live[k].at # at
             /\ \A a \in Bytes(live[k].at, live[k].size) : w[a] = k
        /\ \A t \in Threads : moving[t].pc = "copy" =>
             Holds(h, moving[t].to, moving[t].size) /\ moving[t].to # at
    BY <1>2, <2>1, <2>3, <2>5, <2>6, MallocLeaves
  <2>8. at \in 0 .. Limit
    BY <1>2, <2>3, HoldsBounds, Constants
  <2>9. /\ live'[g].at = at /\ live'[g].size = size
        /\ \A k \in Tags \ {g} : live'[k] = live[k]
        /\ live' \in [Tags -> [at : 0 .. Limit, size : Nat]]
    BY <1>0, <2>4, <2>6, <2>8 DEF StateType
  <2>10. w \in [Arena -> {0} \cup Tags]
    BY <1>5, <2>5, <2>6, WrittenType
  <2>11. StateType'
    BY <1>0, <1>3, <2>4, <2>5, <2>9, <2>10 DEF StateType
  <2>12. LiveHeld'
    BY <1>3, <2>3, <2>7, <2>9 DEF LiveHeld, Alive
  <2>13. LiveApart'
    BY <2>3, <2>7, <2>9 DEF IInv, LiveApart, Alive
  <2>14. \A a \in Bytes(at, size) : w[a] = g
    BY <1>2, <2>3, <2>5, <2>6, Payload, WrittenFacts
  <2>15. LiveData'
    BY <2>4, <2>5, <2>7, <2>9, <2>14 DEF LiveData, Alive
  <2>16. MovingHeld'
    BY <1>3, <2>6, <2>7, <2>9 DEF IInv, MovingHeld, Alive
  <2>17. MovingApart'
    BY <1>3 DEF IInv, MovingApart
  <2>18. Claimed'
    <3> SUFFICES ASSUME NEW c \in Used(h)
                 PROVE  \/ \E k \in Tags : live'[k].at # Null /\ live'[k].at = c + Header
                        \/ \E t \in Threads : moving[t].pc = "copy" /\ moving[t].to = c + Header
      BY <1>3 DEF Claimed, Alive
    <3>1. CASE c = b
      BY <2>1, <2>2, <2>3, <2>6, <2>9, <3>1
    <3>2. CASE c # b
      <4>1. c \in Used(heap)
        BY <2>1, <3>2 DEF Kept
      <4> QED BY <2>6, <2>9, <4>1 DEF IInv, Claimed, Alive
    <3> QED BY <3>1, <3>2
  <2> QED BY <1>4, <2>11, <2>12, <2>13, <2>15, <2>16, <2>17, <2>18 DEF IInv
<1> QED BY <1>6, <1>7

LEMMA CallMallocStep ==
    ASSUME IInv, NEW t \in Threads, NEW size \in Sizes, NEW granted \in BOOLEAN,
           CallMalloc(t, size, granted)
    PROVE  IInv'
<1>1. PICK r : r = Malloc(heap, size, granted)
  OBVIOUS
<1>2. Take(r, size) /\ UNCHANGED moving /\ size \in 1 .. WordMax
  BY <1>1, Constants DEF CallMalloc
<1> QED BY <1>1, <1>2, TakeStep

(* calloc's check keeps the product within a word.                         *)
LEMMA Product ==
    ASSUME NEW w \in Nat, NEW s \in 1 .. w, NEW n \in 1 .. w, n <= w \div s
    PROVE  n * s \in 1 .. w
<1>1. n * s <= w
  OBVIOUS
<1>2. n * s >= 1
  OBVIOUS
<1> QED BY <1>1, <1>2

LEMMA CallCallocStep ==
    ASSUME IInv, NEW t \in Threads, NEW n \in 1 .. WordMax, NEW size \in 1 .. WordMax,
           NEW granted \in BOOLEAN, CallCalloc(t, n, size, granted)
    PROVE  IInv'
<1>1. PICK z : z = n * size
  OBVIOUS
<1>2. n <= WordMax \div size
  BY DEF CallCalloc
<1>3. z \in 1 .. WordMax
  BY <1>1, <1>2, Product, Constants
<1>4. PICK r : r = Malloc(heap, z, granted)
  OBVIOUS
<1>5. Take(r, z) /\ UNCHANGED moving
  BY <1>1, <1>4 DEF CallCalloc
<1> QED BY <1>3, <1>4, <1>5, TakeStep

-----------------------------------------------------------------------------
(* free, alone or at the end of realloc, leaves everything else: the other *)
(* allocations and replacements hold, and their bytes are not in what the  *)
(* block gave up.                                                          *)
LEMMA FreedLeaves ==
    ASSUME IInv, NEW at, NEW size, size \in Nat, Holds(heap, at, size),
           NEW h, h = Freed(heap, at)
    PROVE  /\ Chain(h) /\ Clashes(h) = {} /\ Used(h) = Used(heap) \ {at - Header}
           /\ \A to, z : Holds(heap, to, z) /\ z \in Nat /\ to # at =>
                /\ Holds(h, to, z)
                /\ \A a \in Bytes(to, z) : a \in Arena /\ a \notin Bytes(at, size)
<1>1. PICK b : at - Header = b
  OBVIOUS
<1>2. Chain(heap) /\ Clashes(heap) = {} /\ b \in Used(heap)
  BY <1>1 DEF IInv, HeapInv, Holds
<1>3. Chain(h) /\ Clashes(h) = {} /\ Used(h) = Used(heap) \ {b} /\ Kept(heap, h, b)
  BY <1>1, <1>2, FreedFacts
<1>4. ASSUME NEW to, NEW z \in Nat, Holds(heap, to, z), to # at
      PROVE  Holds(h, to, z) /\ \A a \in Bytes(to, z) : a \in Arena /\ a \notin Bytes(at, size)
  <2>1. to \in Nat /\ at \in Nat
    BY <1>4 DEF Holds
  <2>2. to - Header # b
    BY <1>1, <1>4, <2>1, SameBlock
  <2>3. Holds(h, to, z)
    BY <1>3, <1>4, <2>2, StillHolds
  <2>4. ASSUME NEW a \in Bytes(to, z) PROVE a \in Arena /\ a \notin Bytes(at, size)
    BY <1>2, <1>4, Payload
  <2> QED BY <2>3, <2>4
<1> QED BY <1>1, <1>3, <1>4

LEMMA CallFreeStep ==
    ASSUME IInv, NEW t \in Threads, NEW g \in Tags, CallFree(t, g)
    PROVE  IInv'
<1>0. /\ Alive(g) /\ g \notin Moving /\ moving' = moving /\ Chain(heap) /\ StateType
      /\ heap' = Freed(heap, live[g].at)
      /\ mem' = Forgotten(mem, live[g].at, live[g].size)
      /\ live' = [live EXCEPT ![g] = [at |-> Null, size |-> 0]]
  BY DEF CallFree, IInv, HeapInv, Alive
<1>1. PICK h, at, size, w : /\ h = Freed(heap, at) /\ at = live[g].at /\ size = live[g].size
                            /\ w = Forgotten(mem, at, size)
  OBVIOUS
<1>2. heap' = h /\ mem' = w
  BY <1>0, <1>1
<1>3. Holds(heap, at, size) /\ size \in Nat /\ at # Null
  BY <1>0, <1>1 DEF IInv, LiveHeld, StateType, Alive
<1>4. /\ Chain(h) /\ Clashes(h) = {} /\ Used(h) = Used(heap) \ {at - Header}
      /\ \A to, z : Holds(heap, to, z) /\ z \in Nat /\ to # at =>
           /\ Holds(h, to, z)
           /\ \A a \in Bytes(to, z) : a \in Arena /\ a \notin Bytes(at, size)
  BY <1>1, <1>3, FreedLeaves
<1>5. \A a \in Arena : mem[a] \in {0} \cup Tags
  BY <1>0 DEF StateType
<1>6. w \in [Arena -> {0} \cup Tags] /\ \A a \in Arena : a \notin Bytes(at, size) => w[a] = mem[a]
  <2>1. \A a \in Arena : w[a] \in {0} \cup Tags
    BY <1>1, <1>5, ForgottenFacts
  <2>2. \A a \in Arena : a \notin Bytes(at, size) => w[a] = mem[a]
    BY <1>1, <1>5, ForgottenFacts
  <2>3. w = [a \in Arena |-> w[a]]
    BY <1>1 DEF Forgotten
  <2> QED BY <2>1, <2>2, <2>3
<1>7. /\ live'[g].at = Null /\ \A k \in Tags \ {g} : live'[k] = live[k]
      /\ live' \in [Tags -> [at : 0 .. Limit, size : Nat]]
  <2>1. Null \in 0 .. Limit /\ 0 \in Nat
    BY Constants DEF Null
  <2> QED BY <1>0, <2>1 DEF StateType
<1>8. StateType' /\ HeapInv'
  BY <1>0, <1>2, <1>4, <1>6, <1>7 DEF StateType, HeapInv
<1>9. \A k \in Tags \ {g} : Alive(k) => live[k].at # at
  BY <1>1 DEF IInv, LiveApart
<1>10. \A k \in Tags : live'[k].at # Null => Alive(k) /\ k # g /\ live'[k] = live[k]
  BY <1>7 DEF Alive
<1>11. LiveHeld' /\ LiveData'
  <2> SUFFICES ASSUME NEW k \in Tags, Alive(k), k # g
               PROVE  /\ Holds(h, live[k].at, live[k].size)
                      /\ \A a \in Bytes(live[k].at, live[k].size) : w[a] = k
    BY <1>2, <1>10 DEF LiveHeld, LiveData, Alive
  <2>1. Holds(heap, live[k].at, live[k].size) /\ live[k].size \in Nat /\ live[k].at # at
    BY <1>0, <1>9 DEF IInv, LiveHeld, StateType
  <2>2. \A a \in Bytes(live[k].at, live[k].size) : mem[a] = k
    BY DEF IInv, LiveData
  <2> QED BY <1>4, <1>6, <2>1, <2>2
<1>12. LiveApart'
  <2> SUFFICES ASSUME NEW j \in Tags, NEW k \in Tags, live'[j].at # Null, live'[j].at = live'[k].at
               PROVE  j = k
    BY DEF LiveApart, Alive
  <2> QED BY <1>10 DEF IInv, LiveApart
<1>13. MovingHeld'
  <2> SUFFICES ASSUME NEW u \in Threads
               PROVE  /\ moving[u].pc = "idle" => moving[u].tag = 0
                      /\ moving[u].pc # "idle" =>
                           /\ moving[u].tag \in Tags /\ live'[moving[u].tag].at # Null
                           /\ moving[u].size >= 1 /\ moving[u].copy <= moving[u].size
                           /\ moving[u].copy <= live'[moving[u].tag].size
                      /\ moving[u].pc = "copy" =>
                           /\ moving[u].to # Null /\ Holds(h, moving[u].to, moving[u].size)
                           /\ \A k \in Tags : live'[k].at # moving[u].to
    BY <1>0, <1>2 DEF MovingHeld, Alive
  <2>1. moving[u].tag # g
    BY <1>0 DEF Moving
  <2>2. CASE moving[u].pc = "copy"
    <3>1. /\ moving[u].to # Null /\ Holds(heap, moving[u].to, moving[u].size)
          /\ \A k \in Tags : live[k].at # moving[u].to
      BY <2>2 DEF IInv, MovingHeld
    <3>2. moving[u].size \in Nat /\ moving[u].to # at
      BY <1>0, <1>1, <3>1, Constants DEF StateType
    <3>3. Holds(h, moving[u].to, moving[u].size)
      BY <1>4, <3>1, <3>2
    <3>4. \A k \in Tags : live'[k].at # moving[u].to
      BY <1>7, <3>1
    <3> QED BY <1>7, <2>1, <2>2, <3>1, <3>3, <3>4 DEF IInv, MovingHeld, Alive
  <2>3. CASE moving[u].pc # "copy"
    BY <1>7, <2>1, <2>3 DEF IInv, MovingHeld, Alive
  <2> QED BY <2>2, <2>3
<1>14. MovingApart'
  BY <1>0 DEF IInv, MovingApart
<1>15. Claimed'
  <2> SUFFICES ASSUME NEW c \in Used(h)
               PROVE  \/ \E k \in Tags : live'[k].at # Null /\ live'[k].at = c + Header
                      \/ \E u \in Threads : moving[u].pc = "copy" /\ moving[u].to = c + Header
    BY <1>0, <1>2 DEF Claimed, Alive
  <2>1. c \in Used(heap) /\ c # at - Header
    BY <1>4
  <2>2. c \in Nat /\ (c + Header) - Header = c
    <3>1. c \in Nat
      BY <1>0, <2>1, BlockFacts DEF Used
    <3> QED BY <3>1, Constants
  <2>3. CASE \E u \in Threads : moving[u].pc = "copy" /\ moving[u].to = c + Header
    BY <2>3
  <2>4. CASE \E k \in Tags : Alive(k) /\ live[k].at = c + Header
    <3>1. PICK k \in Tags : Alive(k) /\ live[k].at = c + Header
      BY <2>4
    <3>2. k # g
      BY <1>1, <2>1, <2>2, <3>1
    <3> QED BY <1>7, <3>1, <3>2 DEF Alive
  <2> QED BY <2>1, <2>3, <2>4 DEF IInv, Claimed
<1> QED BY <1>8, <1>11, <1>12, <1>13, <1>14, <1>15 DEF IInv

-----------------------------------------------------------------------------
(* realloc's replacement: a block that no allocation owns, known to the    *)
(* thread alone.                                                           *)
LEMMA ReplaceStep ==
    ASSUME IInv, NEW t \in Threads, NEW granted \in BOOLEAN, Replace(t, granted)
    PROVE  IInv'
<1>0. /\ Chain(heap) /\ Clashes(heap) = {} /\ StateType /\ moving[t].pc = "allocate"
      /\ live' = live /\ Null \notin Used(heap)
  <2>1. Chain(heap) /\ Clashes(heap) = {} /\ StateType
    BY DEF IInv, HeapInv
  <2> QED BY <2>1, BlockFacts DEF Used, Null, Replace
<1>1. PICK m : m = moving[t]
  OBVIOUS
<1>2. /\ m \in [pc : {"idle", "allocate", "copy"}, tag : {0} \cup Tags,
                size : 0 .. WordMax, copy : 0 .. WordMax, to : 0 .. Limit]
      /\ m.pc = "allocate" /\ m.tag \in Tags /\ Alive(m.tag) /\ m.size \in 1 .. WordMax
      /\ m.copy <= m.size /\ m.copy <= live[m.tag].size
  <2>1. /\ m \in [pc : {"idle", "allocate", "copy"}, tag : {0} \cup Tags,
                  size : 0 .. WordMax, copy : 0 .. WordMax, to : 0 .. Limit]
        /\ m.pc = "allocate"
    BY <1>0, <1>1 DEF StateType
  <2>2. /\ m.tag \in Tags /\ Alive(m.tag) /\ m.size >= 1
        /\ m.copy <= m.size /\ m.copy <= live[m.tag].size
    BY <1>1, <2>1 DEF IInv, MovingHeld
  <2> QED BY <2>1, <2>2, Constants
<1>3. PICK size, r, h : size = m.size /\ r = Malloc(heap, size, granted) /\ h = r.heap
  OBVIOUS
<1>4. /\ heap' = h /\ mem' = Written(h, mem, Null, 0, 0)
      /\ moving' = [moving EXCEPT ![t] = IF r.at = Null THEN NotMoving
                                         ELSE [m EXCEPT !.pc = "copy", !.to = r.at]]
  BY <1>1, <1>3 DEF Replace
<1>5. /\ Chain(h) /\ Clashes(h) = {}
      /\ r.at = Null => Kept(heap, h, Null)
      /\ r.at # Null => \E b \in Nat : /\ r.at = b + Header
                                       /\ Kept(heap, h, b)
                                       /\ Given(heap, h, b, size)
  <2>1. size \in 1 .. WordMax
    BY <1>2, <1>3
  <2> QED BY <1>0, <1>3, <2>1, MallocFacts
<1>6. PICK w, none : w = Written(h, mem, none, 0, 0) /\ none = Null
  OBVIOUS
<1>7. PICK b : /\ b \notin Used(heap) /\ Kept(heap, h, b)
               /\ r.at # Null => /\ r.at - Header = b /\ Holds(h, r.at, size)
                                 /\ r.at = b + Header
               /\ r.at = Null => Used(h) = Used(heap)
  <2>1. CASE r.at = Null
    <3>1. Kept(heap, h, none) /\ none \notin Used(heap) /\ none \notin Used(h)
      BY <1>0, <1>5, <1>6, <2>1, BlockFacts DEF Used, Null
    <3>2. Used(h) = Used(heap)
      BY <3>1 DEF Kept
    <3> QED BY <2>1, <3>1, <3>2
  <2>2. CASE r.at # Null
    <3>1. PICK b \in Nat : r.at = b + Header /\ Kept(heap, h, b) /\ Given(heap, h, b, size)
      BY <1>5, <2>2
    <3>2. r.at - Header = b /\ Holds(h, r.at, size) /\ b \notin Used(heap)
      BY <3>1, GivenHolds DEF Given
    <3> QED BY <2>2, <3>1, <3>2
  <2> QED BY <2>1, <2>2
<1>8. /\ \A g \in Tags : Alive(g) =>
           /\ Holds(h, live[g].at, live[g].size) /\ live[g].at # none
           /\ \A a \in Bytes(live[g].at, live[g].size) : w[a] = g
      /\ \A u \in Threads : moving[u].pc = "copy" =>
           Holds(h, moving[u].to, moving[u].size) /\ moving[u].to # none
  BY <1>5, <1>6, <1>7, MallocLeaves
<1>9. \A a \in Arena : mem[a] \in {0} \cup Tags
  BY <1>0 DEF StateType
<1>10. w \in [Arena -> {0} \cup Tags]
  BY <1>6, <1>9, WrittenType
<1>11. LiveHeld' /\ LiveApart' /\ LiveData' /\ HeapInv'
  BY <1>0, <1>4, <1>5, <1>6, <1>8 DEF IInv, LiveHeld, LiveApart, LiveData, Alive, HeapInv
<1>12. \A u \in Threads \ {t} : moving'[u] = moving[u]
  BY <1>0, <1>4 DEF StateType
<1>13. CASE r.at = Null
  <2>1. moving'[t] = NotMoving
    BY <1>0, <1>4, <1>13 DEF StateType
  <2>2. moving'[t].pc = "idle" /\ moving'[t].tag = 0
    BY <2>1 DEF NotMoving
  <2>3. StateType'
    <3>1. NotMoving \in [pc : {"idle", "allocate", "copy"}, tag : {0} \cup Tags,
                         size : 0 .. WordMax, copy : 0 .. WordMax, to : 0 .. Limit]
      BY Constants DEF NotMoving, Null
    <3> QED BY <1>0, <1>4, <1>6, <1>10, <1>13, <3>1 DEF StateType
  <2>4. MovingHeld'
    BY <1>0, <1>4, <1>8, <1>12, <2>2 DEF IInv, MovingHeld, Alive
  <2>5. MovingApart'
    <3>1. 0 \notin Tags
      BY Constants
    <3> QED BY <1>12, <2>2, <3>1 DEF IInv, MovingApart, MovingHeld
  <2>6. Claimed'
    BY <1>0, <1>4, <1>7, <1>12, <1>13 DEF IInv, Claimed, Alive
  <2> QED BY <1>11, <2>3, <2>4, <2>5, <2>6 DEF IInv
<1>14. CASE r.at # Null
  <2>1. PICK at : at = r.at /\ at - Header = b /\ Holds(h, at, size) /\ at = b + Header
                  /\ at # Null
    BY <1>7, <1>14
  <2>2. at \in 0 .. Limit
    BY <1>5, <2>1, HoldsBounds, Constants
  <2>3. PICK n : n = [m EXCEPT !.pc = "copy", !.to = at]
    OBVIOUS
  <2>4. /\ n.pc = "copy" /\ n.to = at /\ n.tag = m.tag /\ n.size = size /\ n.copy = m.copy
        /\ n \in [pc : {"idle", "allocate", "copy"}, tag : {0} \cup Tags,
                  size : 0 .. WordMax, copy : 0 .. WordMax, to : 0 .. Limit]
    BY <1>2, <1>3, <2>2, <2>3
  <2>5. moving' = [moving EXCEPT ![t] = n]
    BY <1>4, <1>14, <2>1, <2>3
  <2>6. moving'[t] = n
    BY <1>0, <2>5 DEF StateType
  <2>7. StateType'
    <3>1. mem' = w /\ live' = live
      BY <1>0, <1>4, <1>6
    <3>2. moving' \in [Threads -> [pc : {"idle", "allocate", "copy"}, tag : {0} \cup Tags,
                                   size : 0 .. WordMax, copy : 0 .. WordMax, to : 0 .. Limit]]
      BY <1>0, <2>4, <2>5 DEF StateType
    <3> QED BY <1>0, <1>10, <3>1, <3>2 DEF StateType
  <2>8. \A g \in Tags : live[g].at # at
    <3> SUFFICES ASSUME NEW g \in Tags, live[g].at = at PROVE FALSE
      OBVIOUS
    <3>1. Holds(heap, at, live[g].size)
      BY <2>1 DEF IInv, LiveHeld, Alive
    <3> QED BY <1>7, <2>1, <3>1 DEF Holds
  <2>9. \A u \in Threads : moving[u].pc = "copy" => moving[u].to # at
    <3> SUFFICES ASSUME NEW u \in Threads, moving[u].pc = "copy", moving[u].to = at PROVE FALSE
      OBVIOUS
    <3>1. Holds(heap, at, moving[u].size)
      BY DEF IInv, MovingHeld
    <3> QED BY <1>7, <2>1, <3>1 DEF Holds
  <2>10. MovingHeld'
    <3> SUFFICES ASSUME NEW u \in Threads
                 PROVE  /\ moving'[u].pc = "idle" => moving'[u].tag = 0
                        /\ moving'[u].pc # "idle" =>
                             /\ moving'[u].tag \in Tags /\ live[moving'[u].tag].at # Null
                             /\ moving'[u].size >= 1 /\ moving'[u].copy <= moving'[u].size
                             /\ moving'[u].copy <= live[moving'[u].tag].size
                        /\ moving'[u].pc = "copy" =>
                             /\ moving'[u].to # Null /\ Holds(h, moving'[u].to, moving'[u].size)
                             /\ \A k \in Tags : live[k].at # moving'[u].to
      BY <1>0, <1>4 DEF MovingHeld, Alive
    <3>1. CASE u = t
      BY <1>2, <1>3, <2>1, <2>4, <2>6, <2>8, <3>1 DEF Alive
    <3>2. CASE u # t
      BY <1>8, <1>12, <3>2 DEF IInv, MovingHeld, Alive
    <3> QED BY <3>1, <3>2
  <2>11. MovingApart'
    <3> SUFFICES ASSUME NEW u \in Threads, NEW v \in Threads, u # v
                 PROVE  /\ moving'[u].pc # "idle" => moving'[u].tag # moving'[v].tag
                        /\ moving'[u].pc = "copy" /\ moving'[v].pc = "copy" =>
                             moving'[u].to # moving'[v].to
      BY DEF MovingApart
    <3>1. moving[t].pc # "idle" /\ moving[t].tag = n.tag
      BY <1>0, <1>1, <2>4
    <3>2. CASE u # t /\ v # t
      BY <1>12, <3>2 DEF IInv, MovingApart
    <3>3. CASE u = t
      <4>1. moving'[v] = moving[v] /\ moving[t].tag # moving[v].tag
        BY <1>12, <3>1, <3>3 DEF IInv, MovingApart
      <4> QED BY <2>4, <2>6, <2>9, <3>1, <3>3, <4>1
    <3>4. CASE v = t
      <4>1. moving'[u] = moving[u] /\ (moving[u].pc # "idle" => moving[t].tag # moving[u].tag)
        BY <1>12, <3>1, <3>4 DEF IInv, MovingApart
      <4> QED BY <2>4, <2>6, <2>9, <3>1, <3>4, <4>1
    <3> QED BY <3>2, <3>3, <3>4
  <2>12. Claimed'
    <3> SUFFICES ASSUME NEW c \in Used(h)
                 PROVE  \/ \E k \in Tags : live[k].at # Null /\ live[k].at = c + Header
                        \/ \E u \in Threads : moving'[u].pc = "copy" /\ moving'[u].to = c + Header
      BY <1>0, <1>4 DEF Claimed, Alive
    <3>1. CASE c = b
      BY <2>1, <2>4, <2>6, <3>1
    <3>2. CASE c # b
      <4>1. c \in Used(heap)
        BY <1>7, <3>2 DEF Kept
      <4>2. \A u \in Threads : moving[u].pc = "copy" => moving'[u] = moving[u]
        BY <1>0, <1>12
      <4> QED BY <4>1, <4>2 DEF IInv, Claimed, Alive
    <3> QED BY <3>1, <3>2
  <2> QED BY <1>11, <2>7, <2>10, <2>11, <2>12 DEF IInv
<1> QED BY <1>13, <1>14

-----------------------------------------------------------------------------
(* realloc's first critical section.                                       *)
Least2(m, n) == IF m < n THEN m ELSE n

LEMMA ReallocIs ==
    ASSUME NEW t, NEW g, NEW size, NEW granted, CallRealloc(t, g, size, granted)
    PROVE  \E resized :
             /\ resized = InPlace(heap, live[g].at - Header, AlignSize(size), granted)
             /\ moving[t].pc = "idle" /\ Alive(g) /\ g \notin Moving /\ AlignSize(size) # 0
             /\ \/ /\ resized.block[live[g].at - Header].size >= AlignSize(size)
                   /\ heap' = Request(resized, live[g].at - Header, size)
                   /\ mem' = Written(heap', Forgotten(mem, live[g].at + size, live[g].size - size),
                                     live[g].at + Least2(size, live[g].size),
                                     size - Least2(size, live[g].size), g)
                   /\ live' = [live EXCEPT ![g].size = size]
                   /\ moving' = moving
                \/ /\ moving' = [moving EXCEPT
                        ![t] = [pc |-> "allocate", tag |-> g, size |-> size, to |-> Null,
                                copy |-> Least2(heap.block[live[g].at - Header].requested, size)]]
                   /\ heap' = heap /\ mem' = mem /\ live' = live
<1>1. PICK resized : resized = InPlace(heap, live[g].at - Header, AlignSize(size), granted)
  OBVIOUS
<1> QED BY <1>1 DEF CallRealloc, Least2, Alive

LEMMA StartMove ==
    ASSUME IInv, NEW t \in Threads, NEW g \in Tags, NEW size \in 1 .. WordMax,
           moving[t].pc = "idle", Alive(g), g \notin Moving,
           moving' = [moving EXCEPT
             ![t] = [pc |-> "allocate", tag |-> g, size |-> size, to |-> Null,
                     copy |-> Least2(heap.block[live[g].at - Header].requested, size)]],
           heap' = heap, mem' = mem, live' = live
    PROVE  IInv'
<1>0. StateType
  BY DEF IInv
<1>1. PICK copy : copy = Least2(heap.block[live[g].at - Header].requested, size)
  OBVIOUS
<1>2. copy \in 0 .. WordMax /\ copy <= size /\ copy <= live[g].size
  <2>1. heap.block[live[g].at - Header].requested = live[g].size /\ live[g].size \in Nat
    BY <1>0 DEF IInv, LiveHeld, Holds, StateType
  <2> QED BY <1>1, <2>1, Constants DEF Least2
<1>3. PICK n : n = [pc |-> "allocate", tag |-> g, size |-> size, to |-> Null, copy |-> copy]
  OBVIOUS
<1>4. /\ n.pc = "allocate" /\ n.tag = g /\ n.size = size /\ n.copy = copy
      /\ n \in [pc : {"idle", "allocate", "copy"}, tag : {0} \cup Tags,
                size : 0 .. WordMax, copy : 0 .. WordMax, to : 0 .. Limit]
  BY <1>2, <1>3, Constants DEF Null
<1>5. moving' = [moving EXCEPT ![t] = n]
  BY <1>1, <1>3
<1>6. moving'[t] = n /\ \A u \in Threads \ {t} : moving'[u] = moving[u]
  BY <1>0, <1>5 DEF StateType
<1>7. StateType'
  BY <1>0, <1>4, <1>5 DEF StateType
<1>8. HeapInv' /\ LiveHeld' /\ LiveApart' /\ LiveData'
  BY DEF IInv, HeapInv, LiveHeld, LiveApart, LiveData, Alive
<1>9. MovingHeld'
  <2> SUFFICES ASSUME NEW u \in Threads
               PROVE  /\ moving'[u].pc = "idle" => moving'[u].tag = 0
                      /\ moving'[u].pc # "idle" =>
                           /\ moving'[u].tag \in Tags /\ live[moving'[u].tag].at # Null
                           /\ moving'[u].size >= 1 /\ moving'[u].copy <= moving'[u].size
                           /\ moving'[u].copy <= live[moving'[u].tag].size
                      /\ moving'[u].pc = "copy" =>
                           /\ moving'[u].to # Null /\ Holds(heap, moving'[u].to, moving'[u].size)
                           /\ \A k \in Tags : live[k].at # moving'[u].to
    BY DEF MovingHeld, Alive
  <2>1. CASE u = t
    BY <1>2, <1>4, <1>6, <2>1 DEF Alive
  <2>2. CASE u # t
    BY <1>6, <2>2 DEF IInv, MovingHeld, Alive
  <2> QED BY <2>1, <2>2
<1>10. MovingApart'
  <2>1. \A u \in Threads : moving[u].tag # g
    BY DEF Moving
  <2> QED BY <1>4, <1>6, <2>1 DEF IInv, MovingApart
<1>11. Claimed'
  <2>1. \A u \in Threads : moving[u].pc = "copy" => moving'[u] = moving[u]
    BY <1>6
  <2> QED BY <2>1 DEF IInv, Claimed, Alive
<1> QED BY <1>7, <1>8, <1>9, <1>10, <1>11 DEF IInv

(* Resized in place: the block stays the allocation's, the bytes that both *)
(* sizes have stay as they are, and the program fills the new ones.        *)
LEMMA ResizeStep ==
    ASSUME IInv, NEW t \in Threads, NEW g \in Tags, NEW size \in 1 .. WordMax,
           Alive(g), g \notin Moving,
           NEW granted, AlignSize(size) # 0,
           NEW resized, resized = InPlace(heap, live[g].at - Header, AlignSize(size), granted),
           resized.block[live[g].at - Header].size >= AlignSize(size),
           heap' = Request(resized, live[g].at - Header, size),
           mem' = Written(heap', Forgotten(mem, live[g].at + size, live[g].size - size),
                          live[g].at + Least2(size, live[g].size),
                          size - Least2(size, live[g].size), g),
           live' = [live EXCEPT ![g].size = size],
           moving' = moving
    PROVE  IInv'
<1>0. StateType /\ Chain(heap) /\ Clashes(heap) = {}
  BY DEF IInv, HeapInv
<1>1. PICK at, old, b, aligned : /\ at = live[g].at /\ old = live[g].size /\ b = at - Header
                                 /\ aligned = AlignSize(size)
  OBVIOUS
<1>2. Holds(heap, at, old) /\ at \in Nat /\ old \in Nat /\ b \in Used(heap) /\ at # Null
  BY <1>0, <1>1 DEF IInv, LiveHeld, Holds, StateType, Alive
<1>3. aligned \in Nat /\ aligned >= Align /\ aligned % Align = 0 /\ aligned >= size
  BY <1>1, Aligned, Constants
<1>4. Resized(heap, resized, b)
  BY <1>0, <1>1, <1>2, <1>3, InPlaceFacts
<1>5. PICK h : h = Request(resized, b, size)
  OBVIOUS
<1>6. /\ Chain(h) /\ Clashes(h) = {} /\ Kept(heap, h, b) /\ b \in Used(h)
      /\ Holds(h, at, size)
  <2>1. Chain(resized) /\ Clashes(resized) = {} /\ Kept(heap, resized, b) /\ b \in Blocks(resized)
    BY <1>4 DEF Resized, Used
  <2>2. size \in 0 .. WordMax
    BY Constants
  <2>3. /\ Chain(h) /\ Kept(resized, h, b) /\ b \in Used(h)
        /\ h.block[b].requested = size /\ h.block[b].size = resized.block[b].size
        /\ Clashes(h) \subseteq Clashes(resized) \ {b}
    BY <1>5, <2>1, <2>2, RequestFacts
  <2>4. Kept(heap, h, b)
    BY <2>1, <2>3, KeptThrough
  <2>5. size <= h.block[b].size
    <3>1. resized.block[b].size \in Nat /\ resized.block[b].size >= aligned
      BY <1>1, <2>1, BlockFacts
    <3> QED BY <1>3, <2>3, <3>1
  <2> QED BY <1>1, <1>2, <2>1, <2>3, <2>4, <2>5 DEF Holds
<1>7. PICK least, f, w : /\ least = Least2(size, old)
                         /\ f = Forgotten(mem, at + size, old - size)
                         /\ w = Written(h, f, at + least, size - least, g)
  OBVIOUS
<1>8. heap' = h /\ mem' = w
  BY <1>1, <1>5, <1>7
<1>9. least \in Nat /\ least <= size /\ least <= old /\ (least = size \/ least = old)
  BY <1>2, <1>7 DEF Least2
<1>10. \A a \in Arena : mem[a] \in {0} \cup Tags
  BY <1>0 DEF StateType
<1>11. /\ \A a \in Arena : f[a] \in {0} \cup Tags
       /\ \A a \in Arena : a \notin Bytes(at + size, old - size) => f[a] = mem[a]
  BY <1>7, <1>10, ForgottenFacts
<1>12. w \in [Arena -> {0} \cup Tags]
  BY <1>7, <1>11, WrittenType
<1>13. /\ live'[g].at = at /\ live'[g].size = size
       /\ \A k \in Tags \ {g} : live'[k] = live[k]
       /\ live' \in [Tags -> [at : 0 .. Limit, size : Nat]]
  <2>1. size \in Nat
    BY Constants
  <2>2. live[g] \in [at : 0 .. Limit, size : Nat]
    BY <1>0 DEF StateType
  <2>3. PICK n : n = [live[g] EXCEPT !.size = size]
    OBVIOUS
  <2>4. n.at = at /\ n.size = size /\ n \in [at : 0 .. Limit, size : Nat]
    BY <1>1, <2>1, <2>2, <2>3
  <2>5. live' = [live EXCEPT ![g] = n]
    BY <2>3
  <2> QED BY <1>0, <2>4, <2>5 DEF StateType
<1>14. StateType' /\ HeapInv'
  BY <1>0, <1>6, <1>8, <1>12, <1>13 DEF StateType, HeapInv
<1>15. ASSUME NEW to, NEW z, Holds(heap, to, z), to # at
       PROVE  Holds(h, to, z)
  <2>1. to - Header # b
    BY <1>1, <1>2, <1>15, SameBlock DEF Holds
  <2> QED BY <1>6, <1>15, <2>1, StillHolds
<1>16. \A k \in Tags : Alive(k) /\ k # g => live[k].at # at
  BY <1>1 DEF IInv, LiveApart
<1>17. LiveHeld'
  BY <1>6, <1>8, <1>13, <1>15, <1>16 DEF IInv, LiveHeld, Alive
<1>18. LiveApart'
  BY <1>1, <1>13 DEF IInv, LiveApart, Alive
<1>19. ASSUME NEW a \in Bytes(at, size) PROVE w[a] = g
  <2>1. a \in Arena /\ \A c \in Blocks(h) : a \notin Bytes(c, Header)
    BY <1>6, Payload, Constants
  <2>2. a \in Nat /\ a >= at /\ a < at + size
    BY <1>2, Constants DEF Bytes
  <2>3. CASE a >= at + least
    <3>1. a \in Bytes(at + least, size - least) /\ at + least # Null
      <4>1. a <= (at + least) + (size - least) - 1
        BY <1>2, <1>9, <2>2, Constants
      <4> QED BY <1>2, <1>9, <2>2, <2>3, <4>1, Constants DEF Bytes, Null
    <3> QED BY <1>7, <2>1, <3>1, WrittenFacts
  <2>4. CASE a < at + least
    <3>1. a \notin Bytes(at + least, size - least)
      BY <1>2, <1>9, <2>2, <2>4, Constants DEF Bytes
    <3>2. w[a] = f[a]
      BY <1>7, <2>1, <3>1, WrittenFacts
    <3>3. a \notin Bytes(at + size, old - size)
      BY <1>2, <2>2, Constants DEF Bytes
    <3>4. f[a] = mem[a]
      BY <1>11, <2>1, <3>3
    <3>5. a \in Bytes(at, old)
      BY <1>2, <1>9, <2>2, <2>4 DEF Bytes
    <3>6. mem[a] = g
      BY <1>1, <3>5 DEF IInv, LiveData
    <3> QED BY <3>2, <3>4, <3>6
  <2> QED BY <1>2, <1>9, <2>2, <2>3, <2>4
<1>20. ASSUME NEW k \in Tags, Alive(k), k # g, NEW a \in Bytes(live[k].at, live[k].size)
       PROVE  w[a] = k
  <2>1. Holds(heap, live[k].at, live[k].size) /\ live[k].at # at /\ live[k].size \in Nat
    BY <1>0, <1>16, <1>20 DEF IInv, LiveHeld, StateType
  <2>2. Holds(h, live[k].at, live[k].size)
    BY <1>15, <2>1
  <2>3. /\ a \in Arena /\ \A c \in Blocks(h) : a \notin Bytes(c, Header)
        /\ a \notin Bytes(at, size)
    BY <1>6, <2>1, <2>2, Payload, Constants
  <2>4. a \notin Bytes(at, old)
    BY <1>0, <1>2, <2>1, Payload
  <2>5. a \in Nat
    BY <2>3 DEF Arena
  <2>6. a \notin Bytes(at + least, size - least)
    BY <1>2, <1>9, <2>3, <2>5, Constants DEF Bytes
  <2>7. a \notin Bytes(at + size, old - size)
    BY <1>2, <2>4, <2>5, Constants DEF Bytes
  <2>8. w[a] = f[a] /\ f[a] = mem[a]
    BY <1>7, <1>11, <2>3, <2>6, <2>7, WrittenFacts
  <2> QED BY <1>20, <2>8 DEF IInv, LiveData
<1>21. LiveData'
  BY <1>8, <1>13, <1>19, <1>20 DEF LiveData, Alive
<1>22. MovingHeld'
  <2> SUFFICES ASSUME NEW u \in Threads
               PROVE  /\ moving[u].pc = "idle" => moving[u].tag = 0
                      /\ moving[u].pc # "idle" =>
                           /\ moving[u].tag \in Tags /\ live'[moving[u].tag].at # Null
                           /\ moving[u].size >= 1 /\ moving[u].copy <= moving[u].size
                           /\ moving[u].copy <= live'[moving[u].tag].size
                      /\ moving[u].pc = "copy" =>
                           /\ moving[u].to # Null /\ Holds(h, moving[u].to, moving[u].size)
                           /\ \A k \in Tags : live'[k].at # moving[u].to
    BY <1>8 DEF MovingHeld, Alive
  <2>1. moving[u].tag # g
    BY DEF Moving
  <2>2. \A k \in Tags : live'[k].at = live[k].at
    BY <1>1, <1>13
  <2>3. CASE moving[u].pc = "copy"
    <3>1. /\ moving[u].to # Null /\ Holds(heap, moving[u].to, moving[u].size)
          /\ \A k \in Tags : live[k].at # moving[u].to
      BY <2>3 DEF IInv, MovingHeld
    <3>2. Holds(h, moving[u].to, moving[u].size)
      BY <1>1, <1>15, <3>1
    <3> QED BY <1>13, <2>1, <2>2, <2>3, <3>1, <3>2 DEF IInv, MovingHeld, Alive
  <2>4. CASE moving[u].pc # "copy"
    BY <1>13, <2>1, <2>4 DEF IInv, MovingHeld, Alive
  <2> QED BY <2>3, <2>4
<1>23. MovingApart'
  BY DEF IInv, MovingApart
<1>24. Claimed'
  <2>1. \A k \in Tags : live'[k].at = live[k].at
    BY <1>1, <1>13
  <2>2. Used(h) = Used(heap)
    BY <1>2, <1>6 DEF Kept
  <2> QED BY <1>8, <2>1, <2>2 DEF IInv, Claimed, Alive
<1> QED BY <1>14, <1>17, <1>18, <1>21, <1>22, <1>23, <1>24 DEF IInv

LEMMA CallReallocStep ==
    ASSUME IInv, NEW t \in Threads, NEW g \in Tags, NEW size \in Sizes, NEW granted \in BOOLEAN,
           CallRealloc(t, g, size, granted)
    PROVE  IInv'
<1>1. size \in 1 .. WordMax
  BY Constants
<1> QED BY <1>1, ReallocIs, StartMove, ResizeStep

-----------------------------------------------------------------------------
(* memcpy and free(ptr): the bytes both sizes have are in the replacement, *)
(* which becomes the allocation, before the old block is given up.         *)
LEMMA CopyAndFreeStep ==
    ASSUME IInv, NEW t \in Threads, CopyAndFree(t)
    PROVE  IInv'
<1>0. StateType /\ Chain(heap) /\ Clashes(heap) = {} /\ moving[t].pc = "copy"
  BY DEF IInv, HeapInv, CopyAndFree
<1>1. PICK m, g, at, old, to, size, copy :
        /\ m = moving[t] /\ g = m.tag /\ at = live[g].at /\ old = live[g].size
        /\ to = m.to /\ size = m.size /\ copy = m.copy
  OBVIOUS
<1>2. /\ g \in Tags /\ Alive(g) /\ copy <= size /\ copy <= old
      /\ to # Null /\ Holds(heap, to, size)
      /\ \A k \in Tags : live[k].at # to
  BY <1>0, <1>1 DEF IInv, MovingHeld
<1>3. /\ size \in Nat /\ copy \in Nat /\ to \in 0 .. Limit /\ to \in Nat
      /\ at \in Nat /\ old \in Nat /\ Holds(heap, at, old) /\ at # Null /\ at # to
  BY <1>0, <1>1, <1>2, Constants DEF IInv, LiveHeld, StateType, Alive
<1>4. PICK h, copied, f, w :
        /\ h = Freed(heap, at)
        /\ copied = [a \in Arena |->
                       IF a \in Bytes(to, copy) THEN mem[at + (a - to)] ELSE mem[a]]
        /\ f = Forgotten(copied, at, old)
        /\ w = Written(h, f, to + copy, size - copy, g)
  OBVIOUS
<1>5. /\ heap' = h /\ mem' = w
      /\ live' = [live EXCEPT ![g] = [at |-> to, size |-> size]]
      /\ moving' = [moving EXCEPT ![t] = NotMoving]
  BY <1>1, <1>4 DEF CopyAndFree
<1>6. /\ Chain(h) /\ Clashes(h) = {} /\ Used(h) = Used(heap) \ {at - Header}
      /\ \A o, z : Holds(heap, o, z) /\ z \in Nat /\ o # at =>
           /\ Holds(h, o, z)
           /\ \A a \in Bytes(o, z) : a \in Arena /\ a \notin Bytes(at, old)
  BY <1>3, <1>4, FreedLeaves
<1>7. Holds(h, to, size) /\ \A a \in Bytes(to, size) : a \in Arena /\ a \notin Bytes(at, old)
  BY <1>2, <1>3, <1>6
<1>8. \A a \in Arena : mem[a] \in {0} \cup Tags
  BY <1>0 DEF StateType
<1>9. ASSUME NEW a \in Bytes(to, copy) PROVE mem[at + (a - to)] = g
  <2>1. PICK c : c = at + (a - to)
    OBVIOUS
  <2>2. c \in Bytes(at, old)
    BY <1>2, <1>3, <2>1 DEF Bytes
  <2>3. mem[c] = g
    BY <1>1, <1>2, <2>2 DEF IInv, LiveData
  <2> QED BY <2>1, <2>3
<1>10. /\ \A a \in Arena : copied[a] \in {0} \cup Tags
       /\ \A a \in Arena : a \in Bytes(to, copy) => copied[a] = g
       /\ \A a \in Arena : a \notin Bytes(to, copy) => copied[a] = mem[a]
  BY <1>2, <1>4, <1>8, <1>9
<1>11. /\ \A a \in Arena : f[a] \in {0} \cup Tags
       /\ \A a \in Arena : a \notin Bytes(at, old) => f[a] = copied[a]
  BY <1>4, <1>10, ForgottenFacts
<1>12. w \in [Arena -> {0} \cup Tags]
  BY <1>2, <1>4, <1>11, WrittenType
<1>13. /\ live'[g].at = to /\ live'[g].size = size
       /\ \A k \in Tags \ {g} : live'[k] = live[k]
       /\ live' \in [Tags -> [at : 0 .. Limit, size : Nat]]
  BY <1>0, <1>2, <1>3, <1>5 DEF StateType
<1>14. /\ moving'[t].pc = "idle" /\ moving'[t].tag = 0
       /\ \A u \in Threads \ {t} : moving'[u] = moving[u]
       /\ moving' \in [Threads -> [pc : {"idle", "allocate", "copy"}, tag : {0} \cup Tags,
                                   size : 0 .. WordMax, copy : 0 .. WordMax, to : 0 .. Limit]]
  <2>1. /\ NotMoving \in [pc : {"idle", "allocate", "copy"}, tag : {0} \cup Tags,
                          size : 0 .. WordMax, copy : 0 .. WordMax, to : 0 .. Limit]
        /\ NotMoving.pc = "idle" /\ NotMoving.tag = 0
    BY Constants DEF NotMoving, Null
  <2> QED BY <1>0, <1>5, <2>1 DEF StateType
<1>15. StateType' /\ HeapInv'
  BY <1>5, <1>6, <1>12, <1>13, <1>14 DEF StateType, HeapInv
<1>16. \A k \in Tags : Alive(k) /\ k # g => live[k].at # at
  BY <1>1, <1>2 DEF IInv, LiveApart
<1>17. ASSUME NEW k \in Tags, Alive(k), k # g
       PROVE  /\ Holds(heap, live[k].at, live[k].size) /\ live[k].size \in Nat
              /\ live[k].at # at /\ live[k].at # to
              /\ Holds(h, live[k].at, live[k].size)
  <2>1. /\ Holds(heap, live[k].at, live[k].size) /\ live[k].size \in Nat
        /\ live[k].at # at /\ live[k].at # to
    BY <1>0, <1>2, <1>16, <1>17 DEF IInv, LiveHeld, StateType
  <2> QED BY <1>6, <2>1
<1>18. LiveHeld'
  BY <1>5, <1>7, <1>13, <1>17 DEF LiveHeld, Alive
<1>19. LiveApart'
  BY <1>2, <1>13 DEF IInv, LiveApart, Alive
<1>20. ASSUME NEW a \in Bytes(to, size) PROVE w[a] = g
  <2>1. a \in Arena /\ (\A c \in Blocks(h) : a \notin Bytes(c, Header)) /\ a \notin Bytes(at, old)
    BY <1>3, <1>6, <1>7, Payload
  <2>2. a \in Nat /\ a >= to /\ a <= to + size - 1
    BY <1>3, <2>1 DEF Bytes, Arena
  <2>3. CASE a >= to + copy
    <3>1. a \in Bytes(to + copy, size - copy) /\ to + copy # Null
      BY <1>2, <1>3, <2>2, <2>3 DEF Bytes, Null
    <3> QED BY <1>4, <2>1, <3>1, WrittenFacts
  <2>4. CASE a < to + copy
    <3>1. a \notin Bytes(to + copy, size - copy) /\ a \in Bytes(to, copy)
      BY <1>2, <1>3, <2>2, <2>4 DEF Bytes
    <3>2. w[a] = f[a] /\ f[a] = copied[a] /\ copied[a] = g
      BY <1>4, <1>10, <1>11, <2>1, <3>1, WrittenFacts
    <3> QED BY <3>2
  <2> QED BY <1>3, <2>2, <2>3, <2>4
<1>21. ASSUME NEW k \in Tags, Alive(k), k # g, NEW a \in Bytes(live[k].at, live[k].size)
       PROVE  w[a] = k
  <2>1. /\ Holds(heap, live[k].at, live[k].size) /\ live[k].size \in Nat
        /\ live[k].at # at /\ live[k].at # to
        /\ Holds(h, live[k].at, live[k].size)
    BY <1>17, <1>21
  <2>2. a \in Arena /\ (\A c \in Blocks(h) : a \notin Bytes(c, Header)) /\ a \notin Bytes(to, size)
    BY <1>3, <1>6, <1>7, <2>1, Payload
  <2>3. a \notin Bytes(at, old)
    BY <1>6, <2>1
  <2>4. a \in Nat
    BY <2>2 DEF Arena
  <2>5. a \notin Bytes(to + copy, size - copy) /\ a \notin Bytes(to, copy)
    BY <1>2, <1>3, <2>2, <2>4 DEF Bytes
  <2>6. w[a] = f[a] /\ f[a] = copied[a] /\ copied[a] = mem[a]
    BY <1>4, <1>10, <1>11, <2>2, <2>3, <2>5, WrittenFacts
  <2> QED BY <1>21, <2>6 DEF IInv, LiveData
<1>22. LiveData'
  BY <1>5, <1>13, <1>20, <1>21 DEF LiveData, Alive
<1>23. MovingHeld'
  <2> SUFFICES ASSUME NEW u \in Threads
               PROVE  /\ moving'[u].pc = "idle" => moving'[u].tag = 0
                      /\ moving'[u].pc # "idle" =>
                           /\ moving'[u].tag \in Tags /\ live'[moving'[u].tag].at # Null
                           /\ moving'[u].size >= 1 /\ moving'[u].copy <= moving'[u].size
                           /\ moving'[u].copy <= live'[moving'[u].tag].size
                      /\ moving'[u].pc = "copy" =>
                           /\ moving'[u].to # Null /\ Holds(h, moving'[u].to, moving'[u].size)
                           /\ \A k \in Tags : live'[k].at # moving'[u].to
    BY <1>5 DEF MovingHeld, Alive
  <2>1. CASE u = t
    BY <1>14, <2>1
  <2>2. CASE u # t
    <3>1. moving'[u] = moving[u] /\ moving[u].tag # g
      BY <1>0, <1>1, <1>14, <2>2 DEF IInv, MovingApart
    <3>2. CASE moving[u].pc = "copy"
      <4>1. /\ moving[u].to # Null /\ Holds(heap, moving[u].to, moving[u].size)
            /\ \A k \in Tags : live[k].at # moving[u].to
        BY <3>2 DEF IInv, MovingHeld
      <4>2. moving[u].to # to /\ moving[u].to # at /\ moving[u].size \in Nat
        BY <1>0, <1>1, <1>2, <2>2, <3>2, <4>1, Constants DEF IInv, MovingApart, StateType
      <4>3. Holds(h, moving[u].to, moving[u].size)
        BY <1>6, <4>1, <4>2
      <4>4. \A k \in Tags : live'[k].at # moving[u].to
        BY <1>13, <4>1, <4>2
      <4> QED BY <1>13, <3>1, <3>2, <4>1, <4>3, <4>4 DEF IInv, MovingHeld, Alive
    <3>3. CASE moving[u].pc # "copy"
      BY <1>13, <3>1, <3>3 DEF IInv, MovingHeld, Alive
    <3> QED BY <3>2, <3>3
  <2> QED BY <2>1, <2>2
<1>24. MovingApart'
  <2>1. \A u \in Threads \ {t} : moving'[u].pc # "idle" => moving'[u].tag # 0
    BY <1>14, Constants DEF IInv, MovingHeld
  <2> QED BY <1>14, <2>1 DEF IInv, MovingApart
<1>25. Claimed'
  <2> SUFFICES ASSUME NEW c \in Used(h)
               PROVE  \/ \E k \in Tags : live'[k].at # Null /\ live'[k].at = c + Header
                      \/ \E u \in Threads : moving'[u].pc = "copy" /\ moving'[u].to = c + Header
    BY <1>5 DEF Claimed, Alive
  <2>1. c \in Used(heap) /\ c # at - Header
    BY <1>6
  <2>2. c \in Nat /\ (c + Header) - Header = c
    <3>1. c \in Nat
      BY <1>0, <2>1, BlockFacts DEF Used
    <3> QED BY <3>1, Constants
  <2>3. CASE \E u \in Threads : moving[u].pc = "copy" /\ moving[u].to = c + Header
    <3>1. PICK u \in Threads : moving[u].pc = "copy" /\ moving[u].to = c + Header
      BY <2>3
    <3>2. CASE u = t
      BY <1>1, <1>2, <1>13, <3>1, <3>2
    <3>3. CASE u # t
      BY <1>14, <3>1, <3>3
    <3> QED BY <3>2, <3>3
  <2>4. CASE \E k \in Tags : Alive(k) /\ live[k].at = c + Header
    <3>1. PICK k \in Tags : Alive(k) /\ live[k].at = c + Header
      BY <2>4
    <3>2. k # g
      BY <1>1, <2>1, <2>2, <3>1
    <3> QED BY <1>13, <3>1, <3>2 DEF Alive
  <2> QED BY <2>1, <2>3, <2>4 DEF IInv, Claimed
<1> QED BY <1>15, <1>18, <1>19, <1>22, <1>23, <1>24, <1>25 DEF IInv

-----------------------------------------------------------------------------
(* The inductive invariant of the allocator: malloc, calloc, realloc and   *)
(* free keep the list a tiling, and owners of the used blocks apart.       *)
THEOREM Invariant == Spec => []IInv
<1>1. Init => IInv
  BY InitInv
<1>2. ASSUME IInv, [Next]_vars PROVE IInv'
  <2>1. CASE UNCHANGED vars
    <3>1. heap' = heap /\ mem' = mem /\ live' = live /\ moving' = moving
      BY <2>1 DEF vars
    <3>2. StateType' /\ HeapInv'
      BY <1>2, <3>1 DEF IInv, StateType, HeapInv
    <3>3. LiveHeld' /\ LiveApart' /\ LiveData'
      BY <1>2, <3>1 DEF IInv, LiveHeld, LiveApart, LiveData, Alive
    <3>4. MovingHeld' /\ MovingApart' /\ Claimed'
      BY <1>2, <3>1 DEF IInv, MovingHeld, MovingApart, Claimed, Alive
    <3> QED BY <3>2, <3>3, <3>4 DEF IInv
  <2>2. ASSUME NEW t \in Threads, NEW g \in Tags, CallFree(t, g) PROVE IInv'
    BY <1>2, <2>2, CallFreeStep
  <2>3. ASSUME NEW t \in Threads, CopyAndFree(t) PROVE IInv'
    BY <1>2, <2>3, CopyAndFreeStep
  <2>4. ASSUME NEW t \in Threads, NEW granted \in BOOLEAN, NEW size \in Sizes,
               CallMalloc(t, size, granted)
        PROVE  IInv'
    BY <1>2, <2>4, CallMallocStep
  <2>5. ASSUME NEW t \in Threads, NEW granted \in BOOLEAN, NEW p \in Arrays,
               CallCalloc(t, p[1], p[2], granted)
        PROVE  IInv'
    <3>1. p[1] \in 1 .. WordMax /\ p[2] \in 1 .. WordMax
      BY Constants
    <3> QED BY <1>2, <2>5, <3>1, CallCallocStep
  <2>6. ASSUME NEW t \in Threads, NEW granted \in BOOLEAN, NEW g \in Tags, NEW size \in Sizes,
               CallRealloc(t, g, size, granted)
        PROVE  IInv'
    BY <1>2, <2>6, CallReallocStep
  <2>7. ASSUME NEW t \in Threads, NEW granted \in BOOLEAN, Replace(t, granted) PROVE IInv'
    BY <1>2, <2>7, ReplaceStep
  <2> QED BY <1>2, <2>1, <2>2, <2>3, <2>4, <2>5, <2>6, <2>7 DEF Next
<1> QED BY <1>1, <1>2, PTL DEF Spec

(* heap.c's list of blocks tiles the arena from the aligned break to       *)
(* heap_end and has no two free neighbours, whatever split_block,          *)
(* merge_with_next and grow_heap have done to it.                          *)
THEOREM HeapIsWellFormed == Spec => []HeapWellFormed
BY Invariant, WellFormed, PTL

(* realloc, alone and against other threads' calls, and free keep every    *)
(* byte of every live allocation, which lies in a used block of its own.   *)
THEOREM DataAreKept == Spec => []DataKept
BY Invariant, DataIsKept, PTL

(* Each used block of heap.c is an allocation of the program or the block  *)
(* that a realloc is about to return: none is lost, none has two owners.   *)
THEOREM NothingIsLeaked == Spec => []NothingLeaked
BY Invariant, NoLeak, PTL

=============================================================================
