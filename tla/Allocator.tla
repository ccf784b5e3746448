----------------------------- MODULE Allocator -----------------------------
(***************************************************************************)
(* malloc, calloc, realloc and free of src/stdlib: a first-fit list of     *)
(* blocks in one arena that grows by brk, used by several threads.         *)
(*                                                                         *)
(* The list is changed in critical sections of one lock, one action each;  *)
(* realloc leaves its critical section before it allocates a replacement,  *)
(* and other threads act in between.  Addresses and sizes are bytes from 0 *)
(* to WordMax, arithmetic is modulo WordMax + 1 as size_t's is.  Memory    *)
(* holds, per byte, 0 for anything but the data of a live allocation and   *)
(* else the tag of the allocation whose data was last written there: the   *)
(* program fills what it is given with the allocation's tag.               *)
(***************************************************************************)
EXTENDS Integers, FiniteSets, Functions

CONSTANTS Threads,
          Tags,      \* names for live allocations, positive numbers
          Align,     \* MINI_ALLOC_ALIGNMENT
          Header,    \* sizeof(struct mini_block)
          Break,     \* the program break at start-up
          Limit,     \* the kernel lets the break go this far
          WordMax,   \* (size_t)-1
          Sizes,     \* the sizes the program asks malloc and realloc for
          Arrays     \* the <<nmemb, size>> it asks calloc for

ASSUME AllocatorConstants ==
    /\ Align \in Nat \ {0} /\ Header \in Nat \ {0} /\ Header % Align = 0
    /\ Break \in Nat \ {0} /\ Limit \in Nat /\ Break <= Limit /\ Limit <= WordMax
    /\ WordMax \in Nat /\ (WordMax + 1) % Align = 0
    /\ Tags \subseteq Nat \ {0}
    /\ Sizes \subseteq 1 .. WordMax /\ Arrays \subseteq (1 .. WordMax) \X (1 .. WordMax)

VARIABLES heap,    \* the block list: see HeapType
          mem,     \* the bytes of the arena
          live,    \* the program's allocations: [at, size] by tag, at = 0 if unused
          moving   \* what each thread is doing in realloc

vars == <<heap, mem, live, moving>>

Arena == 1 .. Limit

Null == 0

Word(n) == n % (WordMax + 1)

(* block[b] is the header at address b, for the headers on the list; head, *)
(* tail and end are block_head, block_tail and heap_end (0: heap_initialized*)
(* is still false).                                                        *)
Block == [size : 0 .. WordMax, next : 0 .. Limit, free : BOOLEAN, requested : 0 .. WordMax]

NotMoving == [pc |-> "idle", tag |-> 0, size |-> 0, copy |-> 0, to |-> Null]

TypeOK ==
    /\ DOMAIN heap.block \subseteq Arena
    /\ heap.block \in [DOMAIN heap.block -> Block]
    /\ heap.head \in {Null} \cup DOMAIN heap.block
    /\ heap.tail \in {Null} \cup DOMAIN heap.block
    /\ heap.end \in 0 .. Limit
    /\ mem \in [Arena -> {0} \cup Tags]
    /\ live \in [Tags -> [at : 0 .. Limit, size : Nat]]
    /\ moving \in [Threads -> [pc : {"idle", "allocate", "copy"}, tag : {0} \cup Tags,
                               size : 0 .. WordMax, copy : 0 .. WordMax, to : 0 .. Limit]]

Init ==
    /\ heap = [block |-> <<>>, head |-> Null, tail |-> Null, end |-> 0]
    /\ mem = [a \in Arena |-> 0]
    /\ live = [g \in Tags |-> [at |-> Null, size |-> 0]]
    /\ moving = [t \in Threads |-> NotMoving]

-----------------------------------------------------------------------------
(* align_size: round up; 0 stands for the refusal of a size that is too    *)
(* near to WordMax.                                                        *)
AlignSize(n) ==
    IF n > WordMax - (Align - 1) THEN 0
    ELSE (n + Align - 1) - ((n + Align - 1) % Align)

(* The address after a block, and the list with one block changed.         *)
After(h, b) == b + Header + h.block[b].size

With(h, b, block) ==
    [h EXCEPT !.block = [c \in DOMAIN @ \cup {b} |-> IF c = b THEN block ELSE @[c]]]

Remaining(h, b, size) == h.block[b].size - size

Splits(h, b, size) == Remaining(h, b, size) >= Header + Align

(* split_block: cut a block to size if the rest can hold a header and a    *)
(* unit of payload.                                                        *)
Split(h, b, size) ==
    LET rest == b + Header + size
        cut  == [h.block[b] EXCEPT !.size = size, !.next = rest]
        new  == [size |-> Remaining(h, b, size) - Header, next |-> h.block[b].next,
                 free |-> TRUE, requested |-> 0]
    IN  IF ~Splits(h, b, size) THEN h
        ELSE [With(With(h, b, cut), rest, new) EXCEPT !.tail = IF @ = b THEN rest ELSE @]

Mergeable(h, b) ==
    LET n == h.block[b].next IN n # Null /\ h.block[n].free /\ After(h, b) = n

(* merge_with_next.                                                        *)
MergeNext(h, b) ==
    LET n == h.block[b].next
        big == [h.block[b] EXCEPT !.size = @ + Header + h.block[n].size,
                                  !.next = h.block[n].next]
    IN  IF ~Mergeable(h, b) THEN h
        ELSE [block |-> [Restrict(h.block, DOMAIN h.block \ {n}) EXCEPT ![b] = big],
              head  |-> h.head,
              tail  |-> IF h.tail = n THEN b ELSE h.tail,
              end   |-> h.end]

(* Deliberately wrong: what is cut off is not merged with its neighbour.   *)
SplitOnly(h, b, size) == Split(h, b, size)

(* realloc cuts a block and merges the rest with a free block behind it.   *)
SplitAndMerge(h, b, size) ==
    IF Splits(h, b, size)
    THEN MergeNext(Split(h, b, size), b + Header + size)
    ELSE h

Request(h, b, size) ==
    With(h, b, [h.block[b] EXCEPT !.free = FALSE, !.requested = size])

-----------------------------------------------------------------------------
(* find_free_block: the first fit of the list, which is in address order   *)
(* (invariant HeapTiled).                                                  *)
Fits(h, size) == {b \in DOMAIN h.block : h.block[b].free /\ h.block[b].size >= size}

FirstFit(h, size) == CHOOSE b \in Fits(h, size) : \A c \in Fits(h, size) : b <= c

(* brk(target) may be refused; beyond Limit it always is.                  *)
Brk(target, granted) == granted /\ target <= Limit

(* initialize_heap: the first use rounds the break up.                     *)
Initialized(h, granted) ==
    LET start == AlignSize(Break) IN
    IF h.end # 0 \/ start = 0 \/ (start # Break /\ ~Brk(start, granted)) THEN h
    ELSE [h EXCEPT !.end = start]

(* grow_heap: a new block at the end of the arena; unchanged if refused.   *)
Grow(h, size, granted) ==
    LET g      == Initialized(h, granted)
        target == g.end + Header + size
        block  == [size |-> size, next |-> Null, free |-> FALSE, requested |-> 0]
        linked == IF g.tail = Null THEN [g EXCEPT !.head = g.end]
                  ELSE With(g, g.tail, [g.block[g.tail] EXCEPT !.next = g.end])
    IN  IF g.end = 0 \/ size > WordMax - Header \/ g.end > WordMax - (Header + size)
           \/ ~Brk(target, granted)
        THEN g
        ELSE [With(linked, g.end, block) EXCEPT !.tail = g.end, !.end = target]

(* What malloc(size) does to the heap and the payload address it returns.  *)
Malloc(h, size, granted) ==
    LET aligned == AlignSize(size)
        b       == FirstFit(h, aligned)
        grown   == Grow(h, aligned, granted)
    IN  IF aligned = 0 THEN [heap |-> h, at |-> Null]
        ELSE IF Fits(h, aligned) # {}
        THEN [heap |-> Request(Split(h, b, aligned), b, size), at |-> b + Header]
        ELSE IF DOMAIN grown.block = DOMAIN h.block
        THEN [heap |-> grown, at |-> Null]
        ELSE [heap |-> Request(grown, grown.tail, size), at |-> grown.tail + Header]

Previous(h, b) == {p \in DOMAIN h.block : h.block[p].next = b}

(* free: merge with the next block, then the previous block with this one. *)
Freed(h, at) ==
    LET b      == at - Header
        marked == MergeNext(With(h, b, [h.block[b] EXCEPT !.free = TRUE]), b)
    IN  IF \E p \in Previous(marked, b) : marked.block[p].free /\ After(marked, p) = b
        THEN MergeNext(marked, CHOOSE p \in Previous(marked, b) : TRUE)
        ELSE marked

-----------------------------------------------------------------------------
(* Extent of a region, and memory after the heap has become h and the      *)
(* program has filled [at, at + size) with tag; headers overwrite data.    *)
Bytes(at, size) == at .. at + size - 1

Written(h, m, at, size, tag) ==
    [a \in Arena |->
        IF at # Null /\ a \in Bytes(at, size) THEN tag
        ELSE IF \E b \in DOMAIN h.block : a \in Bytes(b, Header) THEN 0
        ELSE m[a]]

(* Memory after [at, at + size) has been given up: nobody reads it again.  *)
Forgotten(m, at, size) == [a \in Arena |-> IF a \in Bytes(at, size) THEN 0 ELSE m[a]]

Unused == {g \in Tags : live[g].at = Null}

Moving == {moving[t].tag : t \in Threads}

(* A call that returns r to the program for a new allocation of size.      *)
Take(r, size) ==
    /\ heap' = r.heap
    /\ IF r.at = Null
         THEN /\ mem' = Written(r.heap, mem, Null, 0, 0)
              /\ UNCHANGED live
         ELSE \E g \in Unused :
                /\ \A other \in Unused : g <= other
                /\ live' = [live EXCEPT ![g] = [at |-> r.at, size |-> size]]
                /\ mem' = Written(r.heap, mem, r.at, size, g)

CallMalloc(t, size, granted) ==
    /\ moving[t].pc = "idle" /\ Unused # {}
    /\ Take(Malloc(heap, size, granted), size)
    /\ UNCHANGED moving

(* Deliberately wrong: the product is not checked for overflow.            *)
CallCallocWraps(t, n, size, granted) ==
    /\ moving[t].pc = "idle" /\ Unused # {}
    /\ Word(n * size) # 0
    /\ Take(Malloc(heap, Word(n * size), granted), n * size)
    /\ UNCHANGED moving

(* calloc refuses a product that exceeds WordMax.                          *)
CallCalloc(t, n, size, granted) ==
    /\ moving[t].pc = "idle" /\ Unused # {}
    /\ n <= WordMax \div size
    /\ Take(Malloc(heap, n * size, granted), n * size)
    /\ UNCHANGED moving

(* free(ptr), and realloc(ptr, 0).                                         *)
CallFree(t, g) ==
    /\ moving[t].pc = "idle" /\ live[g].at # Null /\ g \notin Moving
    /\ heap' = Freed(heap, live[g].at)
    /\ mem' = Forgotten(mem, live[g].at, live[g].size)
    /\ live' = [live EXCEPT ![g] = [at |-> Null, size |-> 0]]
    /\ UNCHANGED moving

-----------------------------------------------------------------------------
(* Resizing in place: the heap afterwards, or the one given when it cannot *)
(* be done.                                                                *)

(* The block is the tail: brk extends it.                                  *)
ExtendTail(h, b, aligned, granted) ==
    LET growth == aligned - h.block[b].size
        target == h.end + growth
    IN  IF h.end > WordMax - growth \/ ~Brk(target, granted) THEN h
        ELSE With([h EXCEPT !.end = target], b, [h.block[b] EXCEPT !.size = aligned])

(* The free block behind it is taken, and extended by brk if it is the     *)
(* tail and still too small.                                               *)
Absorb(h, b, aligned, granted) ==
    LET n        == h.block[b].next
        combined == h.block[b].size + Header + h.block[n].size
        merged   == MergeNext(h, b)
    IN  IF combined >= aligned THEN SplitAndMerge(merged, b, aligned)
        ELSE IF n # h.tail THEN h
        ELSE IF ExtendTail(merged, b, aligned, granted) = merged THEN h
        ELSE ExtendTail(merged, b, aligned, granted)

InPlace(h, b, aligned, granted) ==
    IF aligned <= h.block[b].size THEN SplitAndMerge(h, b, aligned)
    ELSE IF Mergeable(h, b) THEN Absorb(h, b, aligned, granted)
    ELSE IF b = h.tail THEN ExtendTail(h, b, aligned, granted)
    ELSE h

(* realloc(ptr, size): resized under one lock, or on to a replacement.     *)
CallRealloc(t, g, size, granted) ==
    LET b       == live[g].at - Header
        aligned == AlignSize(size)
        resized == InPlace(heap, b, aligned, granted)
        least(m, n) == IF m < n THEN m ELSE n
    IN
    /\ moving[t].pc = "idle" /\ live[g].at # Null /\ g \notin Moving
    /\ aligned # 0
    /\ IF resized.block[b].size >= aligned
         THEN /\ heap' = Request(resized, b, size)
              /\ mem' = Written(heap', Forgotten(mem, live[g].at + size,
                                                 live[g].size - size),
                                live[g].at + least(size, live[g].size),
                                size - least(size, live[g].size), g)
              /\ live' = [live EXCEPT ![g].size = size]
              /\ UNCHANGED moving
         ELSE /\ moving' = [moving EXCEPT
                   ![t] = [pc |-> "allocate", tag |-> g, size |-> size, to |-> Null,
                           copy |-> least(heap.block[b].requested, size)]]
              /\ UNCHANGED <<heap, mem, live>>

(* realloc's own malloc: the old allocation stays the caller's if it fails.*)
Replace(t, granted) ==
    LET m == moving[t]
        r == Malloc(heap, m.size, granted) IN
    /\ m.pc = "allocate"
    /\ heap' = r.heap
    /\ mem' = Written(r.heap, mem, Null, 0, 0)
    /\ moving' = [moving EXCEPT ![t] = IF r.at = Null THEN NotMoving
                                       ELSE [m EXCEPT !.pc = "copy", !.to = r.at]]
    /\ UNCHANGED live

(* Deliberately wrong: the old block is not freed.                         *)
CopyLeaking(t) ==
    LET m == moving[t] old == live[m.tag] IN
    /\ m.pc = "copy"
    /\ mem' = Written(heap, Forgotten(mem, old.at, old.size), m.to, m.size, m.tag)
    /\ live' = [live EXCEPT ![m.tag] = [at |-> m.to, size |-> m.size]]
    /\ moving' = [moving EXCEPT ![t] = NotMoving]
    /\ UNCHANGED heap

(* memcpy and free(ptr); realloc returns and the program fills what is     *)
(* new.  The copy touches two blocks that are this thread's alone.         *)
CopyAndFree(t) ==
    LET m == moving[t]
        old == live[m.tag]
        copied == [a \in Arena |->
                     IF a \in Bytes(m.to, m.copy) THEN mem[old.at + (a - m.to)] ELSE mem[a]]
    IN
    /\ m.pc = "copy"
    /\ heap' = Freed(heap, old.at)
    /\ mem' = Written(heap', Forgotten(copied, old.at, old.size),
                      m.to + m.copy, m.size - m.copy, m.tag)
    /\ live' = [live EXCEPT ![m.tag] = [at |-> m.to, size |-> m.size]]
    /\ moving' = [moving EXCEPT ![t] = NotMoving]

Next ==
    \E t \in Threads :
        \/ \E g \in Tags : CallFree(t, g)
        \/ CopyAndFree(t)
        \/ \E granted \in BOOLEAN :
             \/ \E size \in Sizes : CallMalloc(t, size, granted)
             \/ \E p \in Arrays : CallCalloc(t, p[1], p[2], granted)
             \/ \E g \in Tags, size \in Sizes : CallRealloc(t, g, size, granted)
             \/ Replace(t, granted)

Spec == Init /\ [][Next]_vars

-----------------------------------------------------------------------------
(* The list tiles the arena: it starts at the aligned break, each block's  *)
(* next is where the block ends, and only block_tail, which ends at        *)
(* heap_end, has none.                                                     *)
HeapTiled ==
    IF heap.head = Null THEN heap.tail = Null /\ DOMAIN heap.block = {}
    ELSE /\ heap.head = AlignSize(Break)
         /\ \A b \in DOMAIN heap.block :
              /\ heap.block[b].size >= Align /\ heap.block[b].size % Align = 0
              /\ b = heap.head \/ Cardinality(Previous(heap, b)) = 1
              /\ IF b = heap.tail
                 THEN heap.block[b].next = Null /\ After(heap, b) = heap.end
                 ELSE heap.block[b].next = After(heap, b)
                      /\ heap.block[b].next \in DOMAIN heap.block

(* Free blocks never have a free neighbour: split, merge and brk keep the  *)
(* list coalesced, so a request fails only when no gap is large enough.    *)
Coalesced == \A b \in DOMAIN heap.block : heap.block[b].free => ~Mergeable(heap, b)

(* The block list of heap.c stays a tiling of coalesced blocks.            *)
HeapWellFormed == TypeOK /\ HeapTiled /\ Coalesced

(* Every live allocation lies in a used block of its own that is large     *)
(* enough, and every byte of it is what the program last wrote: through    *)
(* resizes in place, moves, failed moves and whatever other threads do     *)
(* between realloc's two critical sections.                                *)
DataKept ==
    \A g \in Tags \ Unused :
        LET b == live[g].at - Header IN
        /\ b \in DOMAIN heap.block /\ ~heap.block[b].free
        /\ live[g].size <= heap.block[b].size
        /\ heap.block[b].requested = live[g].size
        /\ \A a \in Bytes(live[g].at, live[g].size) : mem[a] = g

(* The used blocks are the program's allocations and the replacements that *)
(* a realloc is about to return: no block is lost to both sides.           *)
NothingLeaked ==
    {b + Header : b \in {c \in DOMAIN heap.block : ~heap.block[c].free}}
      = {live[g].at : g \in Tags \ Unused}
        \cup {moving[t].to : t \in {u \in Threads : moving[u].pc = "copy"}}
=============================================================================
