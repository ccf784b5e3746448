------------------------------- MODULE Strings -------------------------------
(***************************************************************************)
(* The functions of src/string on one memory: a sequence of bytes in which *)
(* 0 is the terminator, with pointers as positions and Null for a null     *)
(* pointer.  wcslen, wcscpy and wcscmp of src/wchar/wchar.c are the same   *)
(* on wide characters.                                                     *)
(***************************************************************************)
EXTENDS Integers, Sequences, SequencesExt

Null == 0

(* strlen, wcslen.                                                         *)
Strlen(m, p) == CHOOSE n \in 0 .. Len(m) - p :
                   m[p + n] = 0 /\ \A i \in 0 .. n - 1 : m[p + i] # 0

Text(m, p) == SubSeq(m, p, p + Strlen(m, p) - 1)

(* The copying loops, from the first byte up and from the last byte down.  *)
RECURSIVE CopyUp(_, _, _, _)
CopyUp(m, d, s, n) ==
    IF n = 0 THEN m ELSE CopyUp([m EXCEPT ![d] = m[s]], d + 1, s + 1, n - 1)

RECURSIVE CopyDown(_, _, _, _)
CopyDown(m, d, s, n) ==
    IF n = 0 THEN m
    ELSE CopyDown([m EXCEPT ![d + n - 1] = m[s + n - 1]], d, s, n - 1)

Memmove(m, d, s, n) == IF d <= s THEN CopyUp(m, d, s, n) ELSE CopyDown(m, d, s, n)

Memcpy(m, d, s, n) == CopyUp(m, d, s, n)

Memset(m, p, byte, n) == [i \in 1 .. Len(m) |-> IF i \in p .. p + n - 1 THEN byte ELSE m[i]]

(* strcpy, wcscpy, strncpy, strcat and strncat: strncpy pads to n bytes    *)
(* and may leave no terminator, strncat always writes one.                 *)
Strcpy(m, d, s) == CopyUp(m, d, s, Strlen(m, s) + 1)

Strncpy(m, d, s, n) ==
    LET used == IF Strlen(m, s) < n THEN Strlen(m, s) ELSE n
    IN  Memset(CopyUp(m, d, s, used), d + used, 0, n - used)

Strcat(m, d, s) == Strcpy(m, d + Strlen(m, d), s)

Strncat(m, d, s, n) ==
    LET used == IF Strlen(m, s) < n THEN Strlen(m, s) ELSE n
        end  == d + Strlen(m, d)
    IN  [CopyUp(m, end, s, used) EXCEPT ![end + used] = 0]

(* The first difference of n bytes; the str functions also stop at a       *)
(* terminator that both sides have.                                        *)
RECURSIVE Difference(_, _, _, _, _)
Difference(m, a, b, n, terminated) ==
    IF n = 0 THEN 0
    ELSE IF m[a] # m[b] \/ (terminated /\ m[a] = 0) THEN m[a] - m[b]
    ELSE Difference(m, a + 1, b + 1, n - 1, terminated)

Memcmp(m, a, b, n) == Difference(m, a, b, n, FALSE)

Strncmp(m, a, b, n) == Difference(m, a, b, n, TRUE)

Strcmp(m, a, b) == Difference(m, a, b, Strlen(m, a) + 1, TRUE)

Wcscmp(m, a, b) ==
    LET d == Strcmp(m, a, b) IN IF d < 0 THEN -1 ELSE IF d > 0 THEN 1 ELSE 0

(* memchr, strchr and strrchr: the terminator itself can be looked for.    *)
Hits(m, p, byte, n) == {q \in p .. p + n - 1 : m[q] = byte}

First(hits) == IF hits = {} THEN Null ELSE CHOOSE q \in hits : \A o \in hits : q <= o

Memchr(m, p, byte, n) == First(Hits(m, p, byte, n))

Strchr(m, p, byte) == Memchr(m, p, byte, Strlen(m, p) + 1)

Strrchr(m, p, byte) ==
    LET hits == Hits(m, p, byte, Strlen(m, p) + 1)
    IN  IF hits = {} THEN Null ELSE CHOOSE q \in hits : \A o \in hits : o <= q

(* The inner loop of strstr: how many characters agree from h on.          *)
RECURSIVE Agree(_, _, _)
Agree(m, h, n) ==
    IF m[n] = 0 \/ m[h] = 0 \/ m[h] # m[n] THEN 0 ELSE 1 + Agree(m, h + 1, n + 1)

Strstr(m, haystack, needle) ==
    IF m[needle] = 0 THEN haystack
    ELSE First({h \in haystack .. haystack + Strlen(m, haystack) - 1 :
                   m[needle + Agree(m, h, needle)] = 0})

(* strspn and strcspn; a set of bytes is modelled as a set.                *)
RECURSIVE Span(_, _, _)
Span(m, p, set) == IF m[p] = 0 \/ m[p] \notin set THEN 0 ELSE 1 + Span(m, p + 1, set)

RECURSIVE Cspan(_, _, _)
Cspan(m, p, set) == IF m[p] = 0 \/ m[p] \in set THEN 0 ELSE 1 + Cspan(m, p + 1, set)

Strpbrk(m, p, set) ==
    LET q == p + Cspan(m, p, set) IN IF m[q] = 0 THEN Null ELSE q

(* strtok: the memory, the static strtok_next and the token.               *)
Token(m, next, token) == [m |-> m, next |-> next, token |-> token]

(* Deliberately wrong: the next search starts at the terminator written    *)
(* over the delimiter and not behind it.                                   *)
StrtokStuck(m, next, str, delim) ==
    LET from  == IF str # Null THEN str ELSE next
        start == from + Span(m, from, delim)
        end   == start + Cspan(m, start, delim)
    IN  CASE from = Null -> Token(m, next, Null)
          [] from # Null /\ m[start] = 0 -> Token(m, start, Null)
          [] from # Null /\ m[start] # 0 /\ m[end] = 0 -> Token(m, end, start)
          [] OTHER -> Token([m EXCEPT ![end] = 0], end, start)

Strtok(m, next, str, delim) ==
    LET from  == IF str # Null THEN str ELSE next
        start == from + Span(m, from, delim)
        end   == start + Cspan(m, start, delim)
    IN  CASE from = Null -> Token(m, next, Null)
          [] from # Null /\ m[start] = 0 -> Token(m, start, Null)
          [] from # Null /\ m[start] # 0 /\ m[end] = 0 -> Token(m, end, start)
          [] OTHER -> Token([m EXCEPT ![end] = 0], end + 1, start)

-----------------------------------------------------------------------------
(* memmove copies as if through a temporary array, and memcpy does where   *)
(* the two areas do not overlap.                                           *)
MovedRight(m, d, s, n) ==
    LET moved == [i \in 1 .. Len(m) |-> IF i \in d .. d + n - 1 THEN m[s + i - d] ELSE m[i]]
    IN  /\ Memmove(m, d, s, n) = moved
        /\ d + n <= s \/ s + n <= d => Memcpy(m, d, s, n) = moved

(* Where the strings a, at the start of the memory, and b behind it agree  *)
(* with plain sequences: concatenation, comparison, search.                *)
Outside(m, r, d, n) == \A i \in 1 .. Len(m) : i \notin d .. d + n - 1 => r[i] = m[i]

StringsAgree(m, a, b, n) ==
    LET x == Text(m, a)
        y == Text(m, b)
        cut == SubSeq(y, 1, IF n < Len(y) THEN n ELSE Len(y))
        cat == Strncat(m, a, b, n)
        cpy == Strncpy(m, a, b, n)
    IN  /\ Text(cat, a) = x \o cut /\ Outside(m, cat, a + Len(x), Len(cut) + 1)
        /\ SubSeq(cpy, a, a + n - 1) = cut \o [i \in 1 .. n - Len(cut) |-> 0]
        /\ Outside(m, cpy, a, n)
        /\ n > Len(y) => Text(Strcat(m, a, b), a) = Text(cat, a)
        /\ Strcmp(m, a, b) = 0 <=> x = y
        /\ Strncmp(m, a, b, n) = 0 <=>
             SubSeq(x \o <<0>>, 1, IF n < Len(x) + 1 THEN n ELSE Len(x) + 1)
               = SubSeq(y \o <<0>>, 1, IF n < Len(y) + 1 THEN n ELSE Len(y) + 1)
        /\ Wcscmp(m, a, b) = 0 <=> x = y
        /\ Wcscmp(m, a, b) < 0 <=> Strcmp(m, a, b) < 0
        /\ Strcmp(m, a, b) = 0 => Memcmp(m, a, b, Len(x) + 1) = 0
        /\ Strchr(m, a, 0) = a + Len(x) /\ Strrchr(m, a, 0) = a + Len(x)
        /\ \A c \in {m[i] : i \in 1 .. Len(m)} \ {0} :
             (Strchr(m, a, c) = Null) = ~Contains(x, c)
               /\ (Strrchr(m, a, c) = Null) = ~Contains(x, c)
               /\ Strchr(m, a, c) <= Strrchr(m, a, c)
        /\ Strstr(m, a, b) # Null <=> \E i \in 0 .. Len(x) : IsPrefix(y, SubSeq(x, i + 1, Len(x)))
        /\ Strstr(m, a, b) # Null => IsPrefix(y, Text(m, Strstr(m, a, b)))
        /\ Strpbrk(m, a, {x[i] : i \in 1 .. Len(x)}) = IF x = <<>> THEN Null ELSE a
        /\ Span(m, a, {y[i] : i \in 1 .. Len(y)}) = Len(x)
             <=> \A i \in 1 .. Len(x) : Contains(y, x[i])

(* What a series of strtok calls promises: on the text as it was before the*)
(* first call, the next token starts at the first byte from `from` on that *)
(* is no delimiter and ends before the next delimiter.                     *)
Expected(text, from, delim) ==
    LET starts == {i \in from .. Len(text) : text[i] \notin delim}
        start  == First(starts)
        ends   == {i \in start .. Len(text) : text[i] \in delim}
    IN  IF starts = {} THEN [token |-> <<>>, from |-> Len(text) + 1]
        ELSE LET end == IF ends = {} THEN Len(text) + 1 ELSE First(ends)
             IN  [token |-> SubSeq(text, start, end - 1),
                  from |-> IF ends = {} THEN end ELSE end + 1]
=============================================================================
