------------------------------ MODULE Scanning -------------------------------
(***************************************************************************)
(* scanf and its relatives: src/stdio/scan.c, the entry points of          *)
(* src/stdio/scan_entry.S and src/wchar/wide_scan.c.                       *)
(*                                                                         *)
(* A source is what is left of a file or of a string: codes of bytes, or   *)
(* of wide characters when `wide` is set.  source_get moves a position on; *)
(* source_unget, which takes back the one character last got, moves it     *)
(* back.  A wide file ends where its bytes decode no more.  Formats are    *)
(* codes of bytes.  `got` says whether a directive has taken its pointer,  *)
(* `out` what it has stored through it: a number, or an array of codes.    *)
(***************************************************************************)
EXTENDS FloatText, FiniteSets

CONSTANTS CharBits, ShortBits, IntBits, LongBits,
          Registers,      \* general registers of the calling convention: 6
          WidthMax        \* MINI_SCAN_WIDTH_MAX

ScanningAssumption ==
    /\ FloatTextAssumption
    /\ {CharBits, ShortBits, IntBits, LongBits, Registers, WidthMax} \subseteq Nat \ {0}

MB == INSTANCE Multibyte

Source(text, wide, utf8) == [text |-> text, wide |-> wide, utf8 |-> utf8]

(***************************************************************************)
(* The pointers: next_word.  A call passes `n` pointers after `named`      *)
(* other arguments, in the registers that are left and then on the stack.  *)
(***************************************************************************)
Pointers(n, named) ==
    LET inRegisters == IF n < Registers - named THEN n ELSE Registers - named
    IN  [gp |-> [i \in 1 .. inRegisters |-> i],
         stack |-> [i \in 1 .. n - inRegisters |-> inRegisters + i]]

NextWord(args) ==
    IF args.gp # <<>> THEN [to |-> Head(args.gp), args |-> [args EXCEPT !.gp = Tail(@)]]
                      ELSE [to |-> Head(args.stack), args |-> [args EXCEPT !.stack = Tail(@)]]

(***************************************************************************)
(* parse_width, parse_scanset and parse_spec.                              *)
(***************************************************************************)
Code(char) == ByteOf[char]

(* A width of 0 stands for none; a written one must be from 1 to WidthMax. *)
WidthAt(f, p) ==
    LET end == Past(f, p, Len(f), 48 .. 57)
        v   == FoldLeft(LAMBDA w, c : IF w > WidthMax THEN w ELSE w * 10 + (c - 48), 0,
                        SubSeq(f, p, end - 1))
    IN  [ok |-> end = p \/ v \in 1 .. WidthMax, at |-> end, width |-> v]

LengthAt(f, p) ==
    LET c == Get(f, p, Len(f))
        double == Get(f, p + 1, Len(f)) = c
    IN  CASE c = Code("h") -> IF double THEN [length |-> "hh", at |-> p + 2]
                                        ELSE [length |-> "h", at |-> p + 1]
          [] c = Code("l") -> IF double THEN [length |-> "ll", at |-> p + 2]
                                        ELSE [length |-> "l", at |-> p + 1]
          [] OTHER -> [length |-> "none", at |-> p]

(* The members of a set between the brackets; ] may come first.            *)
SetAt(f, p) ==
    LET negated == Get(f, p, Len(f)) = Code("^")
        first == IF negated THEN p + 1 ELSE p
        ends  == {i \in first + 1 .. Len(f) : f[i] = Code("]")}
        end   == CHOOSE i \in ends : \A j \in ends : i <= j
    IN  IF ends = {} THEN [ok |-> FALSE, at |-> p, negated |-> negated, set |-> <<>>]
        ELSE [ok |-> TRUE, at |-> end + 1, negated |-> negated, set |-> SubSeq(f, first, end - 1)]

Integers10 == Codes(<<"d", "i", "u", "o", "x", "X">>)

Floats == Codes(<<"f", "F", "e", "E", "g", "G", "a", "A">>)

ParseSpec(f, p) ==
    LET star  == Get(f, p, Len(f)) = Code("*")
        w     == WidthAt(f, IF star THEN p + 1 ELSE p)
        len   == LengthAt(f, w.at)
        c     == Get(f, len.at, Len(f))
        set   == SetAt(f, len.at + 1)
        plain == len.length \in {"none", "l"}
    IN  [ok |-> /\ w.ok
                /\ \/ c \in Integers10
                   \/ c \in Floats \cup Codes(<<"c", "s">>) /\ plain
                   \/ c = Code("[") /\ plain /\ set.ok
                   \/ c = Code("%") /\ ~star /\ w.width = 0 /\ len.length = "none",
         at |-> IF c = Code("[") THEN set.at ELSE len.at + 1,
         spec |-> [suppress |-> star, width |-> w.width, length |-> len.length,
                   conversion |-> c, negated |-> c = Code("[") /\ set.negated,
                   set |-> IF c = Code("[") THEN set.set ELSE <<>>]]

(***************************************************************************)
(* What a directive gives back.                                            *)
(***************************************************************************)
Directive(status, at, got, out) ==
    [status |-> status, at |-> at, got |-> got, out |-> out]

Nothing(status, at) == Directive(status, at, FALSE, <<>>)

FieldWidth(spec) == IF spec.width = 0 THEN WidthMax ELSE spec.width

(***************************************************************************)
(* Integers: scan_integer, assign_signed and assign_unsigned               *)
(***************************************************************************)
Bits(length) ==
    CASE length = "hh" -> CharBits [] length = "h" -> ShortBits
      [] length \in {"l", "ll"} -> LongBits [] OTHER -> IntBits

Largest64 == 2 ^ LongBits - 1

(* The two assignments: a negative unsigned value is reduced, unchecked.   *)
Assigned(v, negative, length, signed) ==
    LET limit == IF signed THEN 2 ^ (Bits(length) - 1) - 1 ELSE 2 ^ Bits(length) - 1
    IN  CASE ~negative -> [ok |-> v <= limit, value |-> v]
          [] negative /\ signed -> [ok |-> v <= limit + 1, value |-> -v]
          [] OTHER -> [ok |-> TRUE, value |-> (-v) % 2 ^ Bits(length)]

(* The magnitude: it stays what it was when a digit would overflow it.     *)
Accumulated(digits, base) ==
    FoldLeft(LAMBDA a, d : IF a.over \/ a.value > (Largest64 - d) \div base
                             THEN [a EXCEPT !.over = TRUE]
                             ELSE [a EXCEPT !.value = @ * base + d],
             [value |-> 0, over |-> FALSE], digits)

(* The base and the first digit.  A prefix 0x is consumed although nothing *)
(* may follow it; without room for the x, a 0 is a digit.                  *)
IntegerBase(s, at, last, base) ==
    LET zero == Get(s, at, last) = 48
        x    == Lower(Get(s, at + 1, last)) = Code("x")
    IN  CASE base \in {0, 16} /\ zero /\ x -> [base |-> 16, at |-> at + 2]
          [] base = 0 /\ ~(zero /\ x)      -> [base |-> IF zero THEN 8 ELSE 10, at |-> at]
          [] OTHER                         -> [base |-> base, at |-> at]

ScanInteger(src, spec, from, base, signed) ==
    LET s      == src.text
        start  == SkipSpace(s, from)
        end    == start + FieldWidth(spec) - 1
        last   == IF end < Len(s) THEN end ELSE Len(s)
        sign   == Sign(Get(s, start, last))
        b      == IntegerBase(s, IF sign THEN start + 1 ELSE start, last, base)
        stop   == Past(s, b.at, last, {c \in Range(s) : DigitIn(c, b.base)})
        a      == Accumulated([i \in 1 .. stop - b.at |-> HexValue(s[b.at + i - 1])], b.base)
        stored == Assigned(a.value, s[start] = 45, spec.length, signed)
    IN  CASE start > Len(s) -> Nothing("input", start)
          [] start <= Len(s) /\ stop = b.at -> Nothing("match", stop)
          [] start <= Len(s) /\ stop # b.at /\ spec.suppress -> Nothing("success", stop)
          [] OTHER -> IF a.over \/ ~stored.ok THEN Nothing("range", stop)
                      ELSE Directive("success", stop, TRUE, stored.value)

(***************************************************************************)
(* scan_floating and assign_floating: a float is narrowed.                 *)
(***************************************************************************)
ScanFloating(src, spec, from) ==
    LET r      == Parse(src.text, from, FieldWidth(spec), "scan", ~spec.suppress)
        narrow == spec.length = "none" /\ ~r.value.nan
        near   == Narrow(r.value.x)
        value  == IF narrow THEN [r.value EXCEPT !.x = near.x] ELSE r.value
    IN  CASE r.status # "success" \/ spec.suppress -> Nothing(r.status, r.at)
          [] r.status = "success" /\ ~spec.suppress /\ narrow /\ near.status = "range" ->
               Nothing("range", r.at)
          [] OTHER -> Directive("success", r.at, TRUE, value)

(***************************************************************************)
(* Characters: store_character and read_wide_character.  A wide character  *)
(* is put together from bytes, or a wide one written as bytes; a byte that *)
(* does not fit is consumed with those before it.                          *)
(***************************************************************************)
Stored(ok, at, out) == [ok |-> ok, at |-> at, out |-> out]

DecodeAt(src, at) ==
    LET R(k) == MB!Mbrtowc(SubSeq(src.text, at, at + k - 1), MB!InitialState, src.utf8)
        done == {k \in 1 .. Len(src.text) - at + 1 : R(k).ret # MB!Incomplete}
        k    == CHOOSE i \in done : \A j \in done : i <= j
    IN  IF done = {} THEN Stored(FALSE, Len(src.text) + 1, <<>>)
        ELSE Stored(R(k).ret # MB!Invalid, at + k, IF R(k).ret < 0 THEN <<>> ELSE <<R(k).wc>>)

StoreCharacter(src, spec, at) ==
    LET wanted == spec.length = "l"
        c      == src.text[at]
        bytes  == MB!Wcrtomb(c, src.utf8)
        kept   == CASE wanted /\ ~src.wide -> DecodeAt(src, at)
                    [] ~wanted /\ src.wide /\ ~spec.suppress -> Stored(bytes # <<>>, at + 1, bytes)
                    [] OTHER -> Stored(TRUE, at + 1, <<c>>)
    IN  IF spec.suppress THEN [kept EXCEPT !.out = <<>>] ELSE kept

(* The loops of scan_string and scan_scanset: up to n characters, all of   *)
(* them in `good`, the first of them known to be.                          *)
RECURSIVE Gather(_, _, _, _, _, _)
Gather(src, spec, at, n, good, out) ==
    LET one == StoreCharacter(src, spec, at)
        all == out \o one.out
    IN  IF ~one.ok \/ n = 1 \/ Get(src.text, one.at, Len(src.text)) \notin good
          THEN Stored(one.ok, one.at, all)
          ELSE Gather(src, spec, one.at, n - 1, good, all)

(* An array of characters ends with a terminator, unless it broke off.     *)
Gathered(src, spec, at, good) ==
    LET run == Gather(src, spec, at, FieldWidth(spec), good, <<>>)
    IN  Directive(IF run.ok THEN "success" ELSE "input", run.at, ~spec.suppress,
                  IF run.ok /\ ~spec.suppress THEN Append(run.out, 0) ELSE run.out)

ScanString(src, spec, from) ==
    LET start == SkipSpace(src.text, from)
    IN  IF start > Len(src.text) THEN Nothing("input", start)
        ELSE Gathered(src, spec, start, {c \in Range(src.text) : ~Space(c)})

(* scan_characters: exactly as many as asked for, without a terminator.    *)
RECURSIVE Exactly(_, _, _, _, _)
Exactly(src, spec, at, n, out) ==
    LET one == StoreCharacter(src, spec, at)
    IN  CASE n = 0 -> Stored(TRUE, at, out)
          [] n # 0 /\ at > Len(src.text) -> Stored(FALSE, at, out)
          [] OTHER -> IF one.ok THEN Exactly(src, spec, one.at, n - 1, out \o one.out)
                                ELSE Stored(FALSE, one.at, out)

ScanCharacters(src, spec, from) ==
    LET run == Exactly(src, spec, from, IF spec.width = 0 THEN 1 ELSE spec.width, <<>>)
    IN  Directive(IF run.ok THEN "success" ELSE "input", run.at, ~spec.suppress, run.out)

(***************************************************************************)
(* Sets: scanset_contains_bytes and scanset_contains_wide.                 *)
(***************************************************************************)
(* decode_format_literal: the characters of a format, <<>> when it does    *)
(* not decode.                                                             *)
RECURSIVE Literals(_, _)
Literals(f, utf8) ==
    IF f = <<>> THEN <<>>
    ELSE LET one  == DecodeAt(Source(f, FALSE, utf8), 1)
             rest == Literals(SubSeq(f, one.at, Len(f)), utf8)
         IN  IF ~one.ok \/ (rest = <<>> /\ one.at <= Len(f)) THEN <<>> ELSE one.out \o rest

SetUnits(src, spec) ==
    IF src.wide /\ src.utf8 THEN Literals(spec.set, TRUE) ELSE spec.set

(* From the p-th unit on: a - between two that ascend makes a range.       *)
RECURSIVE Members(_, _, _)
Members(units, p, c) ==
    LET range == p + 2 <= Len(units) /\ units[p + 1] = Code("-") /\ units[p] <= units[p + 2]
    IN  CASE p > Len(units) -> FALSE
          [] p <= Len(units) /\ range ->
               c \in units[p] .. units[p + 2] \/ Members(units, p + 3, c)
          [] OTHER -> c = units[p] \/ Members(units, p + 1, c)

InSet(src, spec, c) == Members(SetUnits(src, spec), 1, c) # spec.negated

(* A set that does not decode fails after its first character is consumed. *)
ScanScanset(src, spec, from) ==
    LET c == Get(src.text, from, Len(src.text))
    IN  CASE c = Eof -> Nothing("input", from)
          [] c # Eof /\ SetUnits(src, spec) = <<>> -> Nothing("input", from + 1)
          [] c # Eof /\ SetUnits(src, spec) # <<>> /\ ~InSet(src, spec, c) ->
               Nothing("match", from)
          [] OTHER -> Gathered(src, spec, from,
                               {d \in Range(src.text) : InSet(src, spec, d)})

(***************************************************************************)
(* scan_dispatch                                                           *)
(***************************************************************************)
MatchLiteral(src, at, expected) ==
    LET c == Get(src.text, at, Len(src.text))
    IN  CASE c = Eof -> Nothing("input", at)
          [] c = expected -> Nothing("success", at + 1)
          [] OTHER -> Nothing("match", at)

Convert(src, spec, at) ==
    LET c == spec.conversion
    IN  CASE c = Code("%") -> MatchLiteral(src, at, c)
          [] c = Code("d") -> ScanInteger(src, spec, at, 10, TRUE)
          [] c = Code("i") -> ScanInteger(src, spec, at, 0, TRUE)
          [] c = Code("u") -> ScanInteger(src, spec, at, 10, FALSE)
          [] c = Code("o") -> ScanInteger(src, spec, at, 8, FALSE)
          [] c \in Codes(<<"x", "X">>) -> ScanInteger(src, spec, at, 16, FALSE)
          [] c \in Floats  -> ScanFloating(src, spec, at)
          [] c = Code("s") -> ScanString(src, spec, at)
          [] c = Code("[") -> ScanScanset(src, spec, at)
          [] c = Code("c") -> ScanCharacters(src, spec, at)

(* What a call leaves: its value, the position in the source, and what it  *)
(* has stored through which pointer.  EOF is -1.                           *)
Scanned(ret, at, stored) == [ret |-> ret, at |-> at, stored |-> stored]

(* handle_status: an end or an error counts only before any assignment.    *)
HandleStatus(status, count, at, stored) ==
    Scanned(IF status = "input" /\ count = 0 THEN -1 ELSE count, at, stored)

RECURSIVE Dispatch(_, _, _, _, _, _, _)
Dispatch(src, f, p, args, at, count, stored) ==
    LET c       == Get(f, p, Len(f))
        literal == IF src.wide THEN DecodeAt(Source(f, FALSE, src.utf8), p)
                               ELSE Stored(TRUE, p + 1, <<c>>)
        matched == MatchLiteral(src, at, literal.out[1])
        parsed  == ParseSpec(f, p + 1)
        done    == Convert(src, parsed.spec, at)
        word    == NextWord(args)
        kept    == IF done.got THEN Append(stored, [to |-> word.to, out |-> done.out]) ELSE stored
    IN  CASE c = Eof -> Scanned(count, at, stored)
          [] Space(c) ->
               Dispatch(src, f, SkipSpace(f, p), args, SkipSpace(src.text, at), count, stored)
          [] c # Eof /\ ~Space(c) /\ c # Code("%") ->
               IF ~literal.ok THEN Scanned(-1, at, stored)
               ELSE IF matched.status = "success"
                 THEN Dispatch(src, f, literal.at, args, matched.at, count, stored)
                 ELSE HandleStatus(matched.status, count, matched.at, stored)
          [] OTHER ->
               IF ~parsed.ok THEN Scanned(-1, at, stored)
               ELSE IF done.status # "success" THEN HandleStatus(done.status, count, done.at, kept)
               ELSE Dispatch(src, f, parsed.at, IF done.got THEN word.args ELSE args, done.at,
                             IF done.got THEN count + 1 ELSE count, kept)

Scan(src, f, args) == Dispatch(src, f, 1, args, 1, 0, <<>>)

(* vswscanf and vfwscanf: the format is encoded first, and may not be.     *)
WideScan(src, f, args) ==
    LET parts == [i \in 1 .. Len(f) |-> MB!Wcrtomb(f[i], src.utf8)]
    IN  IF \E i \in 1 .. Len(f) : parts[i] = <<>> THEN Scanned(-1, 1, <<>>)
        ELSE Scan(src, FlattenSeq(parts), args)

-----------------------------------------------------------------------------
(* ISO C 7.21.6.2: an input item is the longest text, within the field     *)
(* width, that is what the directive wants or the beginning of it.         *)
IntegerForm(t, base) ==
    LET b     == IF t # <<>> /\ Sign(t[1]) THEN Tail(t) ELSE t
        hex   == Len(b) > 2 /\ b[1] = 48 /\ Lower(b[2]) = Code("x")
        From(p, n) == p <= Len(b) /\ \A i \in p .. Len(b) : DigitIn(b[i], n)
    IN  \/ base \in {0, 16} /\ hex /\ From(3, 16)
        \/ base = 0 /\ b # <<>> /\ From(1, IF b[1] = 48 THEN 8 ELSE 10)
        \/ base # 0 /\ From(1, base)

(* The value of a numeral of that form.                                    *)
IntegerExact(t, base) ==
    LET b   == IF Sign(t[1]) THEN Tail(t) ELSE t
        hex == Len(b) > 1 /\ Lower(b[2]) = Code("x")
        own == CASE hex -> 16
                 [] ~hex /\ base = 0 -> IF b[1] = 48 THEN 8 ELSE 10
                 [] OTHER -> base
        v   == Value([i \in 1 .. Len(b) |-> IF hex /\ i = 2 THEN 0 ELSE HexValue(b[i])], own)
    IN  IF t[1] = 45 THEN -v ELSE v

(* Exactly the item is consumed; a number is stored only when the item is  *)
(* a whole numeral whose value the type holds.                             *)
IntegerRight(s, letter, width, length) ==
    LET base   == CASE letter = "i" -> 0 [] letter = "o" -> 8 [] letter = "x" -> 16 [] OTHER -> 10
        signed == letter \in {"d", "i"}
        r      == ScanInteger(Source(s, FALSE, FALSE),
                              [suppress |-> FALSE, width |-> width, length |-> length],
                              1, base, signed)
        start  == SkipSpace(s, 1)
        left   == Len(s) - start + 1
        n      == IF width # 0 /\ width < left THEN width ELSE left
        Begins(t) == \E x \in {<<>>, <<48>>} : IntegerForm(t \o x, base)
        item   == SubSeq(s, start, start + Longest(s, start, n, Begins) - 1)
        exact  == IntegerExact(item, base)
        half   == 2 ^ (Bits(length) - 1)
        holds  == exact \in (IF signed THEN -half .. half - 1 ELSE 1 - 2 * half .. 2 * half - 1)
    IN  IF left = 0 THEN r.status = "input"
        ELSE /\ r.at = start + Len(item)
             /\ r.status \in {"success", "range"} <=> IntegerForm(item, base)
             /\ r.got <=> r.status = "success"
             /\ IntegerForm(item, base) /\ holds =>
                  r.got /\ r.out = IF signed THEN exact ELSE exact % (2 * half)
             /\ IntegerForm(item, base) /\ ~holds /\ (signed \/ exact > 0) => r.status = "range"

(* Directives that take no pointer do not move the next one on, and what   *)
(* is counted is what has been stored whole, in the order of the pointers. *)
PointersRight(r) ==
    /\ \A k \in 1 .. Len(r.stored) : r.stored[k].to = k
    /\ r.ret \in {-1} \cup (0 .. Len(r.stored))
    /\ Len(r.stored) - r.ret <= 1 \/ r.ret = -1

(* A set is its members and its ranges <<first, last>>, or all the others; *)
(* %[ takes as many of them as there are, and nothing else of the input,   *)
(* and an end of the input counts only before the %c has been assigned.    *)
SetRight(text, items, negated, wide) ==
    LET set  == FlattenSeq([i \in 1 .. Len(items) |->
                              IF Len(items[i]) = 1 THEN items[i]
                              ELSE <<items[i][1], Code("-"), items[i][2]>>])
        f    == <<37, 99, 37, 91>> \o (IF negated THEN <<94>> ELSE <<>>) \o set \o <<93>>
        r    == IF wide THEN WideScan(Source(text, TRUE, TRUE), f, Pointers(2, 2))
                        ELSE Scan(Source(text, FALSE, FALSE), f, Pointers(2, 2))
        Member(c) == (\E i \in 1 .. Len(items) : c \in items[i][1] .. items[i][Len(items[i])])
                        # negated
        n    == Longest(text, 2, Len(text) - 1, LAMBDA t : \A i \in 1 .. Len(t) : Member(t[i]))
        Coded(t) == IF wide THEN FlattenSeq([i \in 1 .. Len(t) |-> MB!Wcrtomb(t[i], TRUE)]) ELSE t
    IN  IF text = <<>> THEN r.ret = -1
        ELSE /\ r.ret = IF n = 0 THEN 1 ELSE 2
             /\ r.at = 2 + n
             /\ n > 0 => r.stored[2] = [to |-> 2, out |-> Append(Coded(SubSeq(text, 2, n + 1)), 0)]

(* A wide string is read as the string of its bytes is, when the format    *)
(* has no set and counts no characters.                                    *)
WideAgrees(text, f, named) ==
    LET Coded(t) == FlattenSeq([i \in 1 .. Len(t) |-> MB!Wcrtomb(t[i], TRUE)])
        narrow == Scan(Source(Coded(text), FALSE, TRUE), Coded(f), Pointers(6, named))
        wide   == WideScan(Source(text, TRUE, TRUE), f, Pointers(6, named))
    IN  /\ wide.ret = narrow.ret /\ wide.stored = narrow.stored
        /\ Len(Coded(SubSeq(text, 1, wide.at - 1))) = narrow.at - 1
=============================================================================
