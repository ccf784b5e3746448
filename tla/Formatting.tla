----------------------------- MODULE Formatting ------------------------------
(***************************************************************************)
(* printf and its relatives: src/stdio/format.c, the entry points of       *)
(* src/stdio/format_entry.S and src/wchar/wide_format.c.  A format is a    *)
(* sequence of characters, output a sequence of byte codes.  Integers have *)
(* the widths of the constants; a pointer to a string is <<string>>, or    *)
(* <<>> for null; a double is [neg, exp, frac] in a small binary format    *)
(* whose decimal arithmetic is exact, as it is for a double that holds     *)
(* every digit asked for.                                                  *)
(***************************************************************************)
EXTENDS Text, FiniteSets

CONSTANTS CharBits, ShortBits, IntBits, LongBits,
          GpRegisters, FpRegisters,       \* 6 and 8 in the System V ABI
          FracDigits, Bias, ExpMax,       \* hexadecimal digits of a fraction, 1023, 2047
          DecimalPrecision,               \* MINI_FLOAT_DECIMAL_MAX_PRECISION
          WholeLimit                      \* 2^64

FormattingAssumption ==
    /\ {CharBits, ShortBits, IntBits, LongBits} \subseteq Nat \ {0}
    /\ CharBits <= ShortBits /\ ShortBits <= IntBits /\ IntBits <= LongBits
    /\ {GpRegisters, FpRegisters, FracDigits, Bias, ExpMax,
        DecimalPrecision, WholeLimit} \subseteq Nat

MB == INSTANCE Multibyte

IntMax == 2 ^ (IntBits - 1) - 1

ToSigned(word, bits) ==
    LET v == word % 2 ^ bits IN IF v >= 2 ^ (bits - 1) THEN v - 2 ^ bits ELSE v

(***************************************************************************)
(* The variable arguments: what is left in the general and floating        *)
(* registers, and the overflow area both kinds share.                      *)
(***************************************************************************)
Args(gp, fp, stack) == [gp |-> gp, fp |-> fp, stack |-> stack]

(* What a compiler does with a call: `named` general registers are taken   *)
(* by the named parameters.                                                *)
Upto(s, n) == SubSeq(s, 1, IF n < Len(s) THEN n ELSE Len(s))

Beyond(s, n) == SubSeq(s, n + 1, Len(s))

Passed(values, named) ==
    LET Of(kind) == SelectSeq([i \in 1 .. Len(values) |-> <<i, values[i]>>],
                              LAMBDA e : e[2].kind = kind)
        gp == Of("word")
        fp == Of("double")
        rest == {e[1] : e \in Range(Beyond(gp, GpRegisters - named))
                                \cup Range(Beyond(fp, FpRegisters))}
        Value(e) == e[2].value
        Values(s) == [i \in 1 .. Len(s) |-> Value(s[i])]
    IN  [gp |-> Values(Upto(gp, GpRegisters - named)),
         fp |-> Values(Upto(fp, FpRegisters)),
         stack |-> Values(SelectSeq([i \in 1 .. Len(values) |-> <<i, values[i]>>],
                                    LAMBDA e : e[1] \in rest))]

(* printf, fprintf, snprintf save the registers after their own named      *)
(* parameters; the v forms copy a va_list, at most one register fewer than *)
(* there are.  `gpOffset` is the number of registers already consumed.     *)
VaList(args, gpOffset) ==
    Args(Upto(args.gp, IF GpRegisters - gpOffset < GpRegisters - 1
                       THEN GpRegisters - gpOffset ELSE GpRegisters - 1),
         Upto(args.fp, FpRegisters), args.stack)

Taken(value, args) == [value |-> value, args |-> args]

(* Deliberately wrong: floating arguments do not advance the shared area.  *)
NextDoubleKept(args) ==
    IF args.fp # <<>> THEN Taken(Head(args.fp), [args EXCEPT !.fp = Tail(@)])
                      ELSE Taken(Head(args.stack), args)

NextWord(args) ==
    IF args.gp # <<>> THEN Taken(Head(args.gp), [args EXCEPT !.gp = Tail(@)])
                      ELSE Taken(Head(args.stack), [args EXCEPT !.stack = Tail(@)])

NextDouble(args) ==
    IF args.fp # <<>> THEN Taken(Head(args.fp), [args EXCEPT !.fp = Tail(@)])
                      ELSE Taken(Head(args.stack), [args EXCEPT !.stack = Tail(@)])

(***************************************************************************)
(* The sink: a buffer of `size` bytes, or a file that takes `size` bytes   *)
(* before a write fails.                                                   *)
(***************************************************************************)
Sink(kind, size, utf8, wide) ==
    [kind |-> kind, size |-> size, utf8 |-> utf8, wide |-> wide,
     text |-> <<>>, count |-> 0, error |-> "none"]

Room(s) ==
    IF s.kind = "file" THEN s.size - Len(s.text)
    ELSE IF s.size # 0 /\ Len(s.text) < s.size - 1 THEN s.size - 1 - Len(s.text) ELSE 0

Fail(s, error) == IF s.error = "none" THEN [s EXCEPT !.error = error] ELSE s

(* emit_bytes and sink_write: the count grows by what was asked for, not   *)
(* by what a buffer stores, and must stay an int.                          *)
Emit(s, bytes) ==
    CASE s.error # "none" -> s
      [] s.error = "none" /\ Len(bytes) > IntMax - s.count -> Fail(s, "EINVAL")
      [] OTHER ->
           LET written == [s EXCEPT !.count = @ + Len(bytes),
                                    !.text = @ \o Upto(bytes, Room(s))]
           IN  IF s.kind = "file" /\ Room(s) < Len(bytes) THEN Fail(written, "EIO") ELSE written

(* emit_repeat, in chunks of 16 that no caller can tell apart.             *)
Repeat(s, char, amount) == Emit(s, [i \in 1 .. amount |-> ByteOf[char]])

EmitAll(s, parts) == FoldLeft(Emit, s, parts)

Singles(bytes) == [i \in 1 .. Len(bytes) |-> <<bytes[i]>>]

Zeros(n) == [i \in 1 .. n |-> 48]

(* A field: spaces on the side the minus flag does not name.               *)
Padding(spec, length) == IF spec.width > length THEN spec.width - length ELSE 0

InField(s, spec, length, parts) ==
    LET before == IF spec.left THEN s ELSE Repeat(s, " ", Padding(spec, length))
        body   == EmitAll(before, parts)
    IN  IF spec.left THEN Repeat(body, " ", Padding(spec, length)) ELSE body

(***************************************************************************)
(* parse_spec                                                              *)
(***************************************************************************)
At(f, p) == IF p \in 1 .. Len(f) THEN f[p] ELSE ""

IsDigit(c) == c # "" /\ c \in {"0","1","2","3","4","5","6","7","8","9"}

Flags == {"-", "+", " ", "#", "0"}

RECURSIVE AfterFlags(_, _)
AfterFlags(f, p) == IF At(f, p) \in Flags THEN AfterFlags(f, p + 1) ELSE p

(* parse_decimal: the value is -1 when it does not fit an int.             *)
RECURSIVE ParseDecimal(_, _, _)
ParseDecimal(f, p, value) ==
    IF ~IsDigit(At(f, p)) THEN [at |-> p, value |-> value]
    ELSE LET digit == ByteOf[f[p]] - 48
         IN  IF value > (IntMax - digit) \div 10 THEN [at |-> p, value |-> -1]
             ELSE ParseDecimal(f, p + 1, value * 10 + digit)

(* The width or the precision at p: a star takes an int argument.          *)
Amount(f, p, args) ==
    IF At(f, p) = "*"
      THEN LET w == NextWord(args)
           IN  [at |-> p + 1, value |-> ToSigned(w.value, IntBits), star |-> TRUE,
                args |-> w.args]
      ELSE LET d == ParseDecimal(f, p, 0)
           IN  [at |-> d.at, value |-> d.value, star |-> FALSE, args |-> args]

LengthAt(f, p) ==
    CASE At(f, p) = "h" /\ At(f, p + 1) = "h" -> [length |-> "hh", at |-> p + 2]
      [] At(f, p) = "h" /\ At(f, p + 1) # "h" -> [length |-> "h", at |-> p + 1]
      [] At(f, p) = "l" /\ At(f, p + 1) = "l" -> [length |-> "ll", at |-> p + 2]
      [] At(f, p) = "l" /\ At(f, p + 1) # "l" -> [length |-> "l", at |-> p + 1]
      [] OTHER -> [length |-> "none", at |-> p]

(* ok is FALSE for a number that does not fit, for a width of INT_MIN and  *)
(* for a format that ends inside a specification.                          *)
ParseSpec(f, p, args) ==
    LET first == AfterFlags(f, p)
        flags == {f[i] : i \in p .. first - 1}
        w     == Amount(f, first, args)
        dot   == At(f, w.at) = "."
        prec  == IF dot THEN Amount(f, w.at + 1, w.args)
                        ELSE [at |-> w.at, value |-> 0, star |-> FALSE, args |-> w.args]
        len   == LengthAt(f, prec.at)
        flip  == w.star /\ w.value < 0
    IN  [ok |-> /\ IF w.star THEN -w.value <= IntMax ELSE w.value >= 0
                /\ prec.star \/ prec.value >= 0
                /\ At(f, len.at) # "",
         next |-> len.at + 1, args |-> prec.args,
         spec |-> [left |-> "-" \in flags \/ flip, plus |-> "+" \in flags,
                   space |-> " " \in flags, alternate |-> "#" \in flags,
                   zero |-> "0" \in flags, width |-> IF flip THEN -w.value ELSE w.value,
                   precise |-> dot /\ prec.value >= 0,
                   precision |-> IF prec.value < 0 THEN 0 ELSE prec.value,
                   length |-> len.length, conversion |-> At(f, len.at)]]

(***************************************************************************)
(* Strings and characters                                                  *)
(***************************************************************************)
Null6 == Bytes(<<"(", "n", "u", "l", "l", ")">>)

Pointed(pointer) == IF pointer = <<>> THEN Null6 ELSE pointer[1]

EmitString(s, spec, pointer) ==
    LET text == IF spec.precise THEN Upto(Pointed(pointer), spec.precision) ELSE Pointed(pointer)
    IN  InField(s, spec, Len(text), <<text>>)

EmitCharacter(s, spec, value) == InField(s, spec, 1, <<<<value % 2 ^ CharBits>>>>)

(* emit_wide_character: a field counts bytes, or characters when the       *)
(* output is wide.                                                         *)
EmitWideCharacter(s, spec, value) ==
    LET bytes == MB!Wcrtomb(value, s.utf8)
    IN  IF bytes = <<>> THEN Fail(s, "EILSEQ")
        ELSE InField(s, spec, IF s.wide THEN 1 ELSE Len(bytes), <<bytes>>)

(* emit_wide_string: a character is encoded before the precision is looked *)
(* at, and one whose bytes do not all fit is left out whole.               *)
RECURSIVE WideTaken(_, _, _, _, _)
WideTaken(s, spec, text, n, parts) ==
    IF n = Len(text) THEN [n |-> n, parts |-> parts, ok |-> TRUE]
    ELSE LET next == MB!Wcrtomb(text[n + 1], s.utf8)
             units == IF s.wide THEN n + 1 ELSE Len(FlattenSeq(parts)) + Len(next)
         IN  CASE next = <<>> -> [n |-> n, parts |-> parts, ok |-> FALSE]
               [] next # <<>> /\ spec.precise /\ spec.precision < units ->
                    [n |-> n, parts |-> parts, ok |-> TRUE]
               [] OTHER -> WideTaken(s, spec, text, n + 1, Append(parts, next))

EmitWideString(s, spec, pointer) ==
    LET taken == WideTaken(s, spec, Pointed(pointer), 0, <<>>)
    IN  IF ~taken.ok THEN Fail(s, "EILSEQ")
        ELSE InField(s, spec, IF s.wide THEN taken.n ELSE Len(FlattenSeq(taken.parts)),
                     taken.parts)

(* emit_multibyte_string_wide: whole characters up to the precision.       *)
RECURSIVE Characters(_, _, _, _)
Characters(text, utf8, n, limit) ==
    IF text = <<>> \/ n = limit THEN [n |-> n, used |-> 0, ok |-> TRUE]
    ELSE LET r == MB!Mbrtowc(text, MB!InitialState, utf8)
             more == Characters(SubSeq(text, r.ret + 1, Len(text)), utf8, n + 1, limit)
         IN  IF r.ret <= 0 THEN [n |-> n, used |-> 0, ok |-> FALSE]
             ELSE [more EXCEPT !.used = @ + r.ret]

EmitMultibyteWide(s, spec, pointer) ==
    LET text  == Pointed(pointer)
        taken == Characters(text, s.utf8, 0, IF spec.precise THEN spec.precision ELSE -1)
    IN  IF ~taken.ok THEN Fail(s, "EILSEQ")
        ELSE InField(s, spec, taken.n, <<Upto(text, taken.used)>>)

(***************************************************************************)
(* Integers: emit_number                                                   *)
(***************************************************************************)
DigitByte(v, upper) == IF v < 10 THEN 48 + v ELSE (IF upper THEN 55 ELSE 87) + v

RECURSIVE MakeDigits(_, _, _)
MakeDigits(value, base, upper) ==
    IF value < base THEN <<DigitByte(value, upper)>>
    ELSE Append(MakeDigits(value \div base, base, upper), DigitByte(value % base, upper))

Sign(spec, negative) ==
    CASE negative -> <<45>>
      [] ~negative /\ spec.plus -> <<43>>
      [] ~negative /\ ~spec.plus /\ spec.space -> <<32>>
      [] OTHER -> <<>>

EmitNumber(s, spec, magnitude, negative, base, upper, signed) ==
    LET empty  == spec.precise /\ spec.precision = 0 /\ magnitude = 0
        octal  == spec.alternate /\ base = 8
        made   == IF empty THEN <<>> ELSE MakeDigits(magnitude, base, upper)
        short  == IF spec.precise /\ spec.precision > Len(made)
                    THEN spec.precision - Len(made) ELSE 0
        digits == IF octal /\ made = <<>> THEN <<48>> ELSE made
        zeros  == IF octal /\ made # <<>> /\ short = 0 /\ made[1] # 48 THEN 1 ELSE short
        prefix == (IF signed THEN Sign(spec, negative) ELSE <<>>)
                    \o IF spec.alternate /\ base = 16 /\ magnitude # 0
                         THEN <<48, IF upper THEN 88 ELSE 120>> ELSE <<>>
        length == Len(prefix) + zeros + Len(digits)
        pad    == Padding(spec, length)
        fill   == spec.zero /\ ~spec.left /\ ~spec.precise
        number == <<prefix, Zeros(IF fill THEN pad ELSE 0), Zeros(zeros)>> \o Singles(digits)
    IN  IF fill THEN EmitAll(s, number) ELSE InField(s, spec, length, number)

SignedBits(length) ==
    CASE length = "hh" -> CharBits [] length = "h" -> ShortBits
      [] length \in {"l", "ll"} -> LongBits [] OTHER -> IntBits

(***************************************************************************)
(* Floating point                                                          *)
(***************************************************************************)
Finite(x) == x.exp # ExpMax

FracOne == 16 ^ FracDigits

(* The magnitude of a finite x as a fraction.                              *)
Magnitude(x) ==
    LET significand == IF x.exp = 0 THEN x.frac ELSE FracOne + x.frac
        scale       == (IF x.exp = 0 THEN 1 ELSE x.exp) - Bias
    IN  IF scale >= 0 THEN Frac(significand * 2 ^ scale, FracOne)
                      ELSE Frac(significand, FracOne * 2 ^ (-scale))

Digit10(value, count) == [i \in 1 .. count |-> 48 + ((value \div Pow(10, count - i)) % 10)]

Precision(spec) == IF spec.precise THEN spec.precision ELSE 6

Exponent(marker, x, minimum) ==
    LET m == IF x < 0 THEN -x ELSE x
        made == MakeDigits(m, 10, FALSE)
    IN  <<ByteOf[marker], IF x < 0 THEN 45 ELSE 43>>
          \o Zeros(minimum - Len(made)) \o made

Point(spec, more) == IF more \/ spec.alternate THEN <<46>> ELSE <<>>

(* make_fixed_text: whole and fraction are rounded apart, and the fraction *)
(* carries; <<>> when the format is refused.                               *)
FixedText(spec, q) ==
    LET p     == Precision(spec)
        scale == Pow(10, p)
        whole == Whole(q)
        part  == Times(Frac(q.n - whole * q.d, q.d), scale)
        down  == Whole(part)
        rem   == 2 * (part.n - down * part.d)
        up    == rem > part.d \/ (rem = part.d /\ (IF p = 0 THEN whole ELSE down) % 2 = 1)
        carry == up /\ down + 1 = scale
        fractional == CASE carry -> 0 [] up /\ ~carry -> down + 1 [] OTHER -> down
    IN  IF p > DecimalPrecision \/ ~Less(q, Frac(WholeLimit, 1)) THEN <<>>
        ELSE MakeDigits(IF carry THEN whole + 1 ELSE whole, 10, FALSE)
               \o Point(spec, p # 0) \o Digit10(fractional, p)

(* The two loops of make_significant_decimal that find the exponent.       *)
RECURSIVE Normalized(_, _)
Normalized(q, x) ==
    CASE ~Less(q, Frac(10, 1)) -> Normalized(Over(q, 10), x + 1)
      [] Less(q, Frac(1, 1))   -> Normalized(Times(q, 10), x - 1)
      [] OTHER                 -> [q |-> q, x |-> x]

Significant(q, count) ==
    LET norm  == Normalized(q, 0)
        scale == Pow(10, count - 1)
        near  == NearestEven(Times(norm.q, scale))
        carry == near = scale * 10
    IN  IF q.n = 0 THEN [digits |-> Zeros(count), x |-> 0]
        ELSE [digits |-> Digit10(IF carry THEN scale ELSE near, count),
              x |-> IF carry THEN norm.x + 1 ELSE norm.x]

ScientificText(spec, q, upper) ==
    LET p == Precision(spec)
        d == Significant(q, p + 1)
    IN  IF p > DecimalPrecision THEN <<>>
        ELSE <<d.digits[1]>> \o Point(spec, p # 0) \o Tail(d.digits)
               \o Exponent(IF upper THEN "E" ELSE "e", d.x, 2)

(* make_general_text: trailing zeros are dropped unless # is given.        *)
GeneralText(spec, q, upper) ==
    LET p    == IF Precision(spec) = 0 THEN 1 ELSE Precision(spec)
        d    == Significant(q, p)
        kept == {i \in 1 .. p : i = 1 \/ spec.alternate \/ d.digits[i] # 48}
        e    == CHOOSE i \in kept : \A j \in kept : j <= i
        point == d.x + 1
        used == SubSeq(d.digits, 1, e)
    IN  CASE p > DecimalPrecision -> <<>>
          [] p <= DecimalPrecision /\ (d.x < -4 \/ d.x >= p) ->
               <<used[1]>> \o Point(spec, e > 1) \o Tail(used)
                 \o Exponent(IF upper THEN "E" ELSE "e", d.x, 2)
          [] p <= DecimalPrecision /\ d.x >= -4 /\ point <= 0 ->
               <<48, 46>> \o Zeros(-point) \o used
          [] OTHER -> [i \in 1 .. point |-> IF i <= e THEN used[i] ELSE 48]
                        \o Point(spec, point < e) \o Beyond(used, point)

(* make_hex_text: rounding to nearest even on the bits that are dropped.   *)
HexText(spec, x, upper) ==
    LET zero    == x.exp = 0 /\ x.frac = 0
        lead    == IF x.exp = 0 THEN 0 ELSE 1
        exp2    == CASE zero -> 0 [] ~zero /\ x.exp = 0 -> 1 - Bias [] OTHER -> x.exp - Bias
        exact   == {k \in 0 .. FracDigits : x.frac % 16 ^ (FracDigits - k) = 0}
        p       == IF spec.precise THEN spec.precision
                   ELSE CHOOSE k \in exact : \A j \in exact : k <= j
        unit    == 16 ^ (FracDigits - p)
        down    == x.frac \div unit
        rem     == 2 * (x.frac % unit)
        up      == rem > unit \/ (rem = unit /\ (IF p = 0 THEN lead ELSE down) % 2 = 1)
        kept    == IF up THEN down + 1 ELSE down
        carry   == IF kept = 16 ^ p THEN 1 ELSE 0
        digits  == [i \in 1 .. p |-> DigitByte((kept \div 16 ^ (p - i)) % 16, upper)]
    IN  IF spec.precise /\ spec.precision > FracDigits THEN <<>>
        ELSE <<48 + lead + carry>> \o Point(spec, p # 0) \o digits
               \o Exponent(IF upper THEN "P" ELSE "p", exp2, 1)

Upper(conversion) == conversion \in {"F", "E", "G", "A"}

FloatText(spec, x) ==
    LET q == Magnitude(x)
        up == Upper(spec.conversion)
    IN  CASE spec.conversion \in {"f", "F"} -> FixedText(spec, q)
          [] spec.conversion \in {"e", "E"} -> ScientificText(spec, q, up)
          [] spec.conversion \in {"g", "G"} -> GeneralText(spec, q, up)
          [] OTHER -> HexText(spec, x, up)

Special(x, up) ==
    Bytes(CASE x.frac = 0 /\ up -> <<"I", "N", "F">> [] x.frac = 0 /\ ~up -> <<"i", "n", "f">>
            [] x.frac # 0 /\ up -> <<"N", "A", "N">> [] OTHER -> <<"n", "a", "n">>)

(* emit_floating and emit_float_text: infinities and NaNs take no zeros.   *)
EmitFloating(s, spec, x) ==
    LET up    == Upper(spec.conversion)
        text  == IF Finite(x) THEN FloatText(spec, x) ELSE Special(x, up)
        radix == IF Finite(x) /\ spec.conversion \in {"a", "A"}
                   THEN <<48, IF up THEN 88 ELSE 120>> ELSE <<>>
        sign  == Sign(spec, x.neg)
        total == Len(sign) + Len(radix) + Len(text)
        fill  == spec.zero /\ ~spec.left /\ Finite(x)
    IN  CASE spec.length \notin {"none", "l"} \/ text = <<>> -> Fail(s, "EINVAL")
          [] spec.length \in {"none", "l"} /\ text # <<>> /\ fill ->
               EmitAll(s, <<sign, radix, Zeros(Padding(spec, total)), text>>)
          [] OTHER -> InField(s, spec, total, <<sign, radix, text>>)

(***************************************************************************)
(* emit_conversion and format_dispatch                                     *)
(***************************************************************************)
Base(conversion) ==
    CASE conversion = "o" -> 8 [] conversion \in {"x", "X"} -> 16 [] OTHER -> 10

(* The sink and the arguments after one conversion.                        *)
EmitConversion(s, spec, args) ==
    LET c    == spec.conversion
        word == NextWord(args)
        real == NextDouble(args)
        Step(sink, rest) == [sink |-> sink, args |-> rest]
    IN  CASE c = "s" /\ spec.length = "none" /\ s.wide ->
               Step(EmitMultibyteWide(s, spec, word.value), word.args)
          [] c = "s" /\ spec.length = "none" /\ ~s.wide ->
               Step(EmitString(s, spec, word.value), word.args)
          [] c = "s" /\ spec.length = "l" ->
               Step(EmitWideString(s, spec, word.value), word.args)
          [] c = "c" /\ ~spec.precise /\ spec.length = "none" ->
               Step(IF s.wide /\ word.value % 2 ^ CharBits > \h7F THEN Fail(s, "EILSEQ")
                    ELSE EmitCharacter(s, spec, word.value), word.args)
          [] c = "c" /\ ~spec.precise /\ spec.length = "l" ->
               Step(EmitWideCharacter(s, spec, word.value), word.args)
          [] c \in {"d", "i"} ->
               LET v == ToSigned(word.value, SignedBits(spec.length))
               IN  Step(EmitNumber(s, spec, IF v < 0 THEN -v ELSE v, v < 0, 10, FALSE, TRUE),
                        word.args)
          [] c \in {"u", "o", "x", "X"} ->
               Step(EmitNumber(s, spec, word.value % 2 ^ SignedBits(spec.length), FALSE,
                               Base(c), c = "X", FALSE), word.args)
          [] c \in {"f", "F", "e", "E", "g", "G", "a", "A"} ->
               Step(EmitFloating(s, spec, real.value), real.args)
          [] c = "%" /\ spec.length = "none" /\ ~spec.precise ->
               Step(EmitCharacter(s, spec, 37), args)
          [] OTHER -> Step(Fail(s, "EINVAL"), args)

RECURSIVE LiteralEnd(_, _)
LiteralEnd(f, p) == IF p > Len(f) \/ At(f, p) = "%" THEN p ELSE LiteralEnd(f, p + 1)

(* format_dispatch from position p.                                        *)
RECURSIVE Dispatch(_, _, _, _)
Dispatch(s, f, p, args) ==
    CASE s.error # "none" \/ p > Len(f) -> s
      [] s.error = "none" /\ p <= Len(f) /\ f[p] # "%" ->
           Dispatch(Emit(s, Bytes(SubSeq(f, p, LiteralEnd(f, p) - 1))), f, LiteralEnd(f, p), args)
      [] OTHER ->
           LET parsed == ParseSpec(f, p + 1, args)
               done   == EmitConversion(s, parsed.spec, parsed.args)
           IN  IF ~parsed.ok THEN Fail(s, "EINVAL")
               ELSE Dispatch(done.sink, f, parsed.next, done.args)

(* __mini_snprintf_dispatch and __mini_format_dispatch: -1 is EOF.         *)
Printed(s, f, args) ==
    LET done == Dispatch(s, f, 1, args)
    IN  [ret |-> IF done.error = "none" THEN done.count ELSE -1,
         text |-> done.text, errno |-> done.error]

(* vswprintf: rendered twice as bytes and decoded into size wide           *)
(* characters; ERANGE when they do not fit, and the part that fits stays.  *)
(* vfwprintf sends each character's bytes to the stream instead.           *)
Rendered(f, args, utf8) ==
    LET count == Printed(Sink("memory", 0, utf8, TRUE), f, args).ret
    IN  Printed(Sink("memory", IF count < 0 THEN 0 ELSE count + 1, utf8, TRUE), f, args)

RECURSIVE Decoded(_, _)
Decoded(bytes, utf8) ==
    IF bytes = <<>> THEN <<>>
    ELSE LET r == MB!Mbrtowc(bytes, MB!InitialState, utf8)
             used == IF r.ret = 0 THEN 1 ELSE r.ret
         IN  IF r.ret < 0 THEN <<-1>>
             ELSE <<r.wc>> \o Decoded(SubSeq(bytes, used + 1, Len(bytes)), utf8)

Vswprintf(size, f, args, utf8) ==
    LET rendered == Rendered(f, args, utf8)
        count    == rendered.ret
        wide     == Decoded(rendered.text, utf8)
        stored   == Upto(wide, IF size = 0 THEN 0 ELSE size - 1)
    IN  CASE count < 0 -> [ret |-> -1, text |-> <<>>, errno |-> rendered.errno]
          [] count >= 0 /\ Contains(wide, -1) ->
               [ret |-> -1, text |-> Upto(stored, Len(wide) - 1), errno |-> "EILSEQ"]
          [] count >= 0 /\ ~Contains(wide, -1) /\ Len(wide) >= size ->
               [ret |-> -1, text |-> stored, errno |-> "ERANGE"]
          [] OTHER -> [ret |-> Len(wide), text |-> stored, errno |-> "none"]

(* The stream's bytes and the number of characters vfwprintf reports.      *)
Vfwprintf(room, f, args, utf8) ==
    LET rendered == Rendered(f, args, utf8)
        wide     == Decoded(rendered.text, utf8)
    IN  IF rendered.ret < 0 \/ Contains(wide, -1) \/ Len(rendered.text) > room
          THEN [ret |-> -1, text |-> Upto(rendered.text, room)]
          ELSE [ret |-> Len(wide), text |-> rendered.text]

-----------------------------------------------------------------------------
(***************************************************************************)
(* What the functions promise                                              *)
(***************************************************************************)
(* Every argument is found where the caller put it.                        *)
RECURSIVE TakenInOrder(_, _)
TakenInOrder(values, args) ==
    IF values = <<>> THEN TRUE
    ELSE LET t == IF Head(values).kind = "word" THEN NextWord(args) ELSE NextDouble(args)
         IN  t.value = Head(values).value /\ TakenInOrder(Tail(values), t.args)

ArgumentsRight(values, named) ==
    LET args == Passed(values, named)
    IN  /\ TakenInOrder(values, args)
        /\ named > 0 => TakenInOrder(values, VaList(args, named))

(* snprintf: the value returned does not depend on the buffer, which holds *)
(* the beginning of the full text and a terminator.  A file receives the   *)
(* beginning of the same text.                                             *)
BufferRespected(f, args, size, utf8, wide) ==
    LET full == Printed(Sink("memory", IntMax + 2, utf8, wide), f, args)
        cut  == Printed(Sink("memory", size, utf8, wide), f, args)
        file == Printed(Sink("file", size, utf8, wide), f, args)
    IN  /\ cut.ret = full.ret /\ cut.errno = full.errno
        /\ cut.text = Upto(full.text, IF size = 0 THEN 0 ELSE size - 1)
        /\ full.ret >= 0 => full.ret = Len(full.text)
        /\ file.text = Upto(full.text, size)
        /\ file.ret = IF Len(full.text) <= size THEN full.ret ELSE -1

(* The number a text of digits denotes.                                    *)
DigitOf(b) == CASE b \in 48 .. 57 -> b - 48 [] b \in 65 .. 70 -> b - 55
                [] b \in 97 .. 102 -> b - 87 [] OTHER -> -1

Denoted(digits, base) == FoldLeft(LAMBDA v, b : v * base + DigitOf(b), 0, digits)

Blanks(bytes) == SelectSeq(bytes, LAMBDA b : b = 32)

(* ISO C 7.21.6.1 for the integer conversions: the text denotes the value, *)
(* fills the width, has the precision's digits, and is padded on one side. *)
NumberRight(spec, magnitude, negative, base, upper, signed) ==
    LET text == EmitNumber(Sink("memory", IntMax + 2, FALSE, FALSE), spec,
                           magnitude, negative, base, upper, signed).text
        sign == IF signed THEN Sign(spec, negative) ELSE <<>>
        hex  == IF spec.alternate /\ base = 16 /\ magnitude # 0 THEN 2 ELSE 0
        bare == SelectSeq(text, LAMBDA b : b # 32)
        skip == hex + Len(SelectSeq(sign, LAMBDA b : b # 32))
        digits == Beyond(bare, skip)
        pads == Len(Blanks(text)) - Len(Blanks(sign))
        needed == IF magnitude = 0 THEN 0 ELSE Len(MakeDigits(magnitude, base, upper))
        wanted == IF spec.precise THEN spec.precision ELSE 1
    IN  /\ \A i \in 1 .. Len(digits) : DigitOf(digits[i]) \in 0 .. base - 1
        /\ Denoted(digits, base) = magnitude
        /\ Len(text) >= spec.width
        /\ pads > 0 => Len(text) = spec.width
        /\ Len(digits) >= wanted
        /\ spec.alternate /\ base = 8 => digits # <<>> /\ digits[1] = 48
        /\ Len(digits) > wanted /\ Len(digits) > needed =>
              \/ spec.zero /\ ~spec.left /\ ~spec.precise /\ Len(text) = spec.width
              \/ spec.alternate /\ base = 8 /\ (digits = <<48>> \/ digits[2] # 48)
        /\ digits # <<>> => (IF spec.left THEN text[Len(text)] # 32 \/ pads > 0
                                          ELSE text[Len(text)] # 32)
        /\ spec.left /\ text # <<>> /\ sign # <<32>> => text[1] # 32 \/ bare = <<>>

(* The value of a decimal text: mantissa, point and exponent.              *)
TextValue(text) ==
    LET marks == {i \in 1 .. Len(text) : text[i] \in {69, 101}}
        end   == IF marks = {} THEN Len(text) + 1 ELSE CHOOSE i \in marks : TRUE
        head  == SubSeq(text, 1, end - 1)
        points == {i \in 1 .. Len(head) : head[i] = 46}
        after == IF points = {} THEN 0 ELSE Len(head) - (CHOOSE i \in points : TRUE)
        x     == CASE marks = {} -> 0
                   [] marks # {} /\ text[end + 1] = 45 -> -Denoted(Beyond(text, end + 1), 10)
                   [] OTHER -> Denoted(Beyond(text, end + 1), 10)
    IN  [n |-> Denoted(SelectSeq(head, LAMBDA b : b # 46), 10), after |-> after, x |-> x,
         exponent |-> marks # {}]

(* ISO C for f, e, g and a: the text is the value rounded to nearest, ties *)
(* to even, at the last digit shown; g shows the style its rule chooses.   *)
FloatRight(spec, x) ==
    LET q   == Magnitude(x)
        p   == Precision(spec)
        f   == TextValue(FixedText(spec, q))
        e   == TextValue(ScientificText(spec, q, FALSE))
        g   == TextValue(GeneralText(spec, q, FALSE))
        P   == IF p = 0 THEN 1 ELSE p
        ref == TextValue(ScientificText([spec EXCEPT !.precise = TRUE, !.precision = P - 1],
                                        q, FALSE))
    IN  /\ p <= DecimalPrecision /\ Less(q, Frac(WholeLimit, 1)) =>
             f.after = p /\ f.n = NearestEven(Times(q, Pow(10, p)))
        /\ p <= DecimalPrecision =>
             /\ e.after = p /\ e.n = NearestEven(Shifted(q, p - e.x))
             /\ IF q.n = 0 THEN e.n = 0 /\ e.x = 0 ELSE e.n \in Pow(10, p) .. Pow(10, p + 1) - 1
             /\ Same(Shifted(Frac(g.n, 1), g.x - g.after), Shifted(Frac(ref.n, 1), ref.x - P + 1))
             /\ g.exponent <=> ref.x < -4 \/ ref.x >= P
             /\ ~spec.alternate /\ g.after > 0 => g.n % 10 # 0
        /\ p > DecimalPrecision =>
             FixedText(spec, q) = <<>> /\ ScientificText(spec, q, FALSE) = <<>>

HexRight(spec, x) ==
    LET text   == HexText(spec, x, FALSE)
        end    == CHOOSE i \in 1 .. Len(text) : text[i] = 112
        head   == SelectSeq(SubSeq(text, 1, end - 1), LAMBDA b : b # 46)
        p      == Len(head) - 1
        exp2   == Denoted(Beyond(text, end + 1), 10) * (IF text[end + 1] = 45 THEN -1 ELSE 1)
        value  == Denoted(head, 16)
        q      == Magnitude(x)
        unit   == IF exp2 >= 0 THEN Frac(q.n * 16 ^ p, q.d * 2 ^ exp2)
                               ELSE Frac(q.n * 16 ^ p * 2 ^ (-exp2), q.d)
    IN  text # <<>> =>
          /\ spec.precise => p = spec.precision
          /\ value = NearestEven(unit)
          /\ ~spec.precise => Same(Frac(value, 1), unit)

(* Wide output is the byte output decoded; it reports characters.          *)
WideRight(size, f, args, utf8) ==
    LET bytes == Printed(Sink("memory", IntMax + 2, utf8, TRUE), f, args)
        wide  == Vswprintf(size, f, args, utf8)
    IN  /\ wide.ret >= 0 => wide.ret < size /\ wide.ret = Len(wide.text) /\ bytes.ret >= 0
        /\ wide.text # <<>> => Len(wide.text) < size
        /\ IsPrefix(FlattenSeq([i \in 1 .. Len(wide.text) |-> MB!Wcrtomb(wide.text[i], utf8)]),
                    bytes.text)
        /\ wide.ret >= 0 => Vfwprintf(IntMax, f, args, utf8).ret = wide.ret
=============================================================================
