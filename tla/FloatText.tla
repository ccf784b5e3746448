------------------------------ MODULE FloatText ------------------------------
(***************************************************************************)
(* Text to floating point: src/internal/float_parse.c, the engine below    *)
(* strtod and strtof (src/stdlib/strtod.c) and below the scanner.          *)
(*                                                                         *)
(* A text is a sequence of character codes; the reader is the position of  *)
(* the next character and the last position that the field width allows,   *)
(* which reader_get and reader_unget keep where it is.  A finite magnitude *)
(* is [m, e], the value m * 2^e, in a binary format with FracBits bits     *)
(* after the leading one and exponents up to Bias; m has all its bits      *)
(* unless the number is subnormal.  Infinity is the number after the       *)
(* largest, so that the order of magnitudes is the order of <<e, m>>.      *)
(***************************************************************************)
EXTENDS Text

CONSTANTS DecimalDigits,    \* MINI_FLOAT_DECIMAL_DIGITS
          HexDigits,        \* MINI_FLOAT_HEX_DIGITS
          ExponentCap,      \* MINI_FLOAT_EXPONENT_CAP
          DecimalPowers,    \* entries of the table 10^1, 10^2, 10^4 ...
          BinaryPowers,     \* entries of the table 2^1, 2^2, 2^4 ...
          FracBits, Bias,   \* 52 and 1023
          SingleFracBits, SingleBias   \* 23 and 127

FloatTextAssumption ==
    /\ {DecimalDigits, HexDigits, ExponentCap, DecimalPowers, BinaryPowers} \subseteq Nat \ {0}
    /\ {FracBits, Bias, SingleFracBits, SingleBias} \subseteq Nat \ {0}
    /\ SingleFracBits <= FracBits /\ SingleBias <= Bias

(***************************************************************************)
(* The binary formats: `f` is [bits, bias].                                *)
(***************************************************************************)
Double == [bits |-> FracBits, bias |-> Bias]

Single == [bits |-> SingleFracBits, bias |-> SingleBias]

Least(f) == 1 - f.bias - f.bits

Zero(f) == [m |-> 0, e |-> Least(f)]

Infinity(f) == [m |-> 2 ^ f.bits, e |-> f.bias - f.bits + 1]

Largest(f) == [m |-> 2 ^ (f.bits + 1) - 1, e |-> f.bias - f.bits]

Subnormal(f, x) == x.m < 2 ^ f.bits

Exceeds(x, y) == x.e > y.e \/ (x.e = y.e /\ x.m > y.m)

(* The largest l with 2^l <= n / d.                                        *)
RECURSIVE Log2(_, _)
Log2(n, d) ==
    CASE n >= 2 * d -> Log2(n, 2 * d) + 1
      [] n < d      -> Log2(2 * n, d) - 1
      [] OTHER      -> 0

(* The member of f nearest to n / d * 2^e, of two the one with even m.     *)
Nearest(f, n, d, e) ==
    LET top   == IF n = 0 THEN Least(f) - 2 ELSE e + Log2(n, d)
        x     == IF top - f.bits < Least(f) THEN Least(f) ELSE top - f.bits
        shift == e - x
        m     == NearestEven(IF shift >= 0 THEN Frac(n * 2 ^ shift, d)
                                           ELSE Frac(n, d * 2 ^ (-shift)))
    IN  CASE top < Least(f) - 1 -> Zero(f)
          [] top > f.bias -> Infinity(f)
          [] OTHER -> IF m = 2 ^ (f.bits + 1) THEN [m |-> 2 ^ f.bits, e |-> x + 1]
                                              ELSE [m |-> m, e |-> x]

Multiply(x, y) == Nearest(Double, x.m * y.m, 1, x.e + y.e)

Divide(x, y) == Nearest(Double, x.m, y.m, x.e - y.e)

(***************************************************************************)
(* The reader and the classes of characters.                               *)
(***************************************************************************)
Eof == -1

Get(s, at, last) == IF at <= last THEN s[at] ELSE Eof

Space(c) == c \in {32} \cup (9 .. 13)

Codes(chars) == Range(Bytes(chars))

Lower(c) == IF c \in 65 .. 90 THEN c + 32 ELSE c

HexValue(c) ==
    CASE c \in 48 .. 57 -> c - 48
      [] Lower(c) \in 97 .. 102 -> Lower(c) - 87
      [] OTHER -> -1

DigitIn(c, base) == HexValue(c) \in 0 .. base - 1

Payload(c) == c \in 48 .. 57 \/ Lower(c) \in 97 .. 122 \/ c = 95

RECURSIVE SkipSpace(_, _)
SkipSpace(s, at) == IF Space(Get(s, at, Len(s))) THEN SkipSpace(s, at + 1) ELSE at

(* The first position from `at` on whose character is not in `set`.        *)
RECURSIVE Past(_, _, _, _)
Past(s, at, last, set) == IF Get(s, at, last) \in set THEN Past(s, at + 1, last, set) ELSE at

Sign(c) == c \in Codes(<<"+", "-">>)

(***************************************************************************)
(* The significand: accumulate_digit and round_significand.                *)
(***************************************************************************)
Point == 46

InMantissa(s, from, at, base) ==
    DigitIn(s[at], base) \/ (s[at] = Point /\ \A i \in from .. at - 1 : s[i] # Point)

RECURSIVE MantissaEnd(_, _, _, _, _)
MantissaEnd(s, from, at, last, base) ==
    IF at <= last /\ InMantissa(s, from, at, base)
      THEN MantissaEnd(s, from, at + 1, last, base) ELSE at

Value(digits, base) == FoldLeft(LAMBDA v, d : v * base + d, 0, digits)

(* The digits that are kept, rounded to even by those that are not.        *)
Rounded(kept, lost, base) ==
    LET v == Value(kept, base)
        half == base \div 2
        more == \E i \in 2 .. Len(lost) : lost[i] # 0
    IN  IF lost # <<>> /\ (lost[1] > half \/ (lost[1] = half /\ (more \/ v % 2 = 1)))
          THEN v + 1 ELSE v

(* What parse_decimal and parse_hex have when their digit loop ends: the   *)
(* significand and the power of the base that goes with it.                *)
Mantissa(s, from, last, base, limit) ==
    LET end    == MantissaEnd(s, from, from, last, base)
        text   == SubSeq(s, from, end - 1)
        all    == [i \in 1 .. Len(SelectSeq(text, LAMBDA c : c # Point)) |->
                     HexValue(SelectSeq(text, LAMBDA c : c # Point)[i])]
        point  == {i \in 1 .. Len(text) : text[i] = Point}
        frac   == IF point = {} THEN 0 ELSE Len(text) - (CHOOSE i \in point : TRUE)
        zeros  == {i \in 0 .. Len(all) : \A j \in 1 .. i : all[j] = 0}
        lead   == CHOOSE i \in zeros : \A j \in zeros : j <= i
        digits == SubSeq(all, lead + 1, Len(all))
        kept   == SubSeq(digits, 1, IF Len(digits) < limit THEN Len(digits) ELSE limit)
        lost   == SubSeq(digits, limit + 1, Len(digits))
    IN  [at |-> end, some |-> all # <<>>, significand |-> Rounded(kept, lost, base),
         power |-> Len(lost) - frac]

(***************************************************************************)
(* parse_exponent: `marker` is the position of the e or p.  strtod goes    *)
(* back to it when no digit follows; the scanner has consumed what it read.*)
(***************************************************************************)
ParseExponent(s, marker, last, policy) ==
    LET c     == Get(s, marker + 1, last)
        first == IF Sign(c) THEN marker + 2 ELSE marker + 1
        end   == Past(s, first, last, 48 .. 57)
        sum   == FoldLeft(LAMBDA a, d :
                            IF a.over \/ a.value > (ExponentCap - d) \div 10
                              THEN [a EXCEPT !.over = TRUE]
                              ELSE [a EXCEPT !.value = @ * 10 + d],
                          [value |-> 0, over |-> FALSE],
                          [i \in 1 .. end - first |-> s[first + i - 1] - 48])
    IN  [ok |-> end # first \/ policy = "strto",
         at |-> IF end = first /\ policy = "strto" THEN marker ELSE end,
         negative |-> c = 45, value |-> sum.value, over |-> sum.over]

(***************************************************************************)
(* Scaling: scale_decimal, scale_binary and finish_range                   *)
(***************************************************************************)
Scaled(status, x) == [status |-> status, x |-> x]

RangeFail(x) == Scaled("range", x)

FinishRange(x) == IF Subnormal(Double, x) /\ x.m # 0 THEN RangeFail(x) ELSE Scaled("success", x)

(* One bit of the exponent: multiply, unless that would overflow, or       *)
(* divide by the entry of the table.                                       *)
ScaleOnce(r, power, up) ==
    CASE r.status # "success" -> r
      [] r.status = "success" /\ up ->
           IF Exceeds(r.x, Divide(Largest(Double), power)) THEN RangeFail(Infinity(Double))
           ELSE Scaled("success", Multiply(r.x, power))
      [] OTHER -> Scaled("success", Divide(r.x, power))

BitsOf(n, count) == SelectSeq([i \in 1 .. count |-> i - 1], LAMBDA i : (n \div 2 ^ i) % 2 = 1)

Abs(n) == IF n < 0 THEN -n ELSE n

(* `table` maps the index of a bit to a power.                             *)
ScaleBy(significand, exponent, table, entries) ==
    FoldLeft(LAMBDA r, i : ScaleOnce(r, table[i], exponent > 0),
             Scaled("success", Nearest(Double, significand, 1, 0)),
             BitsOf(Abs(exponent), entries))

Ended(r) ==
    CASE r.status # "success" -> r
      [] r.status = "success" /\ r.x.m = 0 -> RangeFail(r.x)
      [] OTHER -> FinishRange(r.x)

DecimalTable == [i \in 0 .. DecimalPowers - 1 |-> Nearest(Double, Pow(10, 2 ^ i), 1, 0)]

ScaleDecimal(significand, exponent) ==
    LET limit == 2 ^ DecimalPowers - 1
    IN  CASE significand = 0 -> Scaled("success", Zero(Double))
          [] significand # 0 /\ exponent > limit -> RangeFail(Infinity(Double))
          [] significand # 0 /\ exponent < -limit -> RangeFail(Zero(Double))
          [] OTHER -> Ended(ScaleBy(significand, exponent, DecimalTable, DecimalPowers))

BinaryTable == [i \in 0 .. BinaryPowers - 1 |-> Nearest(Double, 1, 1, 2 ^ i)]

(* An exponent may have one bit more than the table has entries; the value *)
(* is then given up, although it can still be a number.                    *)
ScaleBinary(significand, exponent) ==
    LET beyond == Abs(exponent) >= 2 ^ BinaryPowers
        r      == ScaleBy(significand, exponent, BinaryTable, BinaryPowers)
    IN  CASE significand = 0 -> Scaled("success", Zero(Double))
          [] significand # 0 /\ beyond /\ exponent > 0 -> RangeFail(Infinity(Double))
          [] significand # 0 /\ beyond /\ exponent < 0 -> RangeFail(Zero(Double))
          [] OTHER -> Ended(r)

(***************************************************************************)
(* What a call gives back.  value is [nan, neg, x]; without a conversion   *)
(* it is meaningless.                                                      *)
(***************************************************************************)
Parsed(status, at, neg, x) ==
    [status |-> status, at |-> at, value |-> [nan |-> FALSE, neg |-> neg, x |-> x]]

Failed(status, at) == Parsed(status, at, FALSE, Zero(Double))

NotANumber(at, neg) ==
    [status |-> "success", at |-> at,
     value |-> [nan |-> TRUE, neg |-> neg, x |-> Infinity(Double)]]

(* parse_decimal from `from` and parse_hex after the prefix: base decides. *)
ParseDigits(s, from, last, policy, neg, convert, base) ==
    LET hex    == base = 16
        digits == Mantissa(s, from, last, base, IF hex THEN HexDigits ELSE DecimalDigits)
        marked == Lower(Get(s, digits.at, last)) = (IF hex THEN 112 ELSE 101)
        exp    == IF marked THEN ParseExponent(s, digits.at, last, policy)
                  ELSE [ok |-> TRUE, at |-> digits.at, negative |-> FALSE, value |-> 0,
                        over |-> FALSE]
        power  == (IF hex THEN 4 * digits.power ELSE digits.power)
                    + (IF exp.negative THEN -exp.value ELSE exp.value)
        r      == CASE digits.significand = 0 -> Scaled("success", Zero(Double))
                    [] digits.significand # 0 /\ exp.over ->
                         RangeFail(IF exp.negative THEN Zero(Double) ELSE Infinity(Double))
                    [] OTHER -> IF hex THEN ScaleBinary(digits.significand, power)
                                       ELSE ScaleDecimal(digits.significand, power)
    IN  CASE ~digits.some -> Failed("match", digits.at)
          [] digits.some /\ ~exp.ok -> Failed("match", exp.at)
          [] digits.some /\ exp.ok /\ ~convert -> Failed("success", exp.at)
          [] OTHER -> Parsed(r.status, exp.at, neg, r.x)

(* match_required: the position after the longest match, and whether it is *)
(* the whole word.                                                         *)
RECURSIVE Match(_, _, _, _)
Match(s, at, last, word) ==
    CASE word = <<>> -> [ok |-> TRUE, at |-> at]
      [] word # <<>> /\ Lower(Get(s, at, last)) = Head(word) -> Match(s, at + 1, last, Tail(word))
      [] OTHER -> [ok |-> FALSE, at |-> at]

(* parse_infinity and parse_nan, from the second letter.  An optional rest *)
(* that is incomplete is given back by strtod, and fails for the scanner.  *)
ParseInfinity(s, at, last, policy, neg) ==
    LET nf   == Match(s, at, last, Bytes(<<"n", "f">>))
        rest == Match(s, nf.at, last, Bytes(<<"i", "n", "i", "t", "y">>))
        none == rest.at = nf.at
    IN  CASE ~nf.ok -> Failed("match", nf.at)
          [] nf.ok /\ ~rest.ok /\ ~none /\ policy = "scan" -> Failed("match", rest.at)
          [] OTHER -> Parsed("success", IF rest.ok THEN rest.at ELSE nf.at, neg, Infinity(Double))

ParseNan(s, at, last, policy, neg) ==
    LET an    == Match(s, at, last, Bytes(<<"a", "n">>))
        open  == Get(s, an.at, last) = 40
        end   == Past(s, an.at + 1, last, {c \in Range(s) : Payload(c)})
        close == Get(s, end, last) = 41
    IN  CASE ~an.ok -> Failed("match", an.at)
          [] an.ok /\ open /\ ~close /\ policy = "scan" -> Failed("match", end)
          [] OTHER -> NotANumber(IF open /\ close THEN end + 1 ELSE an.at, neg)

(* __mini_float_parse.  Without `convert` only the text is consumed.       *)
Parse(s, from, width, policy, convert) ==
    LET start == SkipSpace(s, from)
        last  == IF start + width - 1 < Len(s) THEN start + width - 1 ELSE Len(s)
        c     == Get(s, start, last)
        neg   == c = 45
        at    == IF Sign(c) THEN start + 1 ELSE start
        first == Get(s, at, last)
        hex   == first = 48 /\ Lower(Get(s, at + 1, last)) = 120
        sixteen == ParseDigits(s, at + 2, last, policy, neg, convert, 16)
    IN  CASE c = Eof -> Failed("input", start)
          [] c # Eof /\ first = Eof -> Failed("match", at)
          [] Lower(first) = 105 -> ParseInfinity(s, at + 1, last, policy, neg)
          [] Lower(first) = 110 -> ParseNan(s, at + 1, last, policy, neg)
          [] hex /\ sixteen.status = "match" /\ policy = "strto" ->
               Parsed("success", at + 1, neg, Zero(Double))
          [] hex /\ ~(sixteen.status = "match" /\ policy = "strto") -> sixteen
          [] OTHER -> ParseDigits(s, at, last, policy, neg, convert, 10)

(* __mini_float_narrow of a magnitude.                                     *)
Narrow(x) ==
    LET near == Nearest(Single, x.m, 1, x.e)
        most == Nearest(Double, Largest(Single).m, 1, Largest(Single).e)
    IN  CASE x = Infinity(Double) -> Scaled("success", Infinity(Single))
          [] x # Infinity(Double) /\ (Exceeds(x, most) \/ (x.m # 0 /\ Subnormal(Single, near))) ->
               RangeFail(near)
          [] OTHER -> Scaled("success", near)

(***************************************************************************)
(* strtod and strtof: the value, the characters consumed, and errno.       *)
(***************************************************************************)
NoWidth == 99

Strtod(s) ==
    LET r == Parse(s, 1, NoWidth, "strto", TRUE)
    IN  IF r.status \in {"match", "input"}
          THEN [value |-> Failed("match", 1).value, end |-> 0, errno |-> "none"]
          ELSE [value |-> r.value, end |-> r.at - 1,
                errno |-> IF r.status = "range" THEN "ERANGE" ELSE "none"]

Strtof(s) ==
    LET r == Strtod(s)
        narrowed == Narrow(r.value.x)
    IN  IF r.value.nan THEN r
        ELSE [r EXCEPT !.value.x = narrowed.x,
                       !.errno = IF narrowed.status = "range" THEN "ERANGE" ELSE @]

-----------------------------------------------------------------------------
(* ISO C 7.22.1.3: the expected form of the text, without its white space. *)
MantissaForm(t, base) ==
    /\ \E i \in 1 .. Len(t) : DigitIn(t[i], base)
    /\ \A i, j \in 1 .. Len(t) : /\ DigitIn(t[i], base) \/ t[i] = Point
                                 /\ t[i] = Point /\ t[j] = Point => i = j

ExponentForm(t, marker) ==
    LET first == IF Len(t) > 1 /\ Sign(t[2]) THEN 3 ELSE 2
    IN  /\ Lower(t[1]) = marker /\ first <= Len(t)
        /\ \A i \in first .. Len(t) : DigitIn(t[i], 10)

NumeralForm(t, base, marker) ==
    \E k \in 1 .. Len(t) : /\ MantissaForm(SubSeq(t, 1, k), base)
                           /\ k < Len(t) => ExponentForm(SubSeq(t, k + 1, Len(t)), marker)

Words == {<<"i","n","f">>, <<"i","n","f","i","n","i","t","y">>, <<"n","a","n">>}

NanForm(t) ==
    /\ Len(t) > 4 /\ SubSeq(t, 1, 4) = Bytes(<<"n", "a", "n", "(">>) /\ t[Len(t)] = 41
    /\ \A i \in 5 .. Len(t) - 1 : Payload(t[i])

BodyForm(t) ==
    LET low == [i \in 1 .. Len(t) |-> Lower(t[i])]
    IN  \/ NumeralForm(t, 10, 101)
        \/ Len(t) > 2 /\ low[1] = 48 /\ low[2] = 120 /\ NumeralForm(SubSeq(t, 3, Len(t)), 16, 112)
        \/ \E w \in Words : low = Bytes(w)
        \/ NanForm(low)

Form(t) == BodyForm(IF t # <<>> /\ Sign(t[1]) THEN Tail(t) ELSE t)

(* What is, or is the beginning of, a text of that form.                   *)
Endings == {<<>>, <<48>>, <<41>>} \cup
           {SubSeq(Bytes(w), k, Len(w)) : w \in Words, k \in 1 .. 8}

Viable(t) == \E x \in Endings : Form(t \o x)

Longest(s, from, n, Good(_)) ==
    LET K == {k \in 0 .. n : Good(SubSeq(s, from, from + k - 1))}
    IN  CHOOSE k \in K \cup {-1} : \A j \in K : j <= k

(* strtod converts the longest text of the form; the scanner consumes the  *)
(* longest beginning of one that its width allows, whether or not it is    *)
(* one, and consumes the same when it converts nothing.                    *)
LexedRight(s, width) ==
    LET start == SkipSpace(s, 1)
        left  == Len(s) - start + 1
        d     == Longest(s, start, left, Form)
        item  == Longest(s, start, IF width < left THEN width ELSE left, Viable)
        scan  == Parse(s, 1, width, "scan", TRUE)
        skip  == Parse(s, 1, width, "scan", FALSE)
        good  == {"success", "range"}
    IN  /\ Strtod(s).end = IF d = -1 THEN 0 ELSE start + d - 1
        /\ scan.status = "input" <=> left = 0
        /\ left > 0 => /\ scan.at = start + item
                       /\ scan.status \in good <=> Form(SubSeq(s, start, start + item - 1))
        /\ skip.at = scan.at /\ skip.status # "range"
        /\ skip.status = IF scan.status \in good THEN "success" ELSE scan.status

(* The numeral of `digits` with `frac` of them after the point, times      *)
(* `exponent` as a power of 10 or of 2.                                    *)
NumeralText(digits, frac, exponent, base) ==
    LET text == [i \in 1 .. Len(digits) |-> digits[i] + (IF digits[i] > 9 THEN 87 ELSE 48)]
        cut  == Len(digits) - frac
        m    == Abs(exponent)
    IN  (IF base = 16 THEN <<48, 120>> ELSE <<>>) \o SubSeq(text, 1, cut) \o <<Point>>
          \o SubSeq(text, cut + 1, Len(text))
          \o <<IF base = 16 THEN 112 ELSE 101, IF exponent < 0 THEN 45 ELSE 43>>
          \o <<48 + m \div 10, 48 + (m % 10)>>

Rank(f, x) == x.m + (x.e - Least(f)) * 2 ^ f.bits

Exact(f, n, x, base) ==
    CASE base = 16           -> Nearest(f, n, 1, x)
      [] base = 10 /\ x >= 0 -> Nearest(f, n * Pow(10, x), 1, 0)
      [] OTHER               -> Nearest(f, n, Pow(10, -x), 0)

Reached(power, base) ==
    Abs(power) < 2 ^ (IF base = 16 THEN BinaryPowers ELSE DecimalPowers)

(* Digits beyond those that are kept round the significand to even.        *)
(* A numeral that needs one rounding is the nearest number; any other is   *)
(* near it by as many places as there are roundings; and ERANGE says that  *)
(* the result is infinite, subnormal, or zero for a numeral that is not.   *)
ValueRight(digits, frac, exponent, base) ==
    LET n     == Value(digits, base)
        x     == IF base = 16 THEN exponent - 4 * frac ELSE exponent - frac
        d     == Strtod(NumeralText(digits, frac, exponent, base))
        f     == Strtof(NumeralText(digits, frac, exponent, base))
        exact == Exact(Double, n, x, base)
        near  == Exact(Single, n, x, base)
        fits  == n < 2 ^ (FracBits + 1)
        text  == NumeralText(digits, frac, exponent, base)
        limit == IF base = 16 THEN HexDigits ELSE DecimalDigits
        kept  == Mantissa(text, IF base = 16 THEN 3 ELSE 1, Len(text), base, limit)
        lost  == {k \in 0 .. Len(digits) : n < Pow(base, limit + k)}
        k     == CHOOSE i \in lost : \A j \in lost : i <= j
    IN  /\ kept.significand = NearestEven(Frac(n, Pow(base, k))) /\ kept.power = k - frac
        /\ d.errno = "ERANGE" <=>
             n # 0 /\ (d.value.x = Infinity(Double) \/ Subnormal(Double, d.value.x))
        /\ n = 0 => d.value.x = Zero(Double) /\ f.errno = "none"
        /\ n # 0 /\ (f.value.x = Infinity(Single) \/ Subnormal(Single, f.value.x)) =>
             f.errno = "ERANGE"
        /\ f.errno = "ERANGE" =>
             \/ f.value.x \in {Largest(Single), Infinity(Single)}
             \/ Subnormal(Single, f.value.x)
        /\ Reached(x, base) =>
             /\ fits /\ (base = 16 \/ Abs(x) \in {0, 1, 2}) => d.value.x = exact
             /\ Abs(Rank(Double, d.value.x) - Rank(Double, exact)) <= 3
             /\ Abs(Rank(Single, f.value.x) - Rank(Single, near)) <= 1
=============================================================================
