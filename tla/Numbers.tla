------------------------------- MODULE Numbers -------------------------------
(***************************************************************************)
(* Text to integer: strtol, strtoll (src/stdlib/strtol.c), strtoul         *)
(* (strtoul.c) and atoi (atoi.c).  The three files hold one algorithm with *)
(* three limits, so it is modelled once; LongMax is LONG_MAX, LLONG_MAX or     *)
(* INT_MAX, and 2 * LongMax + 1 the largest unsigned value.  A string is a     *)
(* sequence of characters without its terminator.                          *)
(***************************************************************************)
EXTENDS Integers, Sequences, SequencesExt

CONSTANT LongMax

LongMaxAssumption == LongMax \in Nat /\ LongMax >= 36

Digits == <<"0","1","2","3","4","5","6","7","8","9",
            "a","b","c","d","e","f","g","h","i","j","k","l","m",
            "n","o","p","q","r","s","t","u","v","w","x","y","z">>

Capitals == <<"A","B","C","D","E","F","G","H","I","J","K","L","M",
              "N","O","P","Q","R","S","T","U","V","W","X","Y","Z">>

(* is_c_space and digit_value; the terminator is the empty string.         *)
Space(c) == c \in {" ", "\t", "\n", "VT", "\f", "\r"}

DigitValue(c) ==
    IF Contains(Digits, c) THEN (CHOOSE i \in 1 .. 36 : Digits[i] = c) - 1
    ELSE IF Contains(Capitals, c) THEN (CHOOSE i \in 1 .. 26 : Capitals[i] = c) + 9
    ELSE -1

At(s, i) == IF i \in 1 .. Len(s) THEN s[i] ELSE ""

(* The first position that holds no space.                                 *)
SkipSpaces(s) == CHOOSE i \in 1 .. Len(s) + 1 :
                    ~Space(At(s, i)) /\ \A j \in 1 .. i - 1 : Space(s[j])

(* Deliberately wrong: 0x is skipped without looking at what follows it.   *)
PrefixGreedy(s, at, base) ==
    LET hex == At(s, at) = "0" /\ At(s, at + 1) \in {"x", "X"}
    IN  CASE hex /\ base \in {0, 16}         -> [base |-> 16, at |-> at + 2]
          [] base = 0 /\ At(s, at) = "0"     -> [base |-> 8, at |-> at]
          [] base = 0                        -> [base |-> 10, at |-> at]
          [] OTHER                           -> [base |-> base, at |-> at]

(* The base and the first digit: 0x counts only before a hexadecimal digit.*)
Prefix(s, at, base) ==
    LET hex == /\ At(s, at) = "0" /\ At(s, at + 1) \in {"x", "X"}
               /\ DigitValue(At(s, at + 2)) \in 0 .. 15
    IN  CASE hex /\ base \in {0, 16}         -> [base |-> 16, at |-> at + 2]
          [] ~hex /\ base = 0 /\ At(s, at) = "0" -> [base |-> 8, at |-> at]
          [] ~hex /\ base = 0                -> [base |-> 10, at |-> at]
          [] OTHER                           -> [base |-> base, at |-> at]

(* The digit loop: after an overflow digits are still consumed.            *)
RECURSIVE Accumulate(_, _, _, _, _, _)
Accumulate(s, at, base, limit, value, overflow) ==
    LET digit == DigitValue(At(s, at))
        over  == overflow \/ value > (limit - digit) \div base
    IN  IF digit < 0 \/ digit >= base
          THEN [at |-> at, value |-> value, overflow |-> overflow]
          ELSE Accumulate(s, at + 1, base, limit,
                          IF over THEN value ELSE value * base + digit, over)

(* What a call gives back; end is the number of characters consumed, and   *)
(* -1 when *endptr is not written.                                         *)
Result(value, end, errno) == [value |-> value, end |-> end, errno |-> errno]

Scan(s, base, signedLimit, unsignedLimit, signed) ==
    LET start    == SkipSpaces(s)
        sign     == At(s, start) \in {"+", "-"}
        negative == At(s, start) = "-"
        prefix   == Prefix(s, IF sign THEN start + 1 ELSE start, base)
        limit    == CASE ~signed  -> unsignedLimit
                      [] negative -> signedLimit + 1
                      [] OTHER    -> signedLimit
    IN  [negative |-> negative, first |-> prefix.at,
         read |-> Accumulate(s, prefix.at, prefix.base, limit, 0, FALSE)]

BadBase(base) == base # 0 /\ (base < 2 \/ base > 36)

(* strtol and strtoll.                                                     *)
Strtol(s, base) ==
    IF BadBase(base) THEN Result(0, -1, "EINVAL")
    ELSE LET scan == Scan(s, base, LongMax, 0, TRUE)
             read == scan.read
         IN  CASE read.at = scan.first -> Result(0, 0, "none")
               [] read.at # scan.first /\ read.overflow ->
                    Result(IF scan.negative THEN -LongMax - 1 ELSE LongMax, read.at - 1, "ERANGE")
               [] OTHER ->
                    Result(IF scan.negative THEN -read.value ELSE read.value,
                           read.at - 1, "none")

(* strtoul: a minus sign negates modulo 2^w, also after 0 - value.         *)
Strtoul(s, base) ==
    IF BadBase(base) THEN Result(0, -1, "EINVAL")
    ELSE LET limit == 2 * LongMax + 1
             scan  == Scan(s, base, 0, limit, FALSE)
             read  == scan.read
         IN  CASE read.at = scan.first -> Result(0, 0, "none")
               [] read.at # scan.first /\ read.overflow -> Result(limit, read.at - 1, "ERANGE")
               [] OTHER ->
                    Result(IF scan.negative THEN (-read.value) % (limit + 1) ELSE read.value,
                           read.at - 1, "none")

(* atoi: base ten, no end pointer and no errno; it saturates.              *)
Atoi(s) ==
    LET start    == SkipSpaces(s)
        negative == At(s, start) = "-"
        read     == Accumulate(s, IF At(s, start) \in {"+", "-"} THEN start + 1 ELSE start,
                               10, IF negative THEN LongMax + 1 ELSE LongMax, 0, FALSE)
    IN  CASE read.overflow -> IF negative THEN -LongMax - 1 ELSE LongMax
          [] OTHER         -> IF negative THEN -read.value ELSE read.value

-----------------------------------------------------------------------------
(* ISO C 7.22.1.4: the subject sequence is the longest initial part of the *)
(* expected form.  A form is: w spaces, g signs, h prefix characters and   *)
(* digits up to the position e.                                            *)
Power(b, n) == FoldLeft(LAMBDA p, i : p * b, 1, [i \in 1 .. n |-> i])

Forms(s, base) ==
    {f \in [w : 0 .. Len(s), g : {0, 1}, h : {0, 2}, e : 1 .. Len(s), b : {base, 8, 10, 16}] :
        LET first == f.w + f.g + f.h + 1
        IN  /\ \A i \in 1 .. f.w : Space(s[i])
            /\ f.g = 1 => At(s, f.w + 1) \in {"+", "-"}
            /\ f.h = 2 => /\ base \in {0, 16}
                          /\ At(s, first - 2) = "0" /\ At(s, first - 1) \in {"x", "X"}
            /\ f.b = CASE base # 0 -> base
                       [] base = 0 /\ f.h = 2 -> 16
                       [] base = 0 /\ f.h = 0 /\ At(s, first) = "0" -> 8
                       [] OTHER -> 10
            /\ first <= f.e
            /\ \A i \in first .. f.e : DigitValue(s[i]) \in 0 .. f.b - 1}

Longest(s, base) == CHOOSE f \in Forms(s, base) : \A o \in Forms(s, base) : o.e <= f.e

Magnitude(s, f) ==
    LET first == f.w + f.g + f.h + 1
    IN  FoldLeft(LAMBDA sum, i : sum + DigitValue(s[i]) * Power(f.b, f.e - i), 0,
                 [i \in 1 .. f.e - first + 1 |-> first + i - 1])

Exact(s, f) == IF f.g = 1 /\ s[f.w + 1] = "-" THEN -Magnitude(s, f) ELSE Magnitude(s, f)

Clamped(v) == IF v > LongMax THEN LongMax ELSE IF v < -LongMax - 1 THEN -LongMax - 1 ELSE v

(* The exact value when it fits, the nearest limit and ERANGE when it does *)
(* not, and the end of the longest subject sequence in every case.         *)
ConvertedRight(s, base) ==
    IF BadBase(base) THEN Strtol(s, base).errno = "EINVAL" /\ Strtoul(s, base).errno = "EINVAL"
    ELSE IF Forms(s, base) = {}
      THEN Strtol(s, base) = Result(0, 0, "none") /\ Strtoul(s, base) = Result(0, 0, "none")
    ELSE LET f == Longest(s, base)
             v == Exact(s, f)
             n == Magnitude(s, f)
         IN  /\ Strtol(s, base)
                  = Result(Clamped(v), f.e, IF v = Clamped(v) THEN "none" ELSE "ERANGE")
             /\ Strtoul(s, base)
                  = IF n > 2 * LongMax + 1 THEN Result(2 * LongMax + 1, f.e, "ERANGE")
                                       ELSE Result(v % (2 * LongMax + 2), f.e, "none")
             /\ base = 10 => Atoi(s) = Clamped(v)
=============================================================================
