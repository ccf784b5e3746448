---------------------------- MODULE Conversions ----------------------------
(***************************************************************************)
(* A program that calls the functions of the library whose answer depends  *)
(* on their arguments and on what the last call left in a conversion state *)
(* or in a text: multibyte and wide characters, numbers, strings, sorting, *)
(* the calendar, formatted output and formatted input.  A step makes one   *)
(* call; the action properties say what is right when the program goes on  *)
(* from it.  The arguments are those of the sets below.                    *)
(***************************************************************************)
EXTENDS Integers, Sequences, FiniteSets

VARIABLE call

Order(x, y) == x[1] - y[1]

Multibyte == INSTANCE Multibyte

Wide == INSTANCE WideClasses

Numbers == INSTANCE Numbers WITH LongMax <- 127

Search == INSTANCE Searching WITH Compare <- Order

Strings == INSTANCE Strings

Calendar == INSTANCE Calendar
              WITH IntMax <- 8100, LongMax <- 127, ClocksPerSec <- 10, NsecPerTick <- 2

Format == INSTANCE Formatting
            WITH CharBits <- 8, ShortBits <- 9, IntBits <- 10, LongBits <- 11,
                 GpRegisters <- 3, FpRegisters <- 1, FracDigits <- 1, Bias <- 3,
                 ExpMax <- 7, DecimalPrecision <- 2, WholeLimit <- 8

(* A binary format of one hexadecimal digit, and the tables that go with   *)
(* it as 9 and 10 entries go with binary64.                                *)
Half == INSTANCE Formatting
          WITH CharBits <- 8, ShortBits <- 9, IntBits <- 10, LongBits <- 11,
               GpRegisters <- 3, FpRegisters <- 1, FracDigits <- 1, Bias <- 15,
               ExpMax <- 31, DecimalPrecision <- 2, WholeLimit <- 8

Scan == INSTANCE Scanning
          WITH CharBits <- 8, ShortBits <- 9, IntBits <- 10, LongBits <- 11,
               Registers <- 4, WidthMax <- 99, DecimalDigits <- 2, HexDigits <- 2,
               ExponentCap <- 50, DecimalPowers <- 3, BinaryPowers <- 4,
               FracBits <- 4, Bias <- 15, SingleFracBits <- 2, SingleBias <- 7

ConversionsAssumption ==
    /\ Numbers!LongMaxAssumption /\ Calendar!TimeAssumption
    /\ Format!FormattingAssumption /\ Half!FormattingAssumption
    /\ Scan!ScanningAssumption

Idle == [op |-> "none"]

Init == call = Idle

Returns == call' = Idle

-----------------------------------------------------------------------------
(* mbrtowc: `fed` is what it has taken of the character so far, `r` its    *)
(* last answer, with the state that the next call starts from.  The bytes  *)
(* are one of each kind that the decoder or the standard tells apart.      *)
Bytes == {0, 65, \h80, \h8F, \h90, \h9F, \hA0, \hBF, \hC1, \hC2, \hDF, \hE0,
          \hED, \hEF, \hF0, \hF4, \hF5}

Chunks == {<<b>> : b \in Bytes} \cup {<<b, c>> : b \in Bytes, c \in Bytes}

Used(chunk, r) == CASE r.ret = 0 -> 1 [] r.ret < 0 -> Len(chunk) [] OTHER -> r.ret

Fed(fed, chunk, st) ==
    LET r == Multibyte!Mbrtowc(chunk, st, TRUE)
    IN  [op |-> "mbrtowc", r |-> r, inside |-> Used(chunk, r) <= Len(chunk),
         fed |-> fed \o SubSeq(chunk, 1, Multibyte!Min({Used(chunk, r), Len(chunk)}))]

MbrtowcFirst ==
    /\ call = Idle
    /\ \E chunk \in Chunks : call' = Fed(<<>>, chunk, Multibyte!InitialState)

MbrtowcNext ==
    /\ call.op = "mbrtowc" /\ call.r.ret = Multibyte!Incomplete
    /\ \E chunk \in Chunks : call' = Fed(call.fed, chunk, call.r.st)

Converts ==
    /\ call = Idle
    /\ \E n \in 0 .. 3, len \in 0 .. 4, utf8 \in BOOLEAN :
         \E s \in [1 .. n -> {<<65>>, <<\hC3, \hA9>>, <<\hF0, \h90, \h80, \h80>>, <<\hBF>>}] :
           call' = [op |-> "mbsrtowcs", len |-> len, utf8 |-> utf8,
                    s |-> Multibyte!FlattenSeq(s)]

(* Multibyte characters are decoded as Unicode says, in any pieces, and    *)
(* strings convert the same whatever the size of the destination.          *)
MultibyteRight ==
    [][/\ call.op = "mbrtowc" =>
            call.inside /\ Multibyte!DecodedRight(call.fed, call.r)
       /\ call.op = "mbsrtowcs" => Multibyte!StringsRight(call.s, call.len, call.utf8)]_call

-----------------------------------------------------------------------------
Characters ==
    (0 .. 470) \cup {1024, 1071, \h660, \h669, \h66A, \h1F80, \h1F88, \h2028, \h2160, \h2170,
                    8490, \h24B6, \h24D0, \h3000, \hD7FF, \hD800, \hDFFF, \hE000, \hFFFF,
                    \h1E921, \h1E943, \h1E944, \hE01EF, \hE01F0, \h10FFFF, \h110000}

(* "invalid" is a locale_t that freelocale has been called on.              *)
Classifies ==
    /\ call = Idle
    /\ \E c \in Characters, locale \in {"C", "UTF-8", "invalid"} :
         call' = [op |-> "iswctype", c |-> c, locale |-> locale]

(* The classes of a character are those of ISO C 7.30.2.1, its mappings    *)
(* lead out of one class once, the tables are searched completely, and     *)
(* the functions on bytes agree.                                           *)
ClassesRight ==
    [][call.op = "iswctype" =>
         /\ Wide!WellClassified(Wide!InClasses(call.c, call.locale))
         /\ Wide!CaseFits(call.c, call.locale)
         /\ call.c <= 255 /\ call.locale # "invalid" => Wide!BytesAgree(call.c, call.locale)
         /\ Wide!Found(Wide!LowerTable, call.c) /\ Wide!Found(Wide!UpperTable, call.c)
         /\ Wide!FoundRange(call.c)]_call

-----------------------------------------------------------------------------
Numerals ==
    UNION {[1 .. n -> {" ", "-", "0", "1", "x", "f"}] : n \in 0 .. 4} \cup
    {<<"1","2","7">>, <<"1","2","8">>, <<"-","1","2","8">>, <<"-","1","2","9">>,
     <<"2","5","5">>, <<"-","2","5","5">>, <<"2","5","6">>, <<"0","x","7","f","z">>,
     <<"+","0","X","F","F","F">>}

ConvertsNumber ==
    /\ call = Idle
    /\ \E s \in Numerals, base \in {0, 1, 8, 10, 16, 36} :
         call' = [op |-> "strtol", s |-> s, base |-> base]

(* Elements are <<key, where it was>>.                                     *)
Sorts ==
    /\ call = Idle
    /\ \E n \in 0 .. 4, key \in 0 .. 4 :
         \E a \in [1 .. n -> 1 .. 3] :
           call' = [op |-> "qsort", a |-> [i \in 1 .. n |-> <<a[i], i>>], key |-> <<key, 0>>]

Divides ==
    /\ call = Idle
    /\ \E n \in -4 .. 4, d \in (-3 .. 3) \ {0} : call' = [op |-> "div", n |-> n, d |-> d]

Lexemes ==
    {<<"i","n","f","i","n","x">>, <<"I","N","F","I","N","I","T","Y","x">>, <<"i","n","f","i">>,
     <<"-","n","a","n","(","1","_","a",")","x">>, <<"n","a","n","(","-">>, <<"n","a","n">>,
     <<"n","a","n","(">>, <<"n","a","n","(",")">>, <<"n","a">>, <<"0","x",".","p","1">>,
     <<"0","x","f",".","p","-","1","q">>, <<"1",".","5","e","+","X">>,
     <<"+",".","5","E","-","3","1","e">>, <<"1","e","9","9","9">>, <<"0","x","1","p","-","9","9">>}
      \cup UNION {[1 .. n -> {" ", "-", "0", "1", ".", "e", "x", "p"}] : n \in 0 .. 3}
      \cup [1 .. 4 -> {"-", "0", "x", ".", "p"}] \cup [1 .. 4 -> {"-", "1", "e"}]

Mantissas(n, digits) == UNION {[1 .. k -> digits] : k \in 1 .. n}

ConvertsFloat ==
    /\ call = Idle
    /\ \/ \E s \in Lexemes, width \in {1, 2, 4, 6, 99} :
            call' = [op |-> "strtod", s |-> Scan!Bytes(s), width |-> width]
       \/ \E d \in Mantissas(3, {0, 1, 5, 9}), exponent \in -6 .. 5 : \E frac \in 0 .. Len(d) :
            call' = [op |-> "value", d |-> d, frac |-> frac, exponent |-> exponent, base |-> 10]
       \/ \E d \in Mantissas(3, {0, 1, 7, 8, 15}), exponent \in -30 .. 18 :
            call' = [op |-> "value", d |-> d, frac |-> Len(d) - 1, exponent |-> exponent,
                     base |-> 16]
       \/ \E d \in [1 .. 4 -> {0, 1, 8}] :
            call' = [op |-> "value", d |-> d, frac |-> 1, exponent |-> 1, base |-> 16]

(* strtol, strtoul and atoi give the value of the longest numeral or the   *)
(* limit of the type, strtod reads the longest numeral and rounds it,      *)
(* qsort and bsearch agree, and div truncates.                             *)
NumbersRight ==
    [][/\ call.op = "strtol" => Numbers!ConvertedRight(call.s, call.base)
       /\ call.op = "strtod" => Scan!LexedRight(call.s, call.width)
       /\ call.op = "value" => Scan!ValueRight(call.d, call.frac, call.exponent, call.base)
       /\ call.op = "qsort" => Search!SortedRight(call.a, call.key)
       /\ call.op = "div" => Search!DividedRight(call.n, call.d)]_call

-----------------------------------------------------------------------------
Words(n) == UNION {[1 .. k -> {1, 2}] : k \in 0 .. n}

(* A word, its terminator and bytes with no meaning: n in all.             *)
Room(w, n) == w \o <<0>> \o [i \in 1 .. n - Len(w) - 1 |-> 7]

Copies ==
    /\ call = Idle
    /\ \/ \E v, w \in Words(2), n \in 0 .. 3 :
            call' = [op |-> "strcat", m |-> Room(v, 6) \o Room(w, 4), n |-> n]
       \/ \E d, s \in 1 .. 3, n \in 0 .. 3 :
            call' = [op |-> "memmove", d |-> d, s |-> s, n |-> n]

(* strtok: the text it is called on, its static pointer, and where in the  *)
(* text the search for this token began.                                   *)
Tokenised(text, delim, from, r) ==
    [op |-> "strtok", text |-> text, delim |-> delim, from |-> from, r |-> r]

StrtokFirst ==
    /\ call = Idle
    /\ \E text \in UNION {[1 .. k -> 1 .. 3] : k \in 0 .. 4}, delim \in SUBSET {1, 2} :
         call' = Tokenised(text, delim, 1,
                           Strings!Strtok(text \o <<0>>, Strings!Null, 1, delim))

StrtokNext ==
    /\ call.op = "strtok" /\ call.r.token # Strings!Null
    /\ call' = Tokenised(call.text, call.delim,
                         Strings!Expected(call.text, call.from, call.delim).from,
                         Strings!Strtok(call.r.m, call.r.next, Strings!Null, call.delim))

TokenRight(c) ==
    LET token == Strings!Expected(c.text, c.from, c.delim).token
    IN  IF token = <<>> THEN c.r.token = Strings!Null
        ELSE c.r.token # Strings!Null /\ Strings!Text(c.r.m, c.r.token) = token

(* memmove copies as through a temporary array, the str functions agree    *)
(* with sequences, and strtok yields the tokens of the text it was given.  *)
StringsRight ==
    [][/\ call.op = "strcat" => Strings!StringsAgree(call.m, 1, 7, call.n)
       /\ call.op = "memmove" => Strings!MovedRight(<<1, 2, 3, 4, 5, 6>>, call.d, call.s, call.n)
       /\ call.op = "strtok" => TokenRight(call)]_call

-----------------------------------------------------------------------------
Years ==
    {0, 1, 4, 5, 99, 100, 101, 399, 400, 401, 1600, 1899, 1900, 1901, 1969, 1970, 1971,
     1972, 1999, 2000, 2001, 2004, 2008, 2009, 2010, 2015, 2016, 2020, 2021, 2026, 2027,
     2100, 2400, 9998, 9999}

(* Days around the turn of a year, the end of February and of each month.  *)
Days ==
    {Calendar!DaysFromCivil(y, 1, 1) + o : y \in Years, o \in -6 .. 6} \cup
    {Calendar!DaysFromCivil(y, 3, 1) + o : y \in Years, o \in -2 .. 1} \cup
    {Calendar!DaysFromCivil(y, m, 1) + o : y \in {1999, 2000}, m \in 1 .. 12, o \in {-1, 0}}

Noon(day) == [day |-> day, sec |-> 43200]

Templates ==
    {<<<<"%", k>>>> : k \in {"a", "A", "B", "c", "F", "r", "g", "G", "j", "z", "end", "Q"}}
      \cup {<<<<"", "x">>, <<"%", "d">>>>}

Dates ==
    /\ call = Idle
    /\ \/ \E day \in Days, sec \in {0, 86399} :
            call' = [op |-> "gmtime", t |-> [day |-> day, sec |-> sec]]
       \/ \E day \in {-719528, -1, 0, 59, 365, 10956, 11015}, months \in -2 .. 2,
             mdays \in {-40, -1, 0, 1, 400}, seconds \in {-90, 0, 61} :
            call' = [op |-> "mktime", day |-> day, months |-> months, mdays |-> mdays,
                     seconds |-> seconds]
       \/ \E size \in {0, 1, 2, 3, 4, 5, 6, 11, 12, 26}, f \in Templates,
             day \in {-719528, 0, 11015} :
            call' = [op |-> "strftime", size |-> size, f |-> f, day |-> day]
       \/ \E sec \in -1 .. 14, nsec \in 0 .. 19 :
            call' = [op |-> "clock", sec |-> sec, nsec |-> nsec]

(* gmtime counts the days of a calendar, mktime inverts it and normalises, *)
(* the ISO week is that of the Thursday, and strftime keeps to its buffer. *)
CalendarRight ==
    [][/\ call.op = "gmtime" => Calendar!DayRight(call.t)
       /\ call.op = "mktime" =>
            Calendar!NormalisedRight(Calendar!Gmtime(Noon(call.day)), call.months,
                                     call.mdays, call.seconds)
       /\ call.op = "strftime" =>
            Calendar!WrittenRight(call.size, call.f, Calendar!Gmtime(Noon(call.day)))
       /\ call.op = "clock" => Calendar!ClockRight(call.sec, call.nsec)]_call

-----------------------------------------------------------------------------
Word(v) == [kind |-> "word", value |-> v]

Double(neg, exp, frac) ==
    [kind |-> "double", value |-> [neg |-> neg, exp |-> exp, frac |-> frac]]

(* Formats with the arguments they ask for.                                *)
Prints ==
    {<< <<"%", "d">>, <<Word(1000)>> >>,
     << <<"a", "%", "5", "s", "b">>, <<Word(<< <<65, 66, 67>> >>)>> >>,
     << <<"a", "%", "-", "*", "d", "|">>, <<Word(6), Word(42)>> >>,
     << <<"%", "*", "d", "|">>, <<Word(1024 - 6), Word(42)>> >>,
     << <<"%", "5", "1", "1", "d">>, <<Word(3)>> >>,
     << <<"%", "5", "1", "1", "d", "z">>, <<Word(3)>> >>,
     << <<"%", "5", "1", "2", "d">>, <<Word(3)>> >>,
     << <<"%", "6", ".", "3", "l", "s", "%", "%">>, <<Word(<< <<65, 233, 8364>> >>)>> >>,
     << <<"%", "l", "s">>, <<Word(<< <<65, 55296, 8364>> >>)>> >>,
     << <<"%", "4", "l", "c">>, <<Word(233)>> >>,
     << <<"%", "c">>, <<Word(233)>> >>,
     << <<"%", "3", "c">>, <<Word(65)>> >>,
     << <<"%", ".", "2", "s">>, <<Word(<< <<195, 169, 65, 195, 169>> >>)>> >>,
     << <<"%", "s">>, <<Word(<<>>)>> >>,
     << <<"%", "5", "s">>, <<Word(<< <<195>> >>)>> >>,
     << <<"%", "h", "h", "d", " ", "%", "+", ".", "1", "f">>,
        <<Word(511), Double(FALSE, 3, 4)>> >>,
     << <<"%", "A", " ", "%", "6", "E">>, <<Double(TRUE, 3, 4), Double(TRUE, 7, 4)>> >>,
     << <<"%", "q">>, <<>> >>, << <<"x", "%">>, <<>> >>,
     << <<"%", ".", "1", "c">>, <<Word(65)>> >>,
     << <<"%", "l", "l", "x", "%", "#", "o">>, <<Word(2047), Word(8)>> >>}

Kinds == UNION {[1 .. n -> {"word", "double"}] : n \in 0 .. 5}

(* A precision of -1 stands for none.                                      *)
Flagged(flags, width, precision) ==
    [left |-> "-" \in flags, plus |-> "+" \in flags, space |-> " " \in flags,
     alternate |-> "#" \in flags, zero |-> "0" \in flags, width |-> width,
     precise |-> precision >= 0, precision |-> IF precision < 0 THEN 0 ELSE precision,
     length |-> "none", conversion |-> "d"]

Formats ==
    /\ call = Idle
    /\ \/ \E k \in Kinds, named \in 0 .. 2 :
            call' = [op |-> "va_arg", named |-> named,
                     values |-> [i \in 1 .. Len(k) |-> [kind |-> k[i], value |-> i]]]
       \/ \E f \in Prints, size \in 0 .. 12, utf8 \in BOOLEAN :
            call' = [op |-> "snprintf", f |-> f[1], args |-> Format!Passed(f[2], 1),
                     size |-> size, utf8 |-> utf8]
       \/ \E flags \in SUBSET {"-", "+", " ", "#", "0"}, width \in {0, 3, 5},
             precision \in {-1, 0, 2, 4}, v \in {0, 1, 8, 77, 255}, base \in {8, 10, 16} :
            call' = [op |-> "integer", spec |-> Flagged(flags, width, precision),
                     v |-> v, base |-> base]
       \/ \E exp \in 0 .. 6, frac \in 0 .. 15, flags \in {{}, {"#"}}, precision \in -1 .. 3 :
            call' = [op |-> "floating", spec |-> Flagged(flags, 0, precision),
                     x |-> [neg |-> FALSE, exp |-> exp, frac |-> frac]]

Items == UNION {[1 .. n -> {" ", "-", "0", "x", "1", "8", "f"}] : n \in 0 .. 3}

LongItems ==
    {<<"2","0","4","7">>, <<"2","0","4","8">>, <<"-","1","0","2","4">>, <<"-","1","0","2","5">>,
     <<"5","1","1">>, <<"5","1","2">>, <<"-","5","1","2">>, <<"-","5","1","3">>, <<"1","2","8">>,
     <<"0","x","8","0","0","0">>, <<"9","9","9","9","9">>, <<"-","9","9","9","9","9">>,
     <<"0","x","1","f">>, <<"-","0","x","f","f","g">>}

(* What scanf reads, with the formats that meet it.                        *)
Inputs ==
    {<<"1", "2", " ", "a", "b">>, <<"a", "b", "c">>, <<" ", "-", "7", ",", "8">>, <<>>, <<" ">>,
     <<"%", " ", "4">>, <<"1", "]", "-", "9">>, <<"0", "x", "1", "p", "1", " ", "z">>,
     <<"9", "9", "9", "9", " ", "1">>}

ScanFormats ==
    {<<"%", "d", "%", "s">>, <<"%", "*", "d", "%", "2", "c", "%", "c">>,
     <<"%", "[", "^", "b", "]", "%", "s">>, <<"%", "[", "]", "1", "-", "3", "]", "%", "c">>,
     <<" ", "%", "d", ",", "%", "d", "%", "d">>, <<"%", "%", " ", "%", "i">>,
     <<"%", "l", "f", "%", "*", "s", "%", "d">>, <<"%", "f", " ", "%", "1", "s">>,
     <<"%", "3", "[", "a", "-", "c", "]">>, <<"%", "l", "s", "%", "u">>, <<"%", "0", "d">>,
     <<"%", "1", "d", "%", "1", "d", "%", "1", "d", "%", "1", "d">>, <<"%", "*", "%">>,
     <<"%", "h", "h", "d", "%", "h", "u">>, <<"%", "[", "a">>, <<"%", "h", "s">>, <<"a", "%">>}

(* Members and ranges; ] is written first and - last.                      *)
Sets ==
    {first \o middle \o last :
       first \in {<<>>, <<<<93>>>>}, middle \in {<<<<98>>>>, <<<<97, 98>>, <<99>>>>, <<<<99>>, <<97>>>>},
       last \in {<<>>, <<<<45>>>>}}

WideSets == {<<<<233, 8364>>>>, <<<<97>>, <<1024>>>>, <<<<8365>>, <<98, 233>>>>}

Scans ==
    /\ call = Idle
    /\ \/ \E exp \in 0 .. 30, frac \in 0 .. 15 :
            call' = [op |-> "%a", exp |-> exp, frac |-> frac]
       \/ \E s \in Items, letter \in {"d", "i", "u", "o", "x"}, width \in 0 .. 2 :
            call' = [op |-> "item", s |-> Scan!Bytes(s), letter |-> letter, width |-> width,
                     length |-> "none"]
       \/ \E s \in LongItems, letter \in {"d", "i", "u", "o", "x"},
             length \in {"none", "hh", "h", "l"} :
            call' = [op |-> "item", s |-> Scan!Bytes(s), letter |-> letter, width |-> 0,
                     length |-> length]
       \/ \E s \in Inputs, f \in ScanFormats, named \in 1 .. 2 :
            call' = [op |-> "sscanf", s |-> Scan!Bytes(s), f |-> Scan!Bytes(f), named |-> named]
       \/ \E s \in UNION {[1 .. n -> {65, 233, 8364, 32, 49}] : n \in 0 .. 4},
             f \in {<<"%", "s">>, <<"%", "l", "s">>, <<"%", "d">>, <<"A", "%", "l", "s">>} :
            call' = [op |-> "swscanf", s |-> s, f |-> Scan!Bytes(f)]
       \/ \E s \in UNION {[1 .. n -> {45, 93, 97, 98, 99}] : n \in 0 .. 3}, set \in Sets,
             negated, wide \in BOOLEAN :
            call' = [op |-> "set", s |-> s, set |-> set, negated |-> negated, wide |-> wide]
       \/ \E s \in UNION {[1 .. n -> {98, 233, 1024, 8365}] : n \in 1 .. 3},
             set \in WideSets, negated \in BOOLEAN :
            call' = [op |-> "set", s |-> s, set |-> set, negated |-> negated, wide |-> TRUE]

(* sscanf reads what printf wrote; %i does when # wrote the prefix.        *)
ReadBack(spec, v, base) ==
    LET text == Format!EmitNumber(Format!Sink("memory", Format!IntMax + 2, FALSE, FALSE), spec,
                                  v, FALSE, base, FALSE, base = 10).text
        Read(b) == Scan!ScanInteger(Scan!Source(text, FALSE, FALSE),
                                    [suppress |-> FALSE, width |-> 0, length |-> "none"],
                                    1, b, TRUE)
        some == \E i \in 1 .. Len(text) : Scan!DigitIn(text[i], base)
    IN  /\ Read(base).got <=> some
        /\ some => Read(base).out = v
        /\ some /\ spec.alternate /\ base # 10 => Read(0) = Read(base)

(* The number with exponent field exp and fraction frac, and what strtod   *)
(* makes of the text that %a writes of it.                                 *)
HalfValue(exp, frac) ==
    IF exp = 0 THEN [m |-> frac, e |-> -18] ELSE [m |-> 16 + frac, e |-> exp - 19]

ReadsHex(exp, frac) ==
    LET x == [neg |-> FALSE, exp |-> exp, frac |-> frac]
    IN  Scan!Strtod(<<48, 120>> \o Half!HexText(Flagged({}, 0, -1), x, FALSE)).value.x

(* Every argument is fetched once and in order, the text of a number is    *)
(* the number, rounded to even, and what a buffer or a file receives is    *)
(* the beginning of one text whose length is returned.                     *)
FormattedRight ==
    [][/\ call.op = "va_arg" => Format!ArgumentsRight(call.values, call.named)
       /\ call.op = "snprintf" =>
            /\ \A wide \in BOOLEAN :
                 Format!BufferRespected(call.f, call.args, call.size, call.utf8, wide)
            /\ Format!WideRight(call.size, call.f, call.args, call.utf8)
       /\ call.op = "integer" =>
            /\ Format!NumberRight(call.spec, call.v, FALSE, call.base, FALSE, call.base = 10)
            /\ Format!NumberRight(call.spec, call.v, call.v > 0, 10, FALSE, TRUE)
            /\ ReadBack(call.spec, call.v, call.base)
       /\ call.op = "floating" =>
            /\ Format!FloatRight(call.spec, call.x) /\ Format!HexRight(call.spec, call.x)
       /\ call.op = "%a" /\ call.exp > 3 =>
            ReadsHex(call.exp, call.frac) = HalfValue(call.exp, call.frac)
       /\ call.op = "item" => Scan!IntegerRight(call.s, call.letter, call.width, call.length)
       /\ call.op = "sscanf" => \A utf8, wide \in BOOLEAN :
            Scan!PointersRight(Scan!Scan(Scan!Source(call.s, wide, utf8), call.f,
                                         Scan!Pointers(6, call.named)))
       /\ call.op = "set" => Scan!SetRight(call.s, call.set, call.negated, call.wide)
       /\ call.op = "swscanf" => Scan!WideAgrees(call.s, call.f, 2)]_call

(* docs/floating-conversion.md:80: overflow gives infinity, underflow zero,*)
(* and "a nonzero subnormal binary64 result is returned": a numeral whose  *)
(* value is a number, such as %a writes, is converted to it.               *)
HexReadBack ==
    [][call.op = "%a" => ReadsHex(call.exp, call.frac) = HalfValue(call.exp, call.frac)]_call

-----------------------------------------------------------------------------
Next ==
    \/ MbrtowcFirst \/ MbrtowcNext \/ Converts \/ Classifies \/ ConvertsNumber
    \/ ConvertsFloat \/ Sorts \/ Divides \/ Copies \/ StrtokFirst \/ StrtokNext
    \/ Dates \/ Formats \/ Scans
    \/ call # Idle /\ Returns

Spec == Init /\ [][Next]_call
=============================================================================
