----------------------------- MODULE WideClasses -----------------------------
(***************************************************************************)
(* Character classes and case conversion: src/ctype/ctype.c for bytes,     *)
(* src/wchar/wctype.c for wide characters, and the look-ups of             *)
(* src/wchar/unicode_props.c behind them.  A locale is "C" or "UTF-8"; a   *)
(* locale_t that names no live object is "invalid".  A class is its name,  *)
(* and the descriptor wctype() returns for it is that name, or NoClass.    *)
(***************************************************************************)
EXTENDS UnicodeTables, FiniteSets

NoClass == "none"      \* (wctype_t)0 and (wctrans_t)0

Classes == {"alnum", "alpha", "blank", "cntrl", "digit", "graph",
            "lower", "print", "punct", "space", "upper", "xdigit"}

(* ctype.c: the bytes of a class.  The C library's int argument is a byte  *)
(* or EOF, which is in no class.                                           *)
Bytes(class) ==
    LET digit == 48 .. 57
        upper == 65 .. 90
        lower == 97 .. 122
        graph == 33 .. 126
    IN  CASE class = "digit"  -> digit
          [] class = "upper"  -> upper
          [] class = "lower"  -> lower
          [] class = "alpha"  -> upper \cup lower
          [] class = "alnum"  -> upper \cup lower \cup digit
          [] class = "xdigit" -> digit \cup 65 .. 70 \cup 97 .. 102
          [] class = "blank"  -> {9, 32}
          [] class = "space"  -> 9 .. 13 \cup {32}
          [] class = "cntrl"  -> 0 .. 31 \cup {127}
          [] class = "graph"  -> graph
          [] class = "print"  -> graph \cup {32}
          [] class = "punct"  -> graph \ (upper \cup lower \cup digit)
          [] OTHER            -> {}

ByteLower(c) == IF c \in Bytes("upper") THEN c + 32 ELSE c

ByteUpper(c) == IF c \in Bytes("lower") THEN c - 32 ELSE c

(* The bits MINI_UNICODE_... a class asks for, as bit numbers.             *)
Property(class) ==
    CASE class = "alpha" -> {0}
      [] class = "digit" -> {1}
      [] class = "alnum" -> {0, 1}
      [] class = "lower" -> {2}
      [] class = "upper" -> {3}
      [] class = "space" -> {4}
      [] class = "blank" -> {5}
      [] class = "cntrl" -> {6}
      [] class = "punct" -> {7}
      [] class = "print" -> {8}
      [] class = "graph" -> {9}

(* map_codepoint: binary search; a code point without an entry is itself.  *)
RECURSIVE SearchMap(_, _, _, _)
SearchMap(table, low, high, cp) ==
    IF low >= high THEN cp
    ELSE LET mid == low + (high - low) \div 2
         IN  CASE cp < table[mid + 1].from -> SearchMap(table, low, mid, cp)
               [] cp > table[mid + 1].from -> SearchMap(table, mid + 1, high, cp)
               [] OTHER -> table[mid + 1].to

(* find_properties, with its own binary search over ranges.                *)
RECURSIVE FindProperties(_, _, _)
FindProperties(low, high, cp) ==
    IF low >= high THEN 0
    ELSE LET mid == low + (high - low) \div 2
         IN  CASE cp < Ranges[mid + 1].first -> FindProperties(low, mid, cp)
               [] cp > Ranges[mid + 1].last  -> FindProperties(mid + 1, high, cp)
               [] OTHER -> Ranges[mid + 1].properties

NotScalar(cp) == cp > \h10FFFF \/ cp \in \hD800 .. \hDFFF

(* __mini_unicode_has, _tolower and _toupper.                              *)
UnicodeHas(cp, bits) ==
    /\ ~NotScalar(cp)
    /\ \E b \in bits : (FindProperties(0, Len(Ranges), cp) \div 2^b) % 2 = 1

UnicodeMap(table, cp) ==
    IF NotScalar(cp) THEN cp ELSE SearchMap(table, 0, Len(table), cp)

(* Deliberately wrong: every class follows the locale, iswxdigit too, and  *)
(* takes the letters for hexadecimal digits.                               *)
IsWideAll(wc, class, utf8) ==
    IF utf8 THEN UnicodeHas(wc, IF class = "xdigit" THEN {0, 1} ELSE Property(class))
            ELSE wc <= \h7F /\ wc \in Bytes(class)

(* The isw..._mode functions: the Unicode property in UTF-8, the byte      *)
(* class of an ASCII character in C.  iswxdigit is ASCII in both.          *)
IsWide(wc, class, utf8) ==
    IF utf8 /\ class # "xdigit" THEN UnicodeHas(wc, Property(class))
                                ELSE wc <= \h7F /\ wc \in Bytes(class)

(* towlower_mode, towupper_mode and towctrans_mode.                        *)
WideCase(wc, mapping, utf8) ==
    CASE mapping = "tolower" /\ utf8 -> UnicodeMap(LowerTable, wc)
      [] mapping = "toupper" /\ utf8 -> UnicodeMap(UpperTable, wc)
      [] mapping = "tolower" /\ ~utf8 /\ wc <= \h7F -> ByteLower(wc)
      [] mapping = "toupper" /\ ~utf8 /\ wc <= \h7F -> ByteUpper(wc)
      [] OTHER -> wc

(* wctype, wctrans and their _l forms: a name no table holds, and every    *)
(* name under a dead locale object, has no descriptor.                     *)
Wctype(name, locale) ==
    IF name \in Classes /\ locale # "invalid" THEN name ELSE NoClass

Wctrans(name, locale) ==
    IF name \in {"tolower", "toupper"} /\ locale # "invalid" THEN name ELSE NoClass

(* iswctype, iswctype_l and the twelve named predicates.                   *)
Iswctype(wc, desc, locale) ==
    /\ locale # "invalid"
    /\ desc \in Classes
    /\ IsWide(wc, desc, locale = "UTF-8")

(* towctrans, towctrans_l, towlower, towupper and their _l forms.          *)
Towctrans(wc, desc, locale) ==
    IF locale = "invalid" THEN wc ELSE WideCase(wc, desc, locale = "UTF-8")

(* isalpha .. isxdigit_l, tolower_l and toupper_l of ctype.c.              *)
Isctype(c, class, locale) == locale # "invalid" /\ c \in Bytes(class)

ByteCase(c, mapping, locale) ==
    CASE locale = "invalid" -> c
      [] mapping = "tolower" -> ByteLower(c)
      [] OTHER -> ByteUpper(c)

-----------------------------------------------------------------------------
(* What ISO C 7.4.1 and 7.30.2.1 say of the classes of one locale.         *)
InClasses(wc, locale) ==
    {class \in Classes : Iswctype(wc, Wctype(class, locale), locale)}

WellClassified(in) ==
    /\ "alnum" \in in <=> in \cap {"alpha", "digit"} # {}
    /\ in \cap {"upper", "lower"} # {} =>
         "alpha" \in in /\ in \cap {"cntrl", "digit", "punct", "space"} = {}
    /\ "punct" \in in => in \cap {"alnum", "space", "cntrl"} = {} /\ "graph" \in in
    /\ "graph" \in in => "print" \in in /\ "space" \notin in
    /\ "blank" \in in => "space" \in in
    /\ "cntrl" \in in => "print" \notin in
    /\ "digit" \in in => "alpha" \notin in
    /\ "xdigit" \in in => "alnum" \in in /\ in \cap {"digit", "upper", "lower"} # {}

(* A case mapping leads from the class it names to the other one and only  *)
(* there, and it is a fixpoint after one step.                             *)
CaseFits(wc, locale) ==
    LET lower == Towctrans(wc, Wctrans("tolower", locale), locale)
        upper == Towctrans(wc, Wctrans("toupper", locale), locale)
    IN  /\ lower # wc => Towctrans(lower, "tolower", locale) = lower
        /\ upper # wc => Towctrans(upper, "toupper", locale) = upper
        /\ lower # wc => ~Iswctype(wc, "lower", locale)
        /\ upper # wc => ~Iswctype(wc, "upper", locale)

(* The byte functions know ASCII only, in either locale, and agree there   *)
(* with the wide functions of the C locale.                                *)
BytesAgree(c, locale) ==
    /\ \A class \in Classes : Isctype(c, class, locale)
                               = Iswctype(c, Wctype(class, "C"), "C")
    /\ \A mapping \in {"tolower", "toupper"} :
         ByteCase(c, mapping, locale) = Towctrans(c, Wctrans(mapping, "C"), "C")

(* The searches find an entry exactly when the table has one.              *)
Found(table, cp) ==
    LET hits == {i \in 1 .. Len(table) : table[i].from = cp}
    IN  IF NotScalar(cp) \/ hits = {} THEN UnicodeMap(table, cp) = cp
        ELSE Cardinality(hits) = 1 /\ \A i \in hits : UnicodeMap(table, cp) = table[i].to

FoundRange(cp) ==
    LET hits == {i \in 1 .. Len(Ranges) : Ranges[i].first <= cp /\ cp <= Ranges[i].last}
        found == FindProperties(0, Len(Ranges), cp)
    IN  IF hits = {} THEN found = 0
        ELSE Cardinality(hits) = 1 /\ \A i \in hits : found = Ranges[i].properties
=============================================================================
