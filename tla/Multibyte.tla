------------------------------ MODULE Multibyte ------------------------------
(***************************************************************************)
(* Multibyte conversion of src/wchar/wchar.c and src/stdlib/multibyte.c:   *)
(* the UTF-8 decoder with its shift state, which keeps a character that is *)
(* split between two calls, the encoder, and the conversions of strings,   *)
(* which stop in the middle of a string when the destination is full.      *)
(* Bytes and wide characters are numbers; a string does not contain its    *)
(* terminator, and reading past its end yields 0.                          *)
(***************************************************************************)
EXTENDS Integers, Sequences, SequencesExt

Invalid == -1      \* (size_t)-1 with EILSEQ

Incomplete == -2   \* (size_t)-2

NoChar == -1       \* nothing was stored through pwc

(* mbstate_t: __count holds total and remaining, __value the bits so far.  *)
State(total, remaining, value) ==
    [total |-> total, remaining |-> remaining, value |-> value]

InitialState == State(0, 0, 0)

Scalar(v) == v <= \h10FFFF /\ v \notin \hD800 .. \hDFFF

MinimumScalar(total) ==
    CASE total = 2 -> \h80 [] total = 3 -> \h800 [] OTHER -> \h10000

(* The state after a lead byte.                                            *)
Lead(byte) ==
    CASE byte \in \hC2 .. \hDF -> State(2, 1, byte % 32)
      [] byte \in \hE0 .. \hEF -> State(3, 2, byte % 16)
      [] byte \in \hF0 .. \hF4 -> State(4, 3, byte % 8)

Answer(ret, wc, st) == [ret |-> ret, wc |-> wc, st |-> st]

Reject == Answer(Invalid, NoChar, InitialState)

(* Deliberately wrong: a character completed by this call counts all its   *)
(* bytes, also those of earlier calls.                                     *)
CompletedTotal(st, value, used) ==
    IF value < MinimumScalar(st.total) \/ ~Scalar(value)
      THEN Reject
      ELSE Answer(st.total, value, InitialState)

(* The last byte of a character: overlong forms and surrogates are refused.*)
Completed(st, value, used) ==
    IF value < MinimumScalar(st.total) \/ ~Scalar(value)
      THEN Reject
      ELSE Answer(used, value, InitialState)

(* The loop of __mini_mbrtowc_mode in UTF-8.                               *)
RECURSIVE Decode(_, _, _)
Decode(s, st, used) ==
    IF used = Len(s) THEN Answer(Incomplete, NoChar, st)
    ELSE LET byte == s[used + 1]
             value == st.value * 64 + (byte % 64)
         IN  CASE st.remaining = 0 /\ byte = 0 -> Answer(0, 0, InitialState)
               [] st.remaining = 0 /\ byte \in 1 .. \h7F -> Answer(1, byte, st)
               [] st.remaining = 0 /\ byte \in \hC2 .. \hF4 -> Decode(s, Lead(byte), used + 1)
               [] st.remaining > 1 /\ byte \in \h80 .. \hBF ->
                    Decode(s, State(st.total, st.remaining - 1, value), used + 1)
               [] st.remaining = 1 /\ byte \in \h80 .. \hBF -> Completed(st, value, used + 1)
               [] OTHER -> Reject

(* __mini_mbrtowc_mode and mbrtowc: in the C locale one byte below 128 is  *)
(* a character, and a shift state left by the UTF-8 locale is an error.    *)
Mbrtowc(s, st, utf8) ==
    IF s = <<>> THEN Answer(Incomplete, NoChar, st)
    ELSE IF utf8 THEN Decode(s, st, 0)
    ELSE IF st # InitialState \/ s[1] > \h7F THEN Reject
    ELSE Answer(IF s[1] = 0 THEN 0 ELSE 1, s[1], st)

(* __mini_wcrtomb_mode and wcrtomb: the bytes, or <<>> with EILSEQ.        *)
Wcrtomb(v, utf8) ==
    IF v < 0 \/ (~utf8 /\ v > \h7F) \/ ~Scalar(v) THEN <<>>
    ELSE CASE v <= \h7F   -> <<v>>
           [] v \in \h80 .. \h7FF -> <<\hC0 + v \div 64, \h80 + (v % 64)>>
           [] v \in \h800 .. \hFFFF ->
                <<\hE0 + v \div 4096, \h80 + ((v \div 64) % 64), \h80 + (v % 64)>>
           [] OTHER ->
                <<\hF0 + v \div 262144, \h80 + ((v \div 4096) % 64),
                  \h80 + ((v \div 64) % 64), \h80 + (v % 64)>>

(* mblen and mbtowc: a fresh state, and no distinction of the two failures.*)
Mbtowc(s, utf8) ==
    LET r == Mbrtowc(s, InitialState, utf8)
    IN  IF r.ret < 0 THEN -1 ELSE r.ret

-----------------------------------------------------------------------------
(* The string conversions.  Result: what was stored, the value returned,   *)
(* and where *src points afterwards, 0 meaning the null pointer (the       *)
(* terminator has been converted).                                         *)
Converted(out, ret, src) == [out |-> out, ret |-> ret, src |-> src]

(* source_window: up to limit bytes, no further than the terminator.       *)
Window(s, from, limit) == SubSeq(s \o <<0>>, from, Min({from + limit - 1, Len(s) + 1}))

Full(out, len) == Len(out) >= len

(* mbsrtowcs and mbstowcs from the initial state; with len = 0 and sizing  *)
(* the loop of a call whose dst is null.                                   *)
RECURSIVE MbsToWcs(_, _, _, _, _, _)
MbsToWcs(s, from, out, len, sizing, utf8) ==
    IF ~sizing /\ Full(out, len) THEN Converted(out, Len(out), from)
    ELSE LET r == Mbrtowc(Window(s, from, IF utf8 THEN 4 ELSE 1), InitialState, utf8)
         IN  CASE r.ret < 0 -> Converted(out, Invalid, from)
               [] r.ret = 0 -> Converted(out, Len(out), 0)
               [] OTHER -> MbsToWcs(s, from + r.ret, Append(out, r.wc), len, sizing, utf8)

Mbsrtowcs(s, len, utf8) == MbsToWcs(s, 1, <<>>, len, FALSE, utf8)

MbsSize(s, utf8) == MbsToWcs(s, 1, <<>>, 0, TRUE, utf8).ret

(* wcsrtombs and wcstombs: a character that does not fit whole is left.    *)
RECURSIVE WcsToMbs(_, _, _, _, _, _)
WcsToMbs(w, from, out, len, sizing, utf8) ==
    LET end == from > Len(w)
        b == IF end THEN <<0>> ELSE Wcrtomb(w[from], utf8)
    IN  CASE b = <<>> -> Converted(out, Invalid, from)
          [] end /\ (sizing \/ Len(out) < len) -> Converted(out, Len(out), 0)
          [] ~sizing /\ Len(b) > len - Len(out) -> Converted(out, Len(out), from)
          [] OTHER -> WcsToMbs(w, from + 1, out \o b, len, sizing, utf8)

Wcsrtombs(w, len, utf8) == WcsToMbs(w, 1, <<>>, len, FALSE, utf8)

WcsSize(w, utf8) == WcsToMbs(w, 1, <<>>, 0, TRUE, utf8).ret

-----------------------------------------------------------------------------
(* Reference: the well-formed UTF-8 sequences of the Unicode standard, as  *)
(* ranges of bytes, and the scalar a sequence stands for.                  *)
Tail8 == \h80 .. \hBF

WellFormedRows ==
    {<<0 .. \h7F>>, <<\hC2 .. \hDF, Tail8>>,
     <<{\hE0}, \hA0 .. \hBF, Tail8>>, <<\hE1 .. \hEC, Tail8, Tail8>>,
     <<{\hED}, \h80 .. \h9F, Tail8>>, <<\hEE .. \hEF, Tail8, Tail8>>,
     <<{\hF0}, \h90 .. \hBF, Tail8, Tail8>>, <<\hF1 .. \hF3, Tail8, Tail8, Tail8>>,
     <<{\hF4}, \h80 .. \h8F, Tail8, Tail8>>}

WellFormed(b) ==
    \E row \in WellFormedRows : Len(b) = Len(row) /\ \A i \in DOMAIN b : b[i] \in row[i]

Begins(b) ==
    \E row \in WellFormedRows : Len(b) <= Len(row) /\ \A i \in DOMAIN b : b[i] \in row[i]

ScalarOf(b) ==
    LET marker == CASE Len(b) = 1 -> 0 [] Len(b) = 2 -> \hC0
                    [] Len(b) = 3 -> \hE0 [] OTHER -> \hF0
        Bits(acc, byte) == acc * 64 + (byte % 64)
    IN  FoldLeft(Bits, b[1] - marker, Tail(b))

(* One character from bytes fed in any pieces: it is produced exactly when *)
(* the bytes are well formed, is the scalar they encode, and encodes back  *)
(* to them; bytes are refused only when nothing well formed begins so.     *)
DecodedRight(fed, r) ==
    /\ r.ret >= 0 <=> WellFormed(fed)
    /\ r.ret >= 0 => r.wc = ScalarOf(fed) /\ Wcrtomb(r.wc, TRUE) = fed
    /\ r.ret = Invalid => ~Begins(fed)
    /\ r.ret # Incomplete => r.st = InitialState

(* A string converted through a destination of any size, call after call   *)
(* from where the last one stopped, is the string converted at once.       *)
RECURSIVE InPieces(_, _, _, _)
InPieces(s, from, len, utf8) ==
    LET r == MbsToWcs(s, from, <<>>, len, FALSE, utf8)
    IN  IF r.ret = Invalid \/ r.src = 0 THEN <<r.out, r.ret = Invalid>>
        ELSE LET rest == InPieces(s, r.src, len, utf8)
             IN  <<r.out \o rest[1], rest[2]>>

StringsRight(s, len, utf8) ==
    LET whole == Mbsrtowcs(s, Len(s) + 1, utf8)
        back == Wcsrtombs(whole.out, len, utf8)
    IN  /\ len > 0 => InPieces(s, 1, len, utf8) = <<whole.out, whole.ret = Invalid>>
        /\ Len(Mbsrtowcs(s, len, utf8).out) <= len
        /\ s # <<>> => LET one == Mbsrtowcs(s, 1, utf8)
                       IN  IF one.ret = Invalid THEN Mbtowc(s, utf8) = -1
                           ELSE Mbtowc(s, utf8) = Len(Wcrtomb(one.out[1], utf8))
        /\ MbsSize(s, utf8) = whole.ret
        /\ whole.ret # Invalid =>
             /\ WcsSize(whole.out, utf8) = Len(s)
             /\ IsPrefix(back.out, s) /\ Len(back.out) <= len
             /\ back.src = 0 <=> Len(s) < len
=============================================================================
