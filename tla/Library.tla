------------------------------ MODULE Library ------------------------------
(***************************************************************************)
(* The whole library on a small instance: its services (module Services)   *)
(* and its pure conversions.  A behaviour is one of one of them, chosen at *)
(* the start.                                                              *)
(***************************************************************************)
EXTENDS Services, TLC

VARIABLE converting    \* the conversions' only variable, which case is looked at

Calls == INSTANCE Conversions WITH call <- converting

ASSUME LibraryAssumption == Calls!ConversionsAssumption

(* What a stream opened with r, w, r+ (and w+), a or a+ may do.            *)
Mode(read, write, append) == [read |-> read, write |-> write, append |-> append]

AllModes ==
    {Mode(TRUE, FALSE, FALSE), Mode(FALSE, TRUE, FALSE), Mode(TRUE, TRUE, FALSE),
     Mode(FALSE, TRUE, TRUE), Mode(TRUE, TRUE, TRUE)}

TwoBytes == <<"old1", "old2">>

OneLine == {<<"newline", "new">>}

(* A mode that writes, and tmpfile.                                        *)
WriteModes == {<<"w">>, <<"tmpfile">>}

Utf8Environment ==
    {[LC_ALL |-> "", LC_CTYPE |-> "C.utf8", LC_NUMERIC |-> "", LANG |-> "xx"]}

(* Triplet 2 has no function for the parent; descriptor 2 closes on exec.  *)
TwoTriplets == <<{"prepare", "parent", "child"}, {"prepare", "child"}>>

TwoActions ==
    {[kind |-> "close", fd |-> 1, newfd |-> 1], [kind |-> "dup2", fd |-> 2, newfd |-> 1]}

TwoDescriptors == <<[file |-> "x", cloexec |-> FALSE], [file |-> "y", cloexec |-> TRUE]>>

LibraryInit ==
    /\ Calls!Init
    /\ \/ Init
       \/ part = "conversions" /\ AtRest
    /\ part # "bytes" => mode = Mode(TRUE, FALSE, FALSE)

LibraryNext ==
    \/ Next /\ UNCHANGED converting
    \/ part = "conversions" /\ Calls!Next /\ UNCHANGED vars

LibrarySpec == LibraryInit /\ [][LibraryNext]_<<vars, converting>>

(* No part tells one thread from another.                                  *)
Symmetry == Permutations(Threads)

-----------------------------------------------------------------------------
(* wchar.c and multibyte.c decode what Unicode calls well formed, in any   *)
(* pieces, and convert strings alike whatever the destination's size.      *)
MultibyteRight == Calls!MultibyteRight

(* wctype.c, ctype.c and the Unicode tables agree with one another as      *)
(* ISO C 7.30.2.1 says, and the table searches miss no entry.              *)
ClassesRight == Calls!ClassesRight

(* strtol.c, strtoul.c, atoi.c and bsearch.c: the value of the longest     *)
(* numeral or the limit of the type; a stable sort; searches that find.    *)
NumbersRight == Calls!NumbersRight

(* memory.c and string.c: overlapping copies, bounded copies, searches and *)
(* the tokens that a series of strtok calls yields.                        *)
StringsRight == Calls!StringsRight

(* calendar.c and time.c: dates, their inverse and normalisation, ISO      *)
(* weeks, and a strftime that keeps to its buffer.                         *)
CalendarRight == Calls!CalendarRight

(* format.c, format_entry.S and wide_format.c: arguments in order, numbers *)
(* that are the number, and text cut where the buffer or the file ends.    *)
FormattedRight == Calls!FormattedRight
=============================================================================
