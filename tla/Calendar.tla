------------------------------ MODULE Calendar -------------------------------
(***************************************************************************)
(* Broken-down time: src/time/calendar.c and src/time/time.c.  A time_t is *)
(* the pair of its floor quotient and remainder by 86400, days and seconds *)
(* of the day, so that the years 0 to 9999 stay within TLC's integers.     *)
(* Text is a sequence of characters: digits are numbers, the letters of a  *)
(* name are <<kind, index, position>>.                                     *)
(***************************************************************************)
EXTENDS Integers, Sequences, SequencesExt

CONSTANTS IntMax,                  \* MINI_INT_MAX, the largest int tm_year
          LongMax, ClocksPerSec, NsecPerTick

TimeAssumption ==
    /\ IntMax \in Nat
    /\ LongMax \in Nat /\ ClocksPerSec \in Nat \ {0} /\ NsecPerTick \in Nat \ {0}

SecondsPerDay == 86400

(* C division truncates; floor_div and floor_mod correct it.  TLA+ \div    *)
(* and % already round down, so both are written with them below.          *)
Quotient(v, d) == IF v < 0 THEN -((-v) \div d) ELSE v \div d

FloorDiv(v, d) ==
    IF v - Quotient(v, d) * d < 0 THEN Quotient(v, d) - 1 ELSE Quotient(v, d)

FloorMod(v, d) ==
    LET r == v - Quotient(v, d) * d IN IF r < 0 THEN r + d ELSE r

IsLeap(year) == year % 4 = 0 /\ (year % 100 # 0 \/ year % 400 = 0)

(* days_from_civil: the year starts in March, in eras of 400 years.        *)
DaysFromCivil(year, month, day) ==
    LET y   == IF month <= 2 THEN year - 1 ELSE year
        era == FloorDiv(y, 400)
        yoe == y - era * 400
        doy == (153 * (IF month > 2 THEN month - 3 ELSE month + 9) + 2) \div 5 + day - 1
    IN  era * 146097 + yoe * 365 + yoe \div 4 - yoe \div 100 + doy - 719468

(* Deliberately wrong: the last day of an era is not discounted.           *)
CivilFromDaysEra(days) ==
    LET z   == days + 719468
        era == FloorDiv(z, 146097)
        doe == z - era * 146097
        yoe == (doe - doe \div 1460 + doe \div 36524) \div 365
        doy == doe - (365 * yoe + yoe \div 4 - yoe \div 100)
        mp  == (5 * doy + 2) \div 153
        m   == IF mp < 10 THEN mp + 3 ELSE mp - 9
    IN  [year |-> yoe + era * 400 + (IF m <= 2 THEN 1 ELSE 0), month |-> m,
         day |-> doy - (153 * mp + 2) \div 5 + 1]

CivilFromDays(days) ==
    LET z   == days + 719468
        era == FloorDiv(z, 146097)
        doe == z - era * 146097
        yoe == (doe - doe \div 1460 + doe \div 36524 - doe \div 146096) \div 365
        doy == doe - (365 * yoe + yoe \div 4 - yoe \div 100)
        mp  == (5 * doy + 2) \div 153
        m   == IF mp < 10 THEN mp + 3 ELSE mp - 9
    IN  [year |-> yoe + era * 400 + (IF m <= 2 THEN 1 ELSE 0), month |-> m,
         day |-> doy - (153 * mp + 2) \div 5 + 1]

NoTime == [errno |-> "ERANGE"]

(* calendar_from_epoch, gmtime and localtime: the truncated quotient and   *)
(* the remainder that has the sign of the time, put right afterwards.      *)
Gmtime(t) ==
    LET past  == t.day < 0 /\ t.sec > 0
        days  == IF past THEN (t.day + 1) - 1 ELSE t.day
        sec   == IF past THEN (t.sec - SecondsPerDay) + SecondsPerDay ELSE t.sec
        civil == CivilFromDays(days)
    IN  IF civil.year - 1900 \notin -IntMax - 1 .. IntMax THEN NoTime
        ELSE [sec |-> sec % 60, min |-> (sec \div 60) % 60, hour |-> sec \div 3600,
              mday |-> civil.day, mon |-> civil.month - 1, year |-> civil.year,
              wday |-> FloorMod(days + 4, 7),
              yday |-> days - DaysFromCivil(civil.year, 1, 1)]

(* mktime: months are carried into years, seconds into days; the fields of *)
(* *timeptr are replaced only when the result is representable.            *)
Mktime(tm) ==
    LET years == FloorDiv(tm.mon, 12)
        sod   == tm.hour * 3600 + tm.min * 60 + tm.sec
        carry == FloorDiv(sod, SecondsPerDay)
        t     == [day |-> DaysFromCivil(tm.year + years, tm.mon - years * 12 + 1, 1)
                            + tm.mday - 1 + carry,
                  sec |-> sod - carry * SecondsPerDay]
    IN  IF Gmtime(t) = NoTime THEN [time |-> NoTime, tm |-> tm]
                              ELSE [time |-> t, tm |-> Gmtime(t)]

(* valid_text_tm; a leap second is allowed.                                *)
ValidText(tm) ==
    /\ tm.sec \in 0 .. 60 /\ tm.min \in 0 .. 59 /\ tm.hour \in 0 .. 23
    /\ tm.mday \in 1 .. 31 /\ tm.mon \in 0 .. 11
    /\ tm.wday \in 0 .. 6 /\ tm.yday \in 0 .. 365 /\ tm.year \in 0 .. 9999

Letters(kind, index, length) == [i \in 1 .. length |-> <<kind, index, i>>]

WeekdayLength == <<6, 6, 7, 9, 8, 6, 8>>

MonthLength == <<7, 8, 5, 5, 3, 4, 4, 6, 9, 7, 8, 8>>

(* writer_unsigned: at least `minimum` characters.                         *)
RECURSIVE Decimal(_)
Decimal(value) ==
    IF value < 10 THEN <<value>> ELSE Append(Decimal(value \div 10), value % 10)

Padded(value, minimum, pad) ==
    [i \in 1 .. minimum - Len(Decimal(value)) |-> pad] \o Decimal(value)

(* asctime: 25 characters, and the terminator that fills the buffer.       *)
Asctime(tm) ==
    Letters("wday", tm.wday, 3) \o <<" ">> \o Letters("month", tm.mon, 3) \o <<" ">>
      \o <<IF tm.mday >= 10 THEN tm.mday \div 10 ELSE " ", tm.mday % 10, " ",
           tm.hour \div 10, tm.hour % 10, ":", tm.min \div 10, tm.min % 10, ":",
           tm.sec \div 10, tm.sec % 10, " ",
           (tm.year \div 1000) % 10, (tm.year \div 100) % 10, (tm.year \div 10) % 10,
           tm.year % 10, "\n">>

(* iso_weeks_in_year and iso_week_fields.                                  *)
IsoWeeks(year) ==
    LET jan1 == FloorMod(DaysFromCivil(year, 1, 1) + 4, 7)
    IN  IF jan1 = 4 \/ (jan1 = 3 /\ IsLeap(year)) THEN 53 ELSE 52

IsoWeek(tm) ==
    LET wday == IF tm.wday = 0 THEN 7 ELSE tm.wday
        week == (tm.yday + 1 - wday + 10) \div 7
    IN  CASE week < 1 -> [year |-> tm.year - 1, week |-> IsoWeeks(tm.year - 1)]
          [] week > IsoWeeks(tm.year) -> [year |-> tm.year + 1, week |-> 1]
          [] OTHER -> [year |-> tm.year, week |-> week]

(* struct mini_time_writer; failed is 1 for no room and 2 for a bad code.  *)
Writer(text, capacity, failed) == [text |-> text, capacity |-> capacity, failed |-> failed]

(* writer_char: one byte is kept for the terminator.                       *)
Put(w, c) ==
    CASE w.failed # 0 -> w
      [] w.failed = 0 /\ Len(w.text) >= w.capacity - 1 -> [w EXCEPT !.failed = 1]
      [] OTHER -> [w EXCEPT !.text = Append(@, c)]

PutAll(w, text) == FoldLeft(Put, w, text)

(* The codes that stand for several; what is no code is put as it is.      *)
Compound(code) ==
    CASE code = "D" -> <<"m", "/", "d", "/", "y">>
      [] code = "F" -> <<"Y", "-", "m", "-", "d">>
      [] code = "R" -> <<"H", ":", "M">>
      [] code = "T" -> <<"H", ":", "M", ":", "S">>
      [] code = "r" -> <<"I", ":", "M", ":", "S", " ", "p">>
      [] code = "x" -> <<"D">>
      [] code = "X" -> <<"T">>
      [] code = "c" -> <<"a", " ", "b", " ", "e", " ", "T", " ", "Y">>
      [] OTHER      -> <<>>

(* The codes of one field: its characters, or <<>> for an unknown code.    *)
Field(code, tm) ==
    LET iso   == IsoWeek(tm)
        named == iso.year \in 0 .. 9999
    IN  CASE code \in {"%", "n", "t"} -> <<code>>
          [] code = "a" -> Letters("wday", tm.wday, 3)
          [] code = "A" -> Letters("wday", tm.wday, WeekdayLength[tm.wday + 1])
          [] code \in {"b", "h"} -> Letters("month", tm.mon, 3)
          [] code = "B" -> Letters("month", tm.mon, MonthLength[tm.mon + 1])
          [] code = "C" -> Padded(tm.year \div 100, 2, 0)
          [] code = "d" -> Padded(tm.mday, 2, 0)
          [] code = "e" -> Padded(tm.mday, 2, " ")
          [] code = "H" -> Padded(tm.hour, 2, 0)
          [] code = "I" -> Padded(IF tm.hour % 12 = 0 THEN 12 ELSE tm.hour % 12, 2, 0)
          [] code = "j" -> Padded(tm.yday + 1, 3, 0)
          [] code = "m" -> Padded(tm.mon + 1, 2, 0)
          [] code = "M" -> Padded(tm.min, 2, 0)
          [] code = "p" -> Letters("half", IF tm.hour < 12 THEN 0 ELSE 1, 2)
          [] code = "S" -> Padded(tm.sec, 2, 0)
          [] code = "u" -> <<IF tm.wday = 0 THEN 7 ELSE tm.wday>>
          [] code = "U" -> Padded((tm.yday + 7 - tm.wday) \div 7, 2, 0)
          [] code = "V" -> Padded(iso.week, 2, 0)
          [] code = "w" -> <<tm.wday>>
          [] code = "W" -> Padded((tm.yday + 7 - ((tm.wday + 6) % 7)) \div 7, 2, 0)
          [] code = "y" -> Padded(tm.year % 100, 2, 0)
          [] code = "Y" -> Padded(tm.year, 4, 0)
          [] code = "g" /\ named -> Padded(iso.year % 100, 2, 0)
          [] code = "G" /\ named -> Padded(iso.year, 4, 0)
          [] code = "z" -> Letters("offset", 0, 5)
          [] code = "Z" -> Letters("zone", 0, 3)
          [] OTHER -> <<>>

(* writer_format_code; inside a compound a character that is no code is a  *)
(* literal.                                                                *)
RECURSIVE Code(_, _, _)
Code(w, code, tm) ==
    CASE Compound(code) # <<>> ->
           FoldLeft(LAMBDA v, c : IF c \in {"/", "-", ":", " "} THEN Put(v, c) ELSE Code(v, c, tm),
                    w, Compound(code))
      [] Compound(code) = <<>> /\ Field(code, tm) # <<>> -> PutAll(w, Field(code, tm))
      [] OTHER -> [w EXCEPT !.failed = 2]

(* strftime: a format is a sequence of literals <<"", c>> and conversions  *)
(* <<"%", c>>; an E or O modifier is skipped, and a format may end after %.*)
Formatted(capacity, format, tm) ==
    FoldLeft(LAMBDA w, piece :
               CASE w.failed # 0 -> w
                 [] w.failed = 0 /\ piece[1] = "" -> Put(w, piece[2])
                 [] w.failed = 0 /\ piece[1] = "%" /\ piece[2] = "end" -> [w EXCEPT !.failed = 2]
                 [] OTHER -> Code(w, piece[2], tm),
             Writer(<<>>, capacity, 0), format)

Strftime(capacity, format, tm) ==
    IF ~ValidText(tm) THEN [ret |-> 0, text |-> <<>>, errno |-> "EINVAL"]
    ELSE LET w == Formatted(capacity, format, tm)
         IN  [ret |-> IF w.failed = 0 THEN Len(w.text) ELSE 0, text |-> w.text,
              errno |-> IF w.failed = 2 THEN "EINVAL" ELSE "none"]

(* clock of time.c: seconds and nanoseconds of CPU time to ticks.          *)
Clock(sec, nsec) ==
    LET bad == sec < 0 \/ nsec < 0 \/ nsec >= ClocksPerSec * NsecPerTick
                 \/ sec > LongMax \div ClocksPerSec
        whole == sec * ClocksPerSec
        part  == nsec \div NsecPerTick
    IN  IF bad \/ part > LongMax - whole THEN -1 ELSE whole + part

-----------------------------------------------------------------------------
MonthDays(year, mon) ==
    CASE mon = 1 -> IF IsLeap(year) THEN 29 ELSE 28
      [] mon \in {3, 5, 8, 10} -> 30
      [] OTHER -> 31

(* The day after a date, counted on the fingers.                           *)
NextDay(tm) ==
    CASE tm.mday < MonthDays(tm.year, tm.mon) ->
           [tm EXCEPT !.mday = @ + 1, !.yday = @ + 1, !.wday = (@ + 1) % 7]
      [] tm.mday = MonthDays(tm.year, tm.mon) /\ tm.mon < 11 ->
           [tm EXCEPT !.mday = 1, !.mon = @ + 1, !.yday = @ + 1, !.wday = (@ + 1) % 7]
      [] OTHER ->
           [tm EXCEPT !.mday = 1, !.mon = 0, !.year = @ + 1, !.yday = 0, !.wday = (@ + 1) % 7]

(* ISO 8601: a week belongs to the year its Thursday is in.                *)
ThursdayOf(day, tm) == Gmtime([day |-> day - FloorMod(tm.wday - 1, 7) + 3, sec |-> 0])

(* gmtime counts days as a calendar does, mktime is its inverse and        *)
(* normalises, and the ISO week is the one of the Thursday.                *)
DayRight(t) ==
    LET tm == Gmtime(t)
        th == ThursdayOf(t.day, tm)
    IN  /\ Gmtime([t EXCEPT !.day = @ + 1]) = NextDay(tm)
        /\ Mktime(tm) = [time |-> t, tm |-> tm]
        /\ IsoWeek(tm) = [year |-> th.year, week |-> th.yday \div 7 + 1]
        /\ tm.year \in 0 .. 9999 =>
             Strftime(26, <<<<"%", "c">>, <<"%", "n">>>>, tm).text
               = [i \in 1 .. 25 |-> IF i = 25 THEN "n" ELSE Asctime(tm)[i]]

(* Fields out of range denote the same moment as fields in range.          *)
NormalisedRight(tm, months, mdays, seconds) ==
    LET far  == [tm EXCEPT !.mon = @ + 12 * months, !.year = @ - months,
                           !.mday = @ + mdays, !.hour = @ - 24 * mdays,
                           !.min = @ + seconds, !.sec = @ - 60 * seconds]
    IN  Mktime(far) = Mktime(tm)

(* A text that fits is written whole; one that does not gives 0 and leaves *)
(* a part of it that leaves room for the terminator.                       *)
WrittenRight(capacity, format, tm) ==
    LET full == Strftime(200, format, tm)
        cut  == Strftime(capacity, format, tm)
    IN  /\ cut.text = <<>> \/ Len(cut.text) < capacity
        /\ IsPrefix(cut.text, full.text)
        /\ full.ret > 0 /\ full.ret < capacity => cut = full
        /\ full.ret > 0 /\ full.ret >= capacity => cut.ret = 0 /\ cut.errno = "none"

ClockRight(sec, nsec) ==
    LET exact == sec * ClocksPerSec + nsec \div NsecPerTick
    IN  Clock(sec, nsec) = IF sec >= 0 /\ exact <= LongMax THEN exact ELSE -1
=============================================================================
