------------------------------ MODULE DateFormat -----------------------------
(***************************************************************************)
(* to_stream of pistache/date.h: what a format makes of a date or a time.  *)
(* The code is the one compiled with ONLY_C_LOCALE, the build that takes   *)
(* no names from a locale of the standard library.  A result is the set of *)
(* the text, empty when the stream fails.                                  *)
(***************************************************************************)
EXTENDS TimeOfDay

WeekdayNames ==
  <<"Sunday", "Monday", "Tuesday", "Wednesday", "Thursday", "Friday", "Saturday",
    "Sun", "Mon", "Tue", "Wed", "Thu", "Fri", "Sat">>
MonthNames ==
  <<"January", "February", "March", "April", "May", "June", "July", "August", "September",
    "October", "November", "December", "Jan", "Feb", "Mar", "Apr", "May", "Jun", "Jul", "Aug",
    "Sep", "Oct", "Nov", "Dec">>
AmPmNames == <<"AM", "PM">>

-----------------------------------------------------------------------------
(* What to_stream is given: a date, a weekday, a time of day and its       *)
(* precision; the abbreviation of the zone and its offset in seconds, if   *)
(* they are known.                                                         *)
Fields(ymd, wd, tod, p) ==
  [ymd |-> ymd, wd |-> wd, tod |-> tod, p |-> p, abbrev |-> {}, offset |-> {}]
NoWeekday == 7
OfDate(y, m, d) == Fields(Ymd(y, m, d), NoWeekday, Midnight, Second)

\* The precision of the fields: seconds or finer.
Common(p) == IF p < Second THEN Second ELSE p
Ticks(n, p) == n * (Common(p) \div p)

OfTimePoint(x) ==
  LET p == Common(x.p)
      n == Ticks(x.n, x.p)
      ld == Floor(n, 24 * p)
  IN Fields(FromDays(ld), NoWeekday, TimeOf(n - ld * 24 * p, p), p)
OfLocalTime(x) == [OfTimePoint(x) EXCEPT !.abbrev = x.abbrev, !.offset = x.offset]
OfSysTime(x) == [OfTimePoint(x) EXCEPT !.abbrev = {"UTC"}, !.offset = {0}]
OfDuration(x) ==
  Fields(Ymd(0, 0, 0), NoWeekday, TimeOf(Ticks(x.n, x.p), Common(x.p)), Common(x.p))

FieldsOf(x) ==
  CASE x.is = "year" -> OfDate(x.n, 0, 0)
    [] x.is = "month" -> OfDate(0, x.n, 0)
    [] x.is = "day" -> OfDate(0, 0, x.n)
    [] x.is = "weekday" -> [OfDate(0, 0, 0) EXCEPT !.wd = x.n]
    [] x.is = "year_month" -> OfDate(x.year, x.month, 0)
    [] x.is = "month_day" -> OfDate(0, x.month, x.day)
    [] x.is = "year_month_day" -> OfDate(x.year, x.month, x.day)
    [] x.is = "duration" -> OfDuration(x)
    [] x.is = "local_time" -> OfLocalTime(x)
    [] x.is = "sys_time" -> OfSysTime(x)

-----------------------------------------------------------------------------
(* The weekday of the fields, none if there is no valid one or two.        *)
ExtractWeekday(f) ==
  IF ~YmdOk(f.ymd) THEN IF WeekdayOk(f.wd) THEN {f.wd} ELSE {}
  ELSE IF WeekdayOk(f.wd) /\ f.wd # Weekday(f.ymd) THEN {} ELSE {Weekday(f.ymd)}

Two(n) == Padded(n, 2)
\* n % k as the language has it.
Rem(n, k) == n - Over(n, k) * k

PutWeekdayName(c, f) == {WeekdayNames[wd + 1 + (IF c = "a" THEN 7 ELSE 0)] : wd \in ExtractWeekday(f)}
PutMonthName(c, f) == {MonthNames[f.ymd.month + (IF c = "b" THEN 12 ELSE 0)]}
PutDateAndTime(f) ==
  {WeekdayNames[wd + 8] \o " " \o MonthNames[f.ymd.month + 12] \o " " \o
     Filled(ToString(f.ymd.day), 2, " ") \o " " \o
     TodText(TimeOf(Whole(ToDuration(f.tod, f.p), PerSecond(f.p)), Second), Second) \o " " \o
     YearText(f.ymd.year) : wd \in ExtractWeekday(f)}
PutSlashed(f) == {Two(f.ymd.month) \o "/" \o Two(f.ymd.day) \o "/" \o Two(Rem(f.ymd.year, 100))}
PutCentury(f) ==
  {IF f.ymd.year >= 0 THEN Two(f.ymd.year \div 100) ELSE "-" \o Two(Over(-(f.ymd.year - 99), 100))}
PutDay(c, f) == {Filled(ToString(f.ymd.day), 2, IF c = "d" THEN "0" ELSE " ")}
\* The year is filled as well, its sign with it.
PutDashed(f) == {Padded(f.ymd.year, 4) \o "-" \o Two(f.ymd.month) \o "-" \o Two(f.ymd.day)}

\* The first Monday of a year counted in weeks: that of its fourth of January.
WeekYearStart(y) == YmwLastToDays(YmwLast(Short(y - 1), 12, WeekdayLast(4))) + WeekdayMinus(1, 4)
InWeekYear(ld, y) == IF ld < WeekYearStart(y) THEN Short(y - 1) ELSE y
WeekYear(ymd) == InWeekYear(ToDays(ymd), FromDays(ToDays(ymd) + 3).year)
PutWeekYear(c, f) ==
  {IF c = "G" THEN YearText(WeekYear(f.ymd)) ELSE Two(Abs(WeekYear(f.ymd)) % 100)}

PutHours(c, f) == {Two((IF c = "I" THEN Make12(f.tod) ELSE f.tod).h)}
PutDayOfYear(f) == {Padded(ToDays(f.ymd) - ToDays(Ymd(f.ymd.year, 1, 1)) + 1, 3)}
PutMonth(f) == {Two(f.ymd.month)}
PutMinutes(f) == {Two(f.tod.m)}
PutAmPm(f) == {AmPmNames[IF f.tod.h < 12 THEN 1 ELSE 2]}
PutTimeOf12(f) ==
  LET tod == TimeOf(Whole(ToDuration(f.tod, f.p), PerSecond(f.p)), Second)
      tod12 == Make12(tod)
  IN {Two(tod12.h) \o ":" \o Two(tod12.m) \o ":" \o Two(tod12.s) \o " " \o
      AmPmNames[IF Make24(tod12).h < 12 THEN 1 ELSE 2]}
PutHoursAndMinutes(f) == {Two(f.tod.h) \o ":" \o Two(f.tod.m)}
PutSeconds(f) == {DecimalSecondsText(f.tod, f.p)}
PutTime(f) == {TodText(f.tod, f.p)}
PutWeekdayFrom1(f) == {ToString(IF wd # 0 THEN wd ELSE 7) : wd \in ExtractWeekday(f)}
PutWeekday(f) == {ToString(wd) : wd \in ExtractWeekday(f)}

\* Weeks counted from a day on: 0 before it.
WeekNumber(ld, st) == IF ld < st THEN "00" ELSE Two((ld - st) \div 7 + 1)
FirstOfYear(ymd, wd) == YmwToDays(Ymw(ymd.year, 1, WeekdayIndexed(wd, 1)))
PutWeekFromSunday(f) == {WeekNumber(ToDays(f.ymd), FirstOfYear(f.ymd, 0))}
PutWeekOfWeekYear(f) == {WeekNumber(ToDays(f.ymd), WeekYearStart(WeekYear(f.ymd)))}
PutWeekFromMonday(f) == {WeekNumber(ToDays(f.ymd), FirstOfYear(f.ymd, 1))}

PutYearOfCentury(f) == {Two(Abs(f.ymd.year) % 100)}
PutYear(f) == {YearText(f.ymd.year)}
PutOffset(mod, f) ==
  {LET m == Abs(Over(o, 60)) IN
     (IF Over(o, 60) < 0 THEN "-" ELSE "+") \o Two(m \div 60) \o
     (IF mod # "" THEN ":" ELSE "") \o Two(m % 60) : o \in f.offset}

\* The letters that stand for themselves behind an E or an O.
Unmodified(c, mod) ==
  \/ c \in {"a", "A", "b", "B", "h", "D", "F", "g", "G", "j", "n", "R", "t", "T", "Z"} /\ mod # ""
  \/ c \in {"c", "x"} /\ mod = "O"

Letters ==
  {"a", "A", "b", "B", "h", "c", "x", "C", "d", "e", "D", "F", "g", "G", "H", "I", "j", "m", "M", "n", "p",
   "r", "R", "S", "t", "T", "u", "U", "V", "w", "W", "X", "y", "Y", "z", "Z"}

Put(c, mod, f) ==
  IF Unmodified(c, mod) THEN {"%" \o mod \o c}
  ELSE
  CASE c \in {"a", "A"} -> PutWeekdayName(c, f)
    [] c \in {"b", "B", "h"} -> PutMonthName(c, f)
    [] c = "c" -> PutDateAndTime(f)
    [] c \in {"D", "x"} -> PutSlashed(f)
    [] c = "C" -> PutCentury(f)
    [] c \in {"d", "e"} -> PutDay(c, f)
    [] c = "F" -> PutDashed(f)
    [] c \in {"g", "G"} -> PutWeekYear(c, f)
    [] c \in {"H", "I"} -> PutHours(c, f)
    [] c = "j" -> PutDayOfYear(f)
    [] c = "m" -> PutMonth(f)
    [] c = "M" -> PutMinutes(f)
    [] c = "n" -> {"\n"}
    [] c = "p" -> PutAmPm(f)
    [] c = "r" -> PutTimeOf12(f)
    [] c = "R" -> PutHoursAndMinutes(f)
    [] c = "S" -> PutSeconds(f)
    [] c = "t" -> {"\t"}
    [] c \in {"T", "X"} -> PutTime(f)
    [] c = "u" -> PutWeekdayFrom1(f)
    [] c = "w" -> PutWeekday(f)
    [] c = "U" -> PutWeekFromSunday(f)
    [] c = "V" -> PutWeekOfWeekYear(f)
    [] c = "W" -> PutWeekFromMonday(f)
    [] c = "y" -> PutYearOfCentury(f)
    [] c = "Y" -> PutYear(f)
    [] c = "z" -> PutOffset(mod, f)
    [] c = "Z" -> f.abbrev

-----------------------------------------------------------------------------
(* The loop over the format: what is left of it, whether a % was seen and  *)
(* the E or O behind it, and the text so far.                              *)
First(s) == SubSeq(s, 1, 1)

RECURSIVE ToStream(_, _, _, _, _)
ToStream(fmt, command, mod, f, text) ==
  IF fmt = "" THEN {text \o (IF command THEN "%" ELSE "") \o mod}
  ELSE LET c == First(fmt) IN
    CASE c = "%" /\ ~command -> ToStream(Tail(fmt), TRUE, mod, f, text)
      [] c \in {"E", "O"} /\ command /\ mod = "" -> ToStream(Tail(fmt), TRUE, c, f, text)
      [] c \in {"E", "O"} /\ command /\ mod # "" ->
           ToStream(Tail(fmt), FALSE, "", f, text \o "%" \o mod \o c)
      [] c = "%" /\ command ->
           ToStream(Tail(fmt), FALSE, "", f, text \o (IF mod = "" THEN "%" ELSE "%" \o mod \o "%"))
      [] c \in Letters /\ command ->
           UNION {ToStream(Tail(fmt), FALSE, "", f, text \o s) : s \in Put(c, mod, f)}
      [] OTHER ->
           ToStream(Tail(fmt), FALSE, "", f, text \o (IF command THEN "%" ELSE "") \o mod \o c)

Format(fmt, x) == ToStream(fmt, FALSE, "", FieldsOf(x), "")
=============================================================================
