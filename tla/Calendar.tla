------------------------------ MODULE Calendar -------------------------------
(***************************************************************************)
(* The calendar of pistache/date.h: days, months, years and weekdays in    *)
(* the bytes and the short that hold them, dates in the four forms the     *)
(* header has, and the day numbers, counted from 1970-01-01, they stand    *)
(* for.  A day, month, year or weekday is its number; everything composed  *)
(* is a record whose field `is` names its type.  >, <=, >= and != follow   *)
(* from < and == in the code as they do here, x += n is x = x + n, and     *)
(* minus n is plus -n.                                                     *)
(***************************************************************************)
EXTENDS Integers

\* Division of the language, towards zero.
Over(n, k) == IF n >= 0 THEN n \div k ELSE -((-n) \div k)

Byte(n) == n % 256
Short(n) == ((n + 32768) % 65536) - 32768
Nibble(n) == n % 16

-----------------------------------------------------------------------------
(* Fields.                                                                 *)
DayOk(d) == 1 <= d /\ d <= 31
DayPlus(d, n) == Byte(d + n)

MonthOk(m) == 1 <= m /\ m <= 12
NextMonth(m) == IF Byte(m + 1) = 13 THEN 1 ELSE Byte(m + 1)
PreviousMonth(m) == IF Byte(m - 1) = 0 THEN 12 ELSE Byte(m - 1)
MonthMinus(x, y) == IF x - y \in 0..11 THEN x - y ELSE x - y + 12
MonthPlus(m, n) ==
  LET mu == m - 1 + n
      yr == Over(IF mu >= 0 THEN mu ELSE mu - 11, 12)
  IN Byte(mu - yr * 12 + 1)

YearOk(y) == y # -32768
YearMin == -32767
YearMax == 32767
IsLeap(y) == y % 4 = 0 /\ (y % 100 # 0 \/ y % 400 = 0)
YearPlus(y, n) == Short(y + n)

WeekdayOk(wd) == wd <= 6
WeekdayFromDays(z) == IF z >= -4 THEN (z + 4) % 7 ELSE 6 - ((-(z + 5)) % 7)
NextWeekday(wd) == IF Byte(wd + 1) = 7 THEN 0 ELSE Byte(wd + 1)
PreviousWeekday(wd) == IF wd = 0 THEN 6 ELSE wd - 1
WeekdayMinus(x, y) == IF x - y \in 0..6 THEN x - y ELSE x - y + 7
WeekdayPlus(wd, n) ==
  LET wdu == wd + n
      wk == Over(IF wdu >= 0 THEN wdu ELSE wdu - 6, 7)
  IN Byte(wdu - wk * 7)

WeekdayIndexed(wd, index) == [is |-> "weekday_indexed", weekday |-> Nibble(wd), index |-> Nibble(index)]
WeekdayIndexedOk(x) == WeekdayOk(x.weekday) /\ 1 <= x.index /\ x.index <= 5
WeekdayLast(wd) == [is |-> "weekday_last", weekday |-> wd]

-----------------------------------------------------------------------------
(* Dates without a day, or without a year.                                 *)
YearMonth(y, m) == [is |-> "year_month", year |-> y, month |-> m]
YearMonthOk(x) == YearOk(x.year) /\ MonthOk(x.month)
YearMonthLess(x, y) == x.year < y.year \/ (x.year = y.year /\ x.month < y.month)
YearMonthPlus(x, n) ==
  LET dmi == x.month - 1 + n
      dy == Over(IF dmi >= 0 THEN dmi ELSE dmi - 11, 12)
  IN YearMonth(YearPlus(x.year, dy), Byte(dmi - dy * 12 + 1))
YearMonthMinus(x, y) == (x.year - y.year) * 12 + (x.month - y.month)
YearMonthPlusYears(x, n) == YearMonth(YearPlus(x.year, n), x.month)

MonthDay(m, d) == [is |-> "month_day", month |-> m, day |-> d]
MonthDayOk(x) ==
  /\ MonthOk(x.month) /\ 1 <= x.day
  /\ x.day <= <<31, 29, 31, 30, 31, 30, 31, 31, 30, 31, 30, 31>>[x.month]
MonthDayLess(x, y) == x.month < y.month \/ (x.month = y.month /\ x.day < y.day)

MonthDayLast(m) == [is |-> "month_day_last", month |-> m]
MonthDayLastLess(x, y) == x.month < y.month
MonthWeekday(m, wdi) == [is |-> "month_weekday", month |-> m, wd |-> wdi]
MonthWeekdayOk(x) == MonthOk(x.month) /\ WeekdayIndexedOk(x.wd)
MonthWeekdayLast(m, wdl) == [is |-> "month_weekday_last", month |-> m, wd |-> wdl]
MonthWeekdayLastOk(x) == MonthOk(x.month) /\ WeekdayOk(x.wd.weekday)

-----------------------------------------------------------------------------
(* Year, month and day.                                                    *)
Ymd(y, m, d) == [is |-> "year_month_day", year |-> y, month |-> m, day |-> d]

\* Years begin in March here and are counted in eras of 400: yoe is the year
\* of its era, doy the day of its year, mp the month of its year, from 0.
DayOfYear(m, d) == (153 * (IF m > 2 THEN m - 3 ELSE m + 9) + 2) \div 5 + d - 1
EraOf(y) == Over(IF y >= 0 THEN y ELSE y - 399, 400)
DayOfEra(yoe, doy) == yoe * 365 + yoe \div 4 - yoe \div 100 + doy
ToDaysFrom(y, doy) == EraOf(y) * 146097 + DayOfEra(y - EraOf(y) * 400, doy) - 719468
ToDays(x) == ToDaysFrom(x.year - (IF x.month <= 2 THEN 1 ELSE 0), DayOfYear(x.month, x.day))

\* Mutant of YearOfEra: the leap day of the 400th year begins another.
YearOfEra_Next(doe) == (doe - doe \div 1460 + doe \div 36524) \div 365

YearOfEra(doe) == (doe - doe \div 1460 + doe \div 36524 - doe \div 146096) \div 365
MonthOfYear(mp) == IF mp < 10 THEN mp + 3 ELSE mp - 9
FromMonthOfYear(y, doy, mp) ==
  Ymd(Short(y + (IF MonthOfYear(mp) <= 2 THEN 1 ELSE 0)), Byte(MonthOfYear(mp)),
      Byte(doy - (153 * mp + 2) \div 5 + 1))
FromDayOfYear(y, doy) == FromMonthOfYear(y, doy, (5 * doy + 2) \div 153)
FromYearOfEra(era, doe, yoe) == FromDayOfYear(yoe + era * 400, doe - DayOfEra(yoe, 0))
FromEra(era, z) == FromYearOfEra(era, z - era * 146097, YearOfEra(z - era * 146097))
FromDays(dp) ==
  LET z == dp + 719468 IN FromEra(Over(IF z >= 0 THEN z ELSE z - 146096, 146097), z)

Weekday(x) == WeekdayFromDays(ToDays(x))

\* The last day of a month that is one.
YmdLast(y, m) == [is |-> "year_month_day_last", year |-> y, month |-> m]
LastDay(x) ==
  IF x.month # 2 \/ ~IsLeap(x.year)
  THEN <<31, 28, 31, 30, 31, 30, 31, 31, 30, 31, 30, 31>>[x.month] ELSE 29
OfLast(x) == Ymd(x.year, x.month, LastDay(x))
YmdLastLess(x, y) == x.year < y.year \/ (x.year = y.year /\ MonthDayLastLess(x, y))
YmdLastPlusMonths(x, n) == LET ym == YearMonthPlus(x, n) IN YmdLast(ym.year, ym.month)
YmdLastPlusYears(x, n) == YmdLast(YearPlus(x.year, n), x.month)

YmdOk(x) ==
  /\ YearOk(x.year) /\ MonthOk(x.month)
  /\ 1 <= x.day /\ x.day <= LastDay(YmdLast(x.year, x.month))
YmdLess(x, y) == x.year < y.year \/ (x.year = y.year /\ MonthDayLess(x, y))
YmdPlusMonths(x, n) == LET ym == YearMonthPlus(x, n) IN Ymd(ym.year, ym.month, x.day)
YmdPlusYears(x, n) == Ymd(YearPlus(x.year, n), x.month, x.day)

-----------------------------------------------------------------------------
(* The n-th and the last of some weekday in a month.                       *)
Ymw(y, m, wdi) == [is |-> "year_month_weekday", year |-> y, month |-> m, wd |-> wdi]
YmwOk(x) ==
  /\ YearOk(x.year) /\ MonthOk(x.month) /\ WeekdayOk(x.wd.weekday) /\ 1 <= x.wd.index
  /\ \/ x.wd.index <= 4
     \/ WeekdayMinus(x.wd.weekday, Weekday(Ymd(x.year, x.month, 1))) + (x.wd.index - 1) * 7 + 1
          <= LastDay(YmdLast(x.year, x.month))
YmwFromDays(z) ==
  LET x == FromDays(z) IN
    Ymw(x.year, x.month, WeekdayIndexed(WeekdayFromDays(z), (x.day - 1) \div 7 + 1))
YmwToDays(x) ==
  LET d == ToDays(Ymd(x.year, x.month, 1)) IN
    d + WeekdayMinus(x.wd.weekday, WeekdayFromDays(d)) + (x.wd.index - 1) * 7
YmwPlusMonths(x, n) == LET ym == YearMonthPlus(x, n) IN Ymw(ym.year, ym.month, x.wd)
YmwPlusYears(x, n) == Ymw(YearPlus(x.year, n), x.month, x.wd)

YmwLast(y, m, wdl) == [is |-> "year_month_weekday_last", year |-> y, month |-> m, wd |-> wdl]
YmwLastOk(x) == YearOk(x.year) /\ MonthOk(x.month) /\ WeekdayOk(x.wd.weekday)
YmwLastToDays(x) ==
  LET d == ToDays(OfLast(x)) IN d - WeekdayMinus(WeekdayFromDays(d), x.wd.weekday)
YmwLastPlusMonths(x, n) == LET ym == YearMonthPlus(x, n) IN YmwLast(ym.year, ym.month, x.wd)
YmwLastPlusYears(x, n) == YmwLast(YearPlus(x.year, n), x.month, x.wd)

-----------------------------------------------------------------------------
(* x / y.  An operand is a record, [is |-> "year", n |-> ..] for a year, a *)
(* month, a day or an int.  The result is the set of what it makes: none   *)
(* if there is no such operator.                                           *)
IsA(x, t) == x.is = t
Counts(x, t) == x.is \in {t, "int"}

SlashYearMonth(a, b) ==
  IF IsA(a, "year") /\ Counts(b, "month") THEN {YearMonth(a.n, Byte(b.n))} ELSE {}

SlashMonthDay(a, b) ==
  IF \/ IsA(a, "month") /\ Counts(b, "day")
     \/ IsA(a, "int") /\ IsA(b, "day")
  THEN {MonthDay(Byte(a.n), Byte(b.n))}
  ELSE IF IsA(a, "day") /\ Counts(b, "month") THEN {MonthDay(Byte(b.n), Byte(a.n))} ELSE {}

\* The month in a or b, in front of or behind what is of type t, and that.
MonthWith(a, b, t) ==
  IF Counts(a, "month") /\ IsA(b, t) THEN {<<Byte(a.n), b>>}
  ELSE IF IsA(a, t) /\ Counts(b, "month") THEN {<<Byte(b.n), a>>} ELSE {}

SlashMonthDayLast(a, b) == {MonthDayLast(p[1]) : p \in MonthWith(a, b, "last")}
SlashMonthWeekday(a, b) == {MonthWeekday(p[1], p[2]) : p \in MonthWith(a, b, "weekday_indexed")}
SlashMonthWeekdayLast(a, b) == {MonthWeekdayLast(p[1], p[2]) : p \in MonthWith(a, b, "weekday_last")}

\* A year in front of or behind what is of type t and has the month, and that.
YearWith(a, b, t) ==
  IF Counts(a, "year") /\ IsA(b, t) THEN {<<Short(a.n), b>>}
  ELSE IF IsA(a, t) /\ Counts(b, "year") THEN {<<Short(b.n), a>>} ELSE {}

SlashYmd(a, b) ==
  IF IsA(a, "year_month") /\ Counts(b, "day") THEN {Ymd(a.year, a.month, Byte(b.n))}
  ELSE {Ymd(p[1], p[2].month, p[2].day) : p \in YearWith(a, b, "month_day")}

SlashYmdLast(a, b) ==
  IF IsA(a, "year_month") /\ IsA(b, "last") THEN {YmdLast(a.year, a.month)}
  ELSE {YmdLast(p[1], p[2].month) : p \in YearWith(a, b, "month_day_last")}

SlashYmw(a, b) ==
  IF IsA(a, "year_month") /\ IsA(b, "weekday_indexed") THEN {Ymw(a.year, a.month, b)}
  ELSE {Ymw(p[1], p[2].month, p[2].wd) : p \in YearWith(a, b, "month_weekday")}

SlashYmwLast(a, b) ==
  IF IsA(a, "year_month") /\ IsA(b, "weekday_last") THEN {YmwLast(a.year, a.month, b)}
  ELSE {YmwLast(p[1], p[2].month, p[2].wd) : p \in YearWith(a, b, "month_weekday_last")}

Slash(a, b) ==
  UNION {SlashYearMonth(a, b), SlashMonthDay(a, b), SlashMonthDayLast(a, b), SlashMonthWeekday(a, b),
         SlashMonthWeekdayLast(a, b), SlashYmd(a, b), SlashYmdLast(a, b), SlashYmw(a, b), SlashYmwLast(a, b)}
=============================================================================
