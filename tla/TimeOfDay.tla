------------------------------ MODULE TimeOfDay ------------------------------
(***************************************************************************)
(* Times of day of pistache/date.h, and the texts operator<< writes of     *)
(* them and of the calendar's types.  A precision is the number of ticks   *)
(* in an hour that a duration counts: 1, 60, 3600, or 3600 times a power   *)
(* of ten.  A text is a string.                                            *)
(***************************************************************************)
EXTENDS Calendar, Sequences, TLC

Hour == 1
Minute == 60
Second == 3600

\* The decimal digits of 1/n, 19 when there are more than 18.
RECURSIVE WidthFrom(_, _, _)
WidthFrom(n, d, w) ==
  IF n < 2 \/ d = 0 \/ w >= 19 THEN 0 ELSE 1 + WidthFrom(n, (d % n) * 10, w + 1)
Width(n) == WidthFrom(n, 10, 0)

\* The digits after the point that a precision is written with.
PrecisionWidth(w) == IF w < 19 THEN w ELSE 6
PerSecond(p) == p \div Second
Digits(p) == PrecisionWidth(Width(PerSecond(p)))

\* Whole units and what is left, of a count of ticks, both towards zero.
Whole(n, unit) == Over(n, unit)
Rest(n, unit) == n - Over(n, unit) * unit

\* Rounding to a coarser unit.
Floor(n, unit) == IF Whole(n, unit) * unit > n THEN Whole(n, unit) - 1 ELSE Whole(n, unit)
Ceil(n, unit) == IF Whole(n, unit) * unit < n THEN Whole(n, unit) + 1 ELSE Whole(n, unit)
Round(n, unit) ==
  LET t0 == Floor(n, unit)
      t1 == t0 + 1
      diff0 == n - t0 * unit
      diff1 == t1 * unit - n
  IN IF diff0 = diff1 THEN IF t0 - Over(t0, 2) * 2 = 0 THEN t0 ELSE t1
     ELSE IF diff0 < diff1 THEN t0 ELSE t1

Abs(n) == IF n >= 0 THEN n ELSE -n

-----------------------------------------------------------------------------
(* A time of day: hours, minutes and seconds, and ticks of the precision   *)
(* under a second; "24", "am" or "pm"; and whether it is negative.  What a *)
(* coarser class does not have is 0.                                       *)
Tod(h, m, s, sub, mode, neg) ==
  [h |-> Abs(h), m |-> m, s |-> s, sub |-> sub, mode |-> mode, neg |-> neg]
Midnight == Tod(0, 0, 0, 0, "24", FALSE)

\* Seconds and what is under a second, of a count of ticks.
DecimalSeconds(n, p) == <<Whole(n, PerSecond(p)), Rest(n, PerSecond(p))>>

TodOfHours(n) == Tod(n, 0, 0, 0, "24", n < 0)
TodOfMinutes(n) == Tod(Whole(n, 60), Abs(n) - Abs(Whole(n, 60)) * 60, 0, 0, "24", n < 0)
TodOfSeconds(n) ==
  LET rest == Rest(Abs(n), 3600) IN
    Tod(Whole(n, 3600), Whole(rest, 60), Rest(rest, 60), 0, "24", n < 0)
TodOfSubseconds(n, p) ==
  LET rest == Rest(Abs(n), p)
      s == DecimalSeconds(Rest(rest, p \div 60), p)
  IN Tod(Whole(n, p), Whole(rest, p \div 60), s[1], s[2], "24", n < 0)
TimeOf(n, p) == CASE p = Hour -> TodOfHours(n)
                  [] p = Minute -> TodOfMinutes(n)
                  [] p = Second -> TodOfSeconds(n)
                  [] OTHER -> TodOfSubseconds(n, p)

\* make_time from its parts.
MakeTime(h, m, s, sub, mode) == Tod(h, m, s, sub, mode, FALSE)

To24Hours(t) ==
  CASE t.mode = "pm" -> IF t.h # 12 THEN t.h + 12 ELSE t.h
    [] t.mode = "am" -> IF t.h = 12 THEN 0 ELSE t.h
    [] OTHER -> t.h
Make24(t) == [t EXCEPT !.h = To24Hours(t), !.mode = "24"]
Make12(t) ==
  IF t.mode # "24" THEN t
  ELSE IF t.h >= 12 THEN [t EXCEPT !.h = IF t.h > 12 THEN t.h - 12 ELSE t.h, !.mode = "pm"]
  ELSE [t EXCEPT !.h = IF t.h = 0 THEN 12 ELSE t.h, !.mode = "am"]

Signed(t, n) == IF t.neg THEN -n ELSE n
HoursToDuration(t) == Signed(t, To24Hours(t))
MinutesToDuration(t) == Signed(t, To24Hours(t) * 60 + t.m)
SecondsToDuration(t) == Signed(t, To24Hours(t) * 3600 + t.s + t.m * 60)
SubsecondsToDuration(t, p) == Signed(t, (To24Hours(t) * 3600 + t.s + t.m * 60) * PerSecond(p) + t.sub)
ToDuration(t, p) == CASE p = Hour -> HoursToDuration(t)
                      [] p = Minute -> MinutesToDuration(t)
                      [] p = Second -> SecondsToDuration(t)
                      [] OTHER -> SubsecondsToDuration(t, p)

InConventionalRange(t) == ~t.neg /\ t.h < 24 /\ t.m < 60 /\ t.s < 60

-----------------------------------------------------------------------------
(* Texts.                                                                  *)
RECURSIVE Filled(_, _, _)
Filled(s, w, fill) == IF Len(s) >= w THEN s ELSE Filled(fill \o s, w, fill)
Padded(n, w) == Filled(ToString(n), w, "0")

DayText(d) == Padded(d, 2)
MonthText(m) ==
  IF ~MonthOk(m) THEN ToString(m) \o " is not a valid month"
  ELSE <<"Jan", "Feb", "Mar", "Apr", "May", "Jun", "Jul", "Aug", "Sep", "Oct", "Nov", "Dec">>[m]
\* Filled between sign and digits.
YearText(y) == IF y < 0 THEN "-" \o Padded(-y, 4) ELSE Padded(y, 4)
WeekdayText(wd) ==
  IF ~WeekdayOk(wd) THEN ToString(wd) \o " is not a valid weekday"
  ELSE <<"Sun", "Mon", "Tue", "Wed", "Thu", "Fri", "Sat">>[wd + 1]

YearMonthText(x) == YearText(x.year) \o "/" \o MonthText(x.month)
MonthDayText(x) == MonthText(x.month) \o "/" \o DayText(x.day)
YmdText(x) == YearText(x.year) \o "-" \o Padded(x.month, 2) \o "-" \o DayText(x.day)

DecimalSecondsText(t, p) ==
  Padded(t.s, 2) \o (IF Digits(p) = 0 THEN "" ELSE "." \o Padded(t.sub, Digits(p)))

\* Hours have two digits unless they are of twelve.
HoursText(t) ==
  (IF t.neg THEN "-" ELSE "") \o (IF t.mode = "24" THEN Padded(t.h, 2) ELSE ToString(t.h))
ModeText(t, of24) == IF t.mode = "24" THEN of24 ELSE t.mode
TodText(t, p) ==
  HoursText(t) \o
  CASE p = Hour -> ModeText(t, "00")
    [] p = Minute -> ":" \o Padded(t.m, 2) \o ModeText(t, "")
    [] OTHER -> ":" \o Padded(t.m, 2) \o ":" \o DecimalSecondsText(t, p) \o ModeText(t, "")

\* A point in time, counted in ticks of the precision since 1970.
TimePointText(n, p) ==
  LET dp == Floor(n, 24 * p) IN YmdText(FromDays(dp)) \o " " \o TodText(TimeOf(n - dp * 24 * p, p), p)
=============================================================================
