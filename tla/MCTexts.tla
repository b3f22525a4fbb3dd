------------------------------- MODULE MCTexts -------------------------------
(***************************************************************************)
(* The libraries' texts: those of MCJson, and the dates and times of       *)
(* DateParse.  A calendar is walked day by day through some years; dates   *)
(* and times are written in one format, alone or with parts of another     *)
(* date, and read back in another.                                         *)
(***************************************************************************)
EXTENDS MCJson

CONSTANT Years  \* those that dates are from; each before the year 0 as well

D == INSTANCE DateParse

-----------------------------------------------------------------------------
(* The walk, by the rules of the calendar alone.  `how` is the number of   *)
(* the day, `about` its year, month, day and weekday.                      *)
Leap(y) == y % 400 = 0 \/ (y % 4 = 0 /\ y % 100 # 0)
Lasts(y, m) == IF m = 2 THEN IF Leap(y) THEN 29 ELSE 28 ELSE IF m \in {4, 6, 9, 11} THEN 30 ELSE 31
LeapsBefore(y) == (y - 1) \div 4 - (y - 1) \div 100 + (y - 1) \div 400
NewYear(y) == 365 * (y - 1970) + LeapsBefore(y) - LeapsBefore(1970)

AllYears == Years \cup {-y : y \in Years}
Walked == AllYears \cup {-32767, 32767}
WalkInit ==
  \E y \in Walked :
    /\ part = "day" /\ result = <<>>
    /\ how = NewYear(y) /\ about = <<y, 1, 1, (NewYear(y) + 4) % 7>>
    /\ StartParser(Unwritten, "throw", Nothing)

Walk ==
  /\ part = "day" /\ ~(about[2] = 12 /\ about[3] = 31)
  /\ how' = how + 1
  /\ about' = IF about[3] < Lasts(about[1], about[2])
              THEN <<about[1], about[2], about[3] + 1, (about[4] + 1) % 7>>
              ELSE <<about[1], about[2] + 1, 1, (about[4] + 1) % 7>>
  /\ UNCHANGED <<lexer, parser, part, result>>

-----------------------------------------------------------------------------
(* What is written and how it is read: x in the format `print`, and parts  *)
(* of y in the format `besides`; all of it in `parse` and `besides`.       *)
Day(y, m, d) == D!Ymd(y, m, d)
Dates == {Day(y, md[1], md[2]) :
            y \in AllYears, md \in {<<1, 1>>, <<1, 3>>, <<2, 28>>, <<3, 1>>, <<12, 31>>}}
Around(x) == {D!FromDays(D!ToDays(x) + n) : n \in {0, 1, 7}}

Both(f) == [print |-> f, parse |-> f]
ByMonth == {Both("%Y-%m-%d"), Both("%d %b %Y"), Both("%B %d, %Y"), [print |-> "%Y%m%d", parse |-> "%4Y%2m%2d"],
            Both("%C %y/%m/%d"), [print |-> "<<", parse |-> "%Y-%m-%d"], [print |-> "%F", parse |-> "%Y-%m-%d"],
            [print |-> "%EF %Y%n%m%n%d", parse |-> "%EF %Y %m%n%d"]}
ByWeek == {Both("%G-W%V-%u"), Both("%a %V %G"), Both("%A%t%V%t%G")}
ByDay == {Both("%Y-%j")}
BesidesMonth == {"%j", "%a", "%w", "%G %V %A", "%y", "%g %V %u"}
BesidesWeek == {"%j", "%Y", "%m", "%d", "%B", "%Y %b %e"}
BesidesDay == {"%m", "%d", "%h", "%u", "%G %V %a", "%U %w", "%W %a"}

Case(x, y, f, besides) == [x |-> x, y |-> y, print |-> f.print, parse |-> f.parse, besides |-> besides]
Alone(xs, fs) == {Case(x, x, f, "") : x \in xs, f \in fs}
With(xs, fs, bs) == UNION {{Case(x, y, f, b) : y \in Around(x), f \in fs, b \in bs} : x \in xs}
DateCases ==
  Alone(Dates, ByMonth \cup ByWeek \cup ByDay) \cup
  With(Dates, ByMonth \ {Both("%C %y/%m/%d")}, BesidesMonth) \cup
  With(Dates, {Both("%C %y/%m/%d")}, BesidesMonth \ {"%y"}) \cup
  With(Dates, ByWeek, BesidesWeek) \cup With(Dates, ByDay, BesidesDay)

\* Points in time and durations, in minutes, seconds and milliseconds.
Point(t, n, p) == [is |-> t, p |-> p, n |-> n]
Seconds == {0, 1, 59, 3599, 43199, 43200, 46861, 86399, -1, -86400, 951782400, 1561897845, -1000000001}
Millis == {0, 1, 999, 45296789, 86399999, 86400000, -1, -86400001, 2000000000}
Minutes == {0, 59, 719, 720, 1439, -1, 26031630}
Named(x, o) == [is |-> "local_time", p |-> x.p, n |-> x.n, abbrev |-> {"CET"}, offset |-> {o}]
Clocks == {Both("%F %T"), Both("%Y-%m-%d %H:%M:%S"), Both("%c"), Both("%F %r"), Both("%F %I:%M:%S %p"),
           Both("%b %d %Y %X"), [print |-> "<<", parse |-> "%F %T"]}
Points(t, ns, p) == {Point(t, n, p) : n \in ns}
TimeCases ==
  Alone(Points("sys_time", Seconds, D!Second), Clocks \cup {Both("%F %T %z"), Both("%F %T %Ez %Z")}) \cup
  Alone(Points("sys_time", Millis, 3600000),
        {Both("%F %T"), Both("%F %R:%S"), [print |-> "<<", parse |-> "%F %T"]}) \cup
  Alone(Points("sys_time", Minutes, D!Minute), {Both("%F %R"), Both("%D %I:%M %p"), Both("%F %T")}) \cup
  Alone({Named(Point("", n, D!Second), o) : n \in Seconds, o \in {0, 3600, 20700, -18000}},
        {Both("%F %T %z %Z"), Both("%Z %F %T %Ez")}) \cup
  Alone(Points("duration", Seconds \cap 0..359999, D!Second),
        {Both("%T"), [print |-> "<<", parse |-> "%T"], Both("%M:%S:%H")}) \cup
  Alone(Points("duration", Millis \cap 0..359999999, 3600000), {Both("%T"), [print |-> "<<", parse |-> "%T"]})

\* Fields alone.
Counted(t, ns) == {[is |-> t, n |-> n] : n \in ns}
FieldCases ==
  Alone(Counted("year", AllYears), {Both("%Y"), Both("%C%y"), [print |-> "<<", parse |-> "%Y"]}) \cup
  Alone(Counted("month", 1..12), {Both("%m"), Both("%b"), Both("%B"), [print |-> "<<", parse |-> "%h"]}) \cup
  Alone(Counted("day", 1..31), {Both("%d"), Both(" %e"), [print |-> "<<", parse |-> "%d"]}) \cup
  Alone(Counted("weekday", 0..6),
        {Both("%a"), Both("%A"), Both("%u"), Both("%w"), [print |-> "<<", parse |-> "%a"]}) \cup
  Alone({D!YearMonth(y, m) : y \in AllYears, m \in {1, 12}},
        {Both("%Y-%m"), [print |-> "<<", parse |-> "%Y/%b"]}) \cup
  Alone({D!MonthDay(m, d) : m \in {1, 2, 12}, d \in {1, 29}},
        {Both("%d %B"), [print |-> "<<", parse |-> "%b/%d"]})

DateInit ==
  \E c \in DateCases \cup TimeCases \cup FieldCases :
    /\ part = "date" /\ how = <<>> /\ about = c /\ result = <<>>
    /\ StartParser(Unwritten, "throw", Nothing)

\* operator<< of x.
Shown(x) ==
  CASE x.is = "year" -> D!YearText(x.n)
    [] x.is = "month" -> D!MonthText(x.n)
    [] x.is = "day" -> D!DayText(x.n)
    [] x.is = "weekday" -> D!WeekdayText(x.n)
    [] x.is = "year_month" -> D!YearMonthText(x)
    [] x.is = "month_day" -> D!MonthDayText(x)
    [] x.is = "year_month_day" -> D!YmdText(x)
    [] x.is = "sys_time" -> D!TimePointText(x.n, x.p)
    [] x.is = "duration" -> D!TodText(D!TimeOf(x.n, x.p), x.p)
Printed(c) == IF c.print = "<<" THEN {Shown(c.x)} ELSE D!Format(c.print, c.x)

PrintDate ==
  /\ part = "date" /\ how = <<>>
  /\ how' = <<{a \o " " \o b : a \in Printed(about), b \in D!Format(about.besides, about.y)}>>
  /\ UNCHANGED <<lexer, parser, part, about, result>>

\* The same text in capitals.
RECURSIVE Shouted(_)
Shouted(s) == IF s = "" THEN "" ELSE D!Upper(D!First(s)) \o Shouted(Tail(s))
Spoken(s, c) == {s} \cup (IF c.besides = "" THEN {Shouted(s)} ELSE {})

ParseDate ==
  /\ part = "date" /\ how # <<>> /\ result = <<>>
  /\ \E written \in how[1] : \E spoken \in Spoken(written, about) :
       result' = <<"read", D!Parse(about.parse \o " " \o about.besides, spoken, about.x)>>
  /\ UNCHANGED <<lexer, parser, part, how, about>>

TextsInit == MCInit \/ WalkInit \/ DateInit
TextsNext == MCNext \/ Walk \/ PrintDate \/ ParseDate
TextsSpec == TextsInit /\ [][TextsNext]_mcVars

-----------------------------------------------------------------------------
Steps == {-13, -12, -1, 0, 1, 11, 25}
Operand(t, n) == [is |-> t, n |-> n]
IntOf(n) == Operand("int", n)
InRange == (D!YearMin + 4)..(D!YearMax - 4)
OneOf(s) == CHOOSE e \in s : TRUE
Slashed(a, b, c) == OneOf(D!Slash(OneOf(D!Slash(a, b)), c))

\* The how-many-th day this is in the calendar, and the weekday.
DayRight(y, m, d, wd, x) ==
  /\ D!FromDays(how) = x /\ D!ToDays(x) = how /\ D!YmdOk(x) /\ D!Weekday(x) = wd
  /\ ~D!YmdOk(D!Ymd(y, m, Lasts(y, m) + 1)) /\ D!OfLast(D!YmdLast(y, m)) = D!Ymd(y, m, Lasts(y, m))
  /\ D!NextWeekday(wd) = D!WeekdayFromDays(how + 1) /\ D!PreviousWeekday(wd) = D!WeekdayFromDays(how - 1)
  /\ \A n \in Steps : /\ D!WeekdayPlus(wd, n) = D!WeekdayFromDays(how + n)
                      /\ D!WeekdayMinus(D!WeekdayPlus(wd, n), wd) = n % 7
                      /\ y \in InRange => (D!YmdLess(x, D!FromDays(how + n)) <=> n > 0)

\* The n-th and the last of its weekday in the month.
NthRight(y, m, wd, nth, isLast) ==
  /\ D!YmwFromDays(how) = D!Ymw(y, m, D!WeekdayIndexed(wd, nth))
  /\ D!YmwToDays(D!Ymw(y, m, D!WeekdayIndexed(wd, nth))) = how
  /\ D!YmwOk(D!Ymw(y, m, D!WeekdayIndexed(wd, nth + 1))) <=> ~isLast
  /\ D!YmwLastToDays(D!YmwLast(y, m, D!WeekdayLast(wd))) = how <=> isLast

\* n months on from this one, and back.
MonthsRight(ym, later, n) ==
  /\ D!MonthPlus(ym.month, n) = later.month /\ D!MonthMinus(later.month, ym.month) = n % 12
  /\ ym.year \in InRange =>
       /\ D!YearMonthPlus(later, -n) = ym /\ D!YearMonthMinus(later, ym) = n /\ D!YearMonthOk(later)
       /\ D!YearMonthLess(ym, later) <=> n > 0
       /\ D!YmdLastLess(D!YmdLast(ym.year, ym.month), D!YmdLast(later.year, later.month)) <=> n > 0

\* A year is twelve months for every form of date, and what is left is there.
YearsRight(x, xLast, xNth, xLastOf) ==
  /\ D!YmdPlusMonths(x, -12) = D!YmdPlusYears(x, -1)
  /\ D!YmdLastPlusMonths(xLast, 24) = D!YmdLastPlusYears(xLast, 2)
  /\ D!YmwPlusMonths(xNth, 12) = D!YmwPlusYears(xNth, 1)
  /\ D!YmwLastPlusMonths(xLastOf, -24) = D!YmwLastPlusYears(xLastOf, -2)
  /\ D!YearMonthPlusYears(D!YearMonth(x.year, x.month), 1) = D!YearMonthPlus(D!YearMonth(x.year, x.month), 12)
  /\ D!NextMonth(x.month) = D!MonthPlus(x.month, 1) /\ D!PreviousMonth(x.month) = D!MonthPlus(x.month, -1)
  /\ D!MonthDayOk(D!MonthDay(x.month, x.day)) /\ D!YmwOk(xNth) /\ D!YmwLastOk(xLastOf)
  /\ D!MonthWeekdayOk(D!MonthWeekday(x.month, xNth.wd))
  /\ D!MonthWeekdayLastOk(D!MonthWeekdayLast(x.month, xLastOf.wd))
  /\ D!YmdOk([x EXCEPT !.day = D!DayPlus(@, 1)]) <=> x # D!OfLast(xLast)

\* The date and the weekdays of the month in every order.
OrdersRight(x, year, month, day, weekdays) ==
  /\ x = Slashed(year, month, day) /\ x = Slashed(month, day, year) /\ x = Slashed(day, month, year)
  /\ x = Slashed(year, IntOf(month.n), IntOf(day.n)) /\ x = Slashed(month, IntOf(day.n), IntOf(year.n))
  /\ x = Slashed(day, IntOf(month.n), IntOf(year.n))
  /\ \A w \in weekdays : /\ Slashed(year, month, w) = Slashed(month, w, year)
                         /\ Slashed(w, month, year) = Slashed(year, IntOf(month.n), w)

\* Days rounded to weeks, and a time of day of twelve hours: no day and no
\* second is lost.
ClockRight(n, p) ==
  /\ D!Floor(how, 7) = how \div 7 /\ D!Ceil(how, 7) = -((-how) \div 7)
  /\ 2 * D!Abs(D!Round(how, 7) * 7 - how) <= 7
  /\ LET t == D!TimeOf(n, p) IN
       /\ D!ToDuration(t, p) = n /\ D!ToDuration(D!Make12(t), p) = n
       /\ D!Make24(D!Make12(t)) = t /\ D!InConventionalRange(t)
       /\ D!MakeTime(t.h, t.m, t.s, t.sub, "24") = t

\* The calendar of the header is that of the walk: the day with number n is
\* its n-th, of the same weekday; it is the weekday's n-th or last of its
\* month by the same count; dates are in the order of their days; to add
\* months is undone by taking them away; and a date is the same in whichever
\* of the three orders it is put together; to go to larger units or to twelve
\* hours keeps the time.  (from_days, to_days,
\* weekday_from_days, operator+, operator-, operator<, operator/,
\* floor, ceil, round, time_of_day.)
CalendarRight ==
  part = "day" =>
    /\ DayRight(about[1], about[2], about[3], about[4], D!Ymd(about[1], about[2], about[3]))
    /\ NthRight(about[1], about[2], about[4], (about[3] + 6) \div 7, about[3] + 7 > Lasts(about[1], about[2]))
    /\ \A n \in Steps : MonthsRight(D!YearMonth(about[1], about[2]),
                                    D!YearMonthPlus(D!YearMonth(about[1], about[2]), n), n)
    /\ YearsRight(D!Ymd(about[1], about[2], about[3]), D!YmdLast(about[1], about[2]),
                  D!Ymw(about[1], about[2], D!WeekdayIndexed(about[4], (about[3] + 6) \div 7)),
                  D!YmwLast(about[1], about[2], D!WeekdayLast(about[4])))
    /\ OrdersRight(D!Ymd(about[1], about[2], about[3]), Operand("year", about[1]), Operand("month", about[2]),
                   Operand("day", about[3]),
                   {D!WeekdayIndexed(about[4], (about[3] + 6) \div 7), D!WeekdayLast(about[4]), [is |-> "last"]})
    /\ ClockRight(((how % 24) * 3600) + (how % 3600), D!Second) /\ ClockRight(how % 1440, D!Minute)
    /\ ClockRight(how % 24, D!Hour) /\ ClockRight((how % 1440) * 59999, 3600000)

Consistent(c) == D!Format(c.besides, c.y) = D!Format(c.besides, c.x)

\* What cannot be read as it was written: two digits for the week's year of
\* another century; years before 0 that end in 00, given twice; week 0; and
\* short years before 0 as %F fills them.
Lossy(c) ==
  /\ c.x.is = "year_month_day"
  /\ \/ c.besides = "%y" /\ c.x.year < 0 /\ c.x.year % 100 = 0
     \/ c.besides = "%g %V %u" /\ LET y == D!WeekYear(c.x) IN
          IF c.print = "%C %y/%m/%d" THEN y \div 100 # c.x.year \div 100 ELSE y \notin 1969..2068
     \/ c.besides = "%U %w" /\ D!Format("%U", c.x) = {"00"}
     \/ c.besides = "%W %a" /\ D!Format("%W", c.x) = {"00"}
     \/ c.print = "%F" /\ c.x.year \in -999..(-1)

\* A text that says one date is read as that date, in small letters or
\* capitals; a text whose parts say two dates is refused, though each part
\* is read on its own and none of them alone is a date.  (to_stream,
\* from_stream, operator<<.)
DateTrip ==
  part = "date" /\ result # <<>> =>
    IF Consistent(about) THEN Lossy(about) \/ result[2] = {about.x} ELSE result[2] = {}
=============================================================================
