------------------------------ MODULE DateParse ------------------------------
(***************************************************************************)
(* from_stream of pistache/date.h: the date or the time that a text says   *)
(* in a format.  The code is the one compiled with ONLY_C_LOCALE.          *)
(*                                                                         *)
(* The state s of a read is the rest of the text, the bits that the stream *)
(* has set ("eof", "fail") and what was read so far; nothing is kept of a  *)
(* read that failed, so that a field may be set before the rest of its     *)
(* item is read.                                                           *)
(***************************************************************************)
EXTENDS DateFormat, FiniteSets

NoYear == -32768
NoCentury == Over(NoYear, 100)
No2DigitYear == 100
NoHour12 == 0
NoWeek == 100
NothingRead(text, p) ==
  [in |-> text, bits |-> {}, p |-> p,
   Y |-> NoYear, C |-> NoCentury, y |-> No2DigitYear, m |-> 0, d |-> 0, j |-> 0, wd |-> NoWeekday,
   h |-> 0, min |-> 0, s |-> 0, I |-> NoHour12, G |-> NoYear, g |-> No2DigitYear,
   V |-> NoWeek, U |-> NoWeek, W |-> NoWeek, abbrev |-> "", oh |-> 0, om |-> 0]

-----------------------------------------------------------------------------
(* The stream.  To peek at the end of the text sets eof; a stream that is  *)
(* not good any more fails at the next peek.                               *)
Good(s) == s.bits = {}
Failed(s) == "fail" \in s.bits
Fail(s) == [s EXCEPT !.bits = @ \cup {"fail"}]
Peek(s) == IF ~Good(s) THEN Fail(s) ELSE IF s.in = "" THEN [s EXCEPT !.bits = {"eof"}] ELSE s
Drop(s, n) == [s EXCEPT !.in = SubSeq(@, n + 1, Len(@))]

IndexIn(c, chars) == CHOOSE k \in 1..Len(chars) : SubSeq(chars, k, k) = c
CharsOf(chars) == {SubSeq(chars, k, k) : k \in 1..Len(chars)}
Decimal == "0123456789"
Small == "abcdefghijklmnopqrstuvwxyz"
Capital == "ABCDEFGHIJKLMNOPQRSTUVWXYZ"
IsDigit == CharsOf(Decimal)
IsSpace == {" ", "\t", "\n", "\r", "\f"}
InZone == CharsOf(Decimal) \cup CharsOf(Small) \cup CharsOf(Capital) \cup {"_", "/", "-", "+"}
DigitValue == [c \in IsDigit |-> IndexIn(c, Decimal) - 1]
UpperOf == [c \in CharsOf(Small) |-> SubSeq(Capital, IndexIn(c, Small), IndexIn(c, Small))]
Upper(c) == IF c \in DOMAIN UpperOf THEN UpperOf[c] ELSE c

\* How many characters of `chars` the text begins with, at most M unless it is 0.
RECURSIVE Leading(_, _, _)
Leading(text, chars, M) ==
  IF text = "" \/ First(text) \notin chars THEN 0
  ELSE IF M = 1 THEN 1 ELSE 1 + Leading(Tail(text), chars, IF M = 0 THEN 0 ELSE M - 1)

RECURSIVE ValueOf(_, _)
ValueOf(digits, x) == IF digits = "" THEN x ELSE ValueOf(Tail(digits), 10 * x + DigitValue[First(digits)])

SkipSpace(s) ==
  IF ~Good(s) THEN Fail(s)
  ELSE LET r == Drop(s, Leading(s.in, IsSpace, 0)) IN IF r.in = "" THEN [r EXCEPT !.bits = {"eof"}] ELSE r

\* At least m digits and at most M: the state after them, and the number.
\* Unless the last one that may be is read, what follows is peeked at.
NumberRead(s, n, full, enough, x) ==
  LET r == IF full THEN Drop(s, n) ELSE Peek(Drop(s, n)) IN <<IF enough THEN r ELSE Fail(r), x>>
DigitsRead(s, m, M, n) ==
  NumberRead(s, n, n = M /\ M # 0, n >= m, ValueOf(SubSeq(s.in, 1, n), 0))
ReadUnsigned(s, m, M) == DigitsRead(s, m, M, IF Good(s) THEN Leading(s.in, IsDigit, M) ELSE 0)

SignOf(s) == IF Good(s) /\ s.in # "" THEN First(s.in) ELSE ""
WithSign(sign, r) == IF sign = "-" THEN <<r[1], -r[2]>> ELSE r
ReadSigned(s, m, M) ==
  WithSign(SignOf(s), ReadUnsigned(IF SignOf(s) \in {"-", "+"} THEN Drop(s, 1) ELSE Peek(s), m, M))

\* n divided by k, rounded to the nearest, to even between two.
Rounded(n, k) ==
  LET q == n \div k
      twice == 2 * (n % k)
  IN IF twice > k \/ (twice = k /\ q % 2 = 1) THEN q + 1 ELSE q

\* Seconds with a fraction, M digits in all at most, in ticks of the precision.
SecondsRead(s, M, n, digits, fraction) ==
  NumberRead(s, n, Len(digits) = M /\ M # 0, digits # "",
             Rounded(ValueOf(digits, 0) * PerSecond(s.p), 10 ^ fraction))
FractionRead(s, M, whole, n) ==
  SecondsRead(s, M, whole + 1 + n, SubSeq(s.in, 1, whole) \o SubSeq(s.in, whole + 2, whole + 1 + n), n)
WholeRead(s, M, n) ==
  IF (n < M \/ M = 0) /\ SubSeq(s.in, n + 1, n + 1) = "."
  THEN FractionRead(s, M, n, Leading(SubSeq(s.in, n + 2, Len(s.in)), IsDigit, IF M = 0 THEN 0 ELSE M - n))
  ELSE SecondsRead(s, M, n, SubSeq(s.in, 1, n), 0)
ReadSeconds(s, M) == IF Good(s) THEN WholeRead(s, M, Leading(s.in, IsDigit, M)) ELSE <<Fail(s), 0>>

-----------------------------------------------------------------------------
(* read: its arguments in order, each until one fails.                     *)
Char(c) == [is |-> "char", c |-> c]
SignedField(f, m, M) == [is |-> "signed", field |-> f, m |-> m, M |-> M]
UnsignedField(f, m, M) == [is |-> "unsigned", field |-> f, m |-> m, M |-> M]
SecondsField(M) == [is |-> "seconds", field |-> "s", M |-> M]
Chars(text) == [k \in 1..Len(text) |-> Char(SubSeq(text, k, k))]

ReadChar(s, c) ==
  LET r == Peek(s) IN
    IF r.bits # {} \/ First(r.in) # c THEN Fail(r) ELSE Drop(r, 1)
Keep(r, field) == [r[1] EXCEPT ![field] = r[2]]
ReadField(s, item) ==
  Keep(CASE item.is = "signed" -> ReadSigned(s, item.m, item.M)
         [] item.is = "unsigned" -> ReadUnsigned(s, item.m, item.M)
         [] item.is = "seconds" -> ReadSeconds(s, item.M), item.field)

RECURSIVE Read(_, _)
Read(s, items) ==
  IF items = <<>> \/ Failed(s) THEN s
  ELSE Read(IF Head(items).is = "char" THEN ReadChar(s, Head(items).c) ELSE ReadField(s, Head(items)), Tail(items))

\* A command that is none stands for itself.
Literally(width, mod, c) == Chars("%" \o (IF width = -1 THEN "" ELSE ToString(width)) \o mod \o c)

\* scan_keyword: i characters were read; `might` are the keywords that begin
\* with them, `does` those that are them.  Whatever goes on beyond a keyword is
\* no longer that keyword.
None == 0
Found(s, does) ==
  IF does = {} THEN <<Fail(s), None>> ELSE <<s, CHOOSE k \in does : \A l \in does : k <= l>>
RECURSIVE Scan(_, _, _, _, _)
Scan(s, names, i, might, does) ==
  IF might = {} \/ Failed(s) THEN Found(s, does)
  ELSE IF ~Good(Peek(s)) THEN Found(Peek(s), does)
  ELSE LET on == {k \in might : Upper(SubSeq(names[k], i + 1, i + 1)) = Upper(First(s.in))}
           full == {k \in on : Len(names[k]) = i + 1}
       IN IF on = {} THEN Scan(s, names, i, {}, does)
          ELSE Scan(Drop(s, 1), names, i + 1, on \ full, full)
ScanKeyword(s, names) == Scan(s, names, 0, 1..Len(names), {})

OnWeekday(r) == [r[1] EXCEPT !.wd = (r[2] - 1) % 7]
ScanWeekday(s) == OnWeekday(ScanKeyword(s, WeekdayNames))
InMonth(r) == [r[1] EXCEPT !.m = ((r[2] - 1) % 12) + 1]
ScanMonth(s) == InMonth(ScanKeyword(s, MonthNames))
\* The hour that h of twelve is with the "AM" or "PM" that follows.
AtHour(r, h) ==
  [r[1] EXCEPT !.h = IF r[2] = 2 THEN IF h # 12 THEN h + 12 ELSE h ELSE IF h = 12 THEN 0 ELSE h]
ScanAmPm(s, h) == AtHour(ScanKeyword(s, AmPmNames), h)

-----------------------------------------------------------------------------
(* One letter of a format, with the width in front of it (-1 if none).     *)
Or(width, n) == IF width = -1 THEN n ELSE width
SecondsWidth(s) == IF PerSecond(s.p) = 1 THEN 2 ELSE 3 + Digits(s.p)

ReadTime(s) ==
  Read(s, <<UnsignedField("h", 1, 2), Char(":"), UnsignedField("min", 1, 2), Char(":"),
            SecondsField(SecondsWidth(s))>>)
ReadDateAndTime(s) ==
  Read(SkipSpace(ReadTime(SkipSpace(Read(SkipSpace(ScanMonth(SkipSpace(ScanWeekday(s)))),
                                         <<SignedField("d", 1, 2)>>)))),
       <<SignedField("Y", 1, 4)>>)
TimeOf12(r) == IF Failed(r) \/ r.h \notin 1..12 THEN Fail(r) ELSE ScanAmPm(SkipSpace(r), r.h)
ReadTimeOf12(s) == TimeOf12(ReadTime(s))
ReadSlashed(s, year) ==
  Read(s, <<UnsignedField("m", 1, 2), Char("/"), UnsignedField("d", 1, 2), Char("/"), year>>)
ReadDashed(s, width) ==
  Read(s, <<SignedField("Y", 1, Or(width, 4)), Char("-"), UnsignedField("m", 1, 2), Char("-"),
            UnsignedField("d", 1, 2)>>)
Hour12(r) == IF r.I \notin 0..12 THEN Fail(r) ELSE r
ReadHour12(s, width) == Hour12(Read(s, <<SignedField("I", 1, Or(width, 2))>>))
ReadAmPm(s) == IF s.I = NoHour12 THEN Fail(s) ELSE [ScanAmPm(s, s.I) EXCEPT !.I = NoHour12]
ReadHoursAndMinutes(s) == Read(s, <<UnsignedField("h", 1, 2), Char(":"), UnsignedField("min", 1, 2)>>)
ReadSpace(s, c) ==
  IF Good(Peek(s)) /\ First(s.in) \in IsSpace THEN Drop(s, 1)
  ELSE IF c = "n" THEN Fail(Peek(s)) ELSE Peek(s)
ReadWeekday(s, width) == Read(s, <<UnsignedField("wd", 1, Or(width, 1))>>)
ReadWeekdayFrom1(s, width) ==
  [ReadWeekday(s, width) EXCEPT !.wd = IF @ = 7 THEN 0 ELSE IF @ = 0 THEN 7 ELSE @]
ReadOffset(s, mod) ==
  Read(s, IF mod = "" THEN <<SignedField("oh", 2, 2), UnsignedField("om", 2, 2)>>
          ELSE <<SignedField("oh", 1, 2), Char(":"), UnsignedField("om", 2, 2)>>)
ReadZone(s) ==
  LET n == Leading(s.in, InZone, 0)
      r == [Drop(s, n) EXCEPT !.abbrev = SubSeq(s.in, 1, n), !.bits = IF n = Len(s.in) THEN {"eof"} ELSE {}]
  IN IF s.abbrev # "" THEN Fail(s) ELSE IF n = 0 THEN Fail(r) ELSE r

\* The letters that a plain number is read for: its field, sign and width.
CenturyNumber(width) == SignedField("C", 1, Or(width, 2))
DayNumber(c, width) ==
  CASE c \in {"d", "e"} -> SignedField("d", 1, Or(width, 2))
    [] c = "m" -> SignedField("m", 1, Or(width, 2))
    [] c = "H" -> UnsignedField("h", 1, Or(width, 2))
    [] c = "M" -> UnsignedField("min", 1, Or(width, 2))
    [] c = "j" -> UnsignedField("j", 1, Or(width, 3))
YearNumber(c, width) ==
  IF c \in {"Y", "G"} THEN SignedField(c, 1, Or(width, 4)) ELSE UnsignedField(c, 1, Or(width, 2))
NumberField(c, width) ==
  IF c = "C" THEN CenturyNumber(width)
  ELSE IF c \in {"d", "e", "m", "H", "M", "j"} THEN DayNumber(c, width) ELSE YearNumber(c, width)
Numbers == {"C", "d", "e", "m", "Y", "G", "H", "M", "j", "y", "g", "U", "V", "W"}

\* The letters that stand for themselves behind an E or an O.
Plainly == {"D", "F", "I", "j", "R", "T", "g", "G", "U", "V", "W", "Z"}

Letter(s, c, width, mod) ==
  CASE c \in Plainly /\ mod # "" -> Read(s, Literally(width, mod, c))
    [] c \in Numbers /\ ~(c \in Plainly /\ mod # "") -> Read(s, <<NumberField(c, width)>>)
    [] c \in {"a", "A"} -> ScanWeekday(s)
    [] c \in {"b", "B", "h"} -> ScanMonth(s)
    [] c = "c" -> ReadDateAndTime(s)
    [] c = "x" -> ReadSlashed(s, SignedField("y", 1, 2))
    [] c = "D" /\ mod = "" -> ReadSlashed(s, SignedField("y", 1, 2))
    [] c = "F" /\ mod = "" -> ReadDashed(s, width)
    [] c = "I" /\ mod = "" -> ReadHour12(s, width)
    [] c \in {"n", "t"} -> ReadSpace(s, c)
    [] c = "p" -> ReadAmPm(s)
    [] c = "r" -> ReadTimeOf12(s)
    [] c = "R" /\ mod = "" -> ReadHoursAndMinutes(s)
    [] c = "S" -> Read(s, <<SecondsField(Or(width, SecondsWidth(s)))>>)
    [] c = "X" -> ReadTime(s)
    [] c = "T" /\ mod = "" -> ReadTime(s)
    [] c = "u" -> ReadWeekdayFrom1(s, width)
    [] c = "w" -> ReadWeekday(s, width)
    [] c = "z" -> ReadOffset(s, mod)
    [] c = "Z" /\ mod = "" -> ReadZone(s)
    [] c = "%" /\ mod = "" -> Read(s, Chars("%"))
    [] OTHER -> Read(s, Literally(width, mod, c))

\* The loop over the format: what is left of it, whether a % was seen, and
\* the width and the E or O behind it.
RECURSIVE Follow(_, _, _, _, _)
Follow(s, fmt, command, width, mod) ==
  IF fmt = "" \/ ~Good(s)
  THEN LET r == IF Good(s) /\ command THEN Read(s, Literally(width, mod, "")) ELSE s IN
         IF fmt # "" THEN Fail(r) ELSE r
  ELSE LET c == First(fmt) IN
    CASE ~command /\ c = "%" -> Follow(s, Tail(fmt), TRUE, -1, "")
      [] ~command /\ c \in IsSpace -> Follow(SkipSpace(s), Tail(fmt), FALSE, -1, "")
      [] ~command /\ c \notin {"%"} \cup IsSpace -> Follow(Read(s, Chars(c)), Tail(fmt), FALSE, -1, "")
      [] command /\ c \in {"E", "O"} /\ mod = "" -> Follow(s, Tail(fmt), TRUE, width, c)
      [] command /\ c \in IsDigit /\ mod = "" /\ width = -1 ->
           LET n == Leading(fmt, IsDigit, 0) IN
             Follow(s, SubSeq(fmt, n + 1, Len(fmt)), TRUE, ValueOf(SubSeq(fmt, 1, n), 0), "")
      [] command /\ ~(c \in {"E", "O"} /\ mod = "") /\ ~(c \in IsDigit /\ mod = "" /\ width = -1) ->
           Follow(Letter(s, c, width, mod), Tail(fmt), FALSE, -1, "")

-----------------------------------------------------------------------------
(* What was read is put together to one year, month and day; a part read   *)
(* twice must be the same.                                                 *)
OfCentury(s, yy, year) ==
  IF s[yy] = No2DigitYear THEN s
  ELSE IF s[yy] \notin 0..99 THEN Fail(s)
  ELSE LET C == IF s.C # NoCentury THEN s.C
                ELSE IF s[year] = NoYear THEN IF s[yy] >= 69 THEN 19 ELSE 20
                ELSE Over(IF s[year] >= 0 THEN s[year] ELSE s[year] - 100, 100)
           t == IF C >= 0 THEN 100 * C + s[yy] ELSE 100 * (C + 1) - (IF s[yy] = 0 THEN 100 ELSE s[yy])
       IN IF s[year] \notin {NoYear, t} THEN Fail(s) ELSE [s EXCEPT !.C = C, ![year] = t]

Agree(s, ymd) ==
  IF (s.m # 0 /\ Byte(s.m) # ymd.month) \/ (s.d # 0 /\ Byte(s.d) # ymd.day) THEN Fail(s)
  ELSE [s EXCEPT !.m = IF @ = 0 THEN ymd.month ELSE @, !.d = IF @ = 0 THEN ymd.day ELSE @]
AgreeOnYear(s, ymd) ==
  IF s.Y # NoYear /\ Short(s.Y) # ymd.year THEN Fail(s)
  ELSE Agree([s EXCEPT !.Y = IF @ = NoYear THEN ymd.year ELSE @], ymd)

\* Mutant of OfWeekYear: the date is not compared with what else was read.
OfWeekYear_Alone(s) ==
  IF s.G = NoYear \/ s.Y # NoYear THEN s
  ELSE IF s.V = NoWeek \/ s.wd = NoWeekday THEN Fail(s)
  ELSE AgreeOnYear(s, FromDays(WeekYearStart(s.G) + (s.V - 1) * 7 + WeekdayMinus(Byte(s.wd), 1)))

OfWeekYear(s) ==
  IF s.G = NoYear THEN s
  ELSE IF s.V = NoWeek \/ s.wd = NoWeekday THEN Fail(s)
  ELSE AgreeOnYear(s, FromDays(WeekYearStart(s.G) + (s.V - 1) * 7 + WeekdayMinus(Byte(s.wd), 1)))

OfDayOfYear(s) ==
  IF s.j = 0 \/ s.Y = NoYear THEN s ELSE Agree(s, FromDays(ToDays(Ymd(Short(s.Y), 1, 1)) + s.j - 1))
\* Week 0 is looked for at the end of the year before.
OfWeek(s, week, first) ==
  IF s[week] = NoWeek \/ s.Y = NoYear THEN s
  ELSE IF s.wd = NoWeekday THEN Fail(s)
  ELSE AgreeOnYear(s, FromDays(
         IF s[week] = 0 THEN YmwLastToDays(YmwLast(Short(s.Y - 1), 12, WeekdayLast(Byte(s.wd))))
         ELSE YmwToDays(Ymw(Short(s.Y), 1, WeekdayIndexed(first, 1))) + (s[week] - 1) * 7 +
              WeekdayMinus(Byte(s.wd), first)))

Made(s) == Ymd(Short(s.Y), Byte(s.m), Byte(s.d))
OfWeekday(s) ==
  IF s.wd # NoWeekday /\ YmdOk(Made(s)) /\ Byte(s.wd) # Weekday(Made(s)) THEN Fail(s) ELSE s

RECURSIVE Through(_, _)
Through(s, steps) ==
  IF steps = <<>> \/ Failed(s) THEN s
  ELSE Through(CASE Head(steps) = "y" -> OfCentury(s, "y", "Y")
                 [] Head(steps) = "g" -> OfCentury(s, "g", "G")
                 [] Head(steps) = "G" -> OfWeekYear(s)
                 [] Head(steps) = "j" -> OfDayOfYear(s)
                 [] Head(steps) = "U" -> OfWeek(s, "U", 0)
                 [] Head(steps) = "W" -> OfWeek(s, "W", 1)
                 [] Head(steps) = "w" -> OfWeekday(s), Tail(steps))
Reconciled(s) == Through(s, <<"y", "g", "G", "j", "U", "W", "w">>)

\* The time of day: minutes past the hour are carried, seconds are kept.
TimeRead(s) ==
  [TimeOf((60 * s.h + s.min) * (s.p \div 60), s.p) EXCEPT
     !.s = DecimalSeconds(s.s, s.p)[1], !.sub = DecimalSeconds(s.s, s.p)[2]]

\* The fields, none if the read fails.
FromStream(fmt, text, p) ==
  {[ymd |-> Made(r), tod |-> TimeRead(r), wd |-> Byte(r.wd), abbrev |-> r.abbrev, offset |-> 60 * r.oh + r.om] :
     r \in {r \in {Reconciled(Follow(NothingRead(text, p), fmt, FALSE, -1, ""))} : ~Failed(r)}}

-----------------------------------------------------------------------------
(* What each type takes of the fields, if they are good enough for it.     *)
ParseYear(fds) == {[is |-> "year", n |-> f.ymd.year] : f \in {f \in fds : YearOk(f.ymd.year)}}
ParseMonth(fds) == {[is |-> "month", n |-> f.ymd.month] : f \in {f \in fds : MonthOk(f.ymd.month)}}
ParseDay(fds) == {[is |-> "day", n |-> f.ymd.day] : f \in {f \in fds : DayOk(f.ymd.day)}}
ParseWeekday(fds) == {[is |-> "weekday", n |-> f.wd] : f \in {f \in fds : WeekdayOk(f.wd)}}
ParseYearMonth(fds) ==
  {YearMonth(f.ymd.year, f.ymd.month) : f \in {f \in fds : MonthOk(f.ymd.month)}}
ParseMonthDay(fds) ==
  {MonthDay(f.ymd.month, f.ymd.day) : f \in {f \in fds : MonthOk(f.ymd.month) /\ DayOk(f.ymd.day)}}
ParseYmd(fds) == {f.ymd : f \in {f \in fds : YmdOk(f.ymd)}}

\* A point in time, in ticks of p; a duration.
Complete(f) == YmdOk(f.ymd) /\ InConventionalRange(f.tod)
ParseLocalTime(fds, p) ==
  {[is |-> "local_time", p |-> p, abbrev |-> {f.abbrev} \ {""}, offset |-> {60 * f.offset},
    n |-> Round(ToDays(f.ymd) * 24 * Common(p) + ToDuration(f.tod, Common(p)), Common(p) \div p)] :
     f \in {f \in fds : Complete(f)}}
ParseSysTime(fds, p) ==
  {[is |-> "sys_time", p |-> p,
    n |-> Round(ToDays(f.ymd) * 24 * Common(p) + ToDuration(f.tod, Common(p))
                  - f.offset * (Common(p) \div 60), Common(p) \div p)] :
     f \in {f \in fds : Complete(f)}}
ParseDuration(fds, p) ==
  {[is |-> "duration", p |-> p, n |-> Whole(ToDuration(f.tod, Common(p)), Common(p) \div p)] : f \in fds}

Taken(x, p, fds) ==
  CASE x.is = "year" -> ParseYear(fds)
    [] x.is = "month" -> ParseMonth(fds)
    [] x.is = "day" -> ParseDay(fds)
    [] x.is = "weekday" -> ParseWeekday(fds)
    [] x.is = "year_month" -> ParseYearMonth(fds)
    [] x.is = "month_day" -> ParseMonthDay(fds)
    [] x.is = "year_month_day" -> ParseYmd(fds)
    [] x.is = "local_time" -> ParseLocalTime(fds, p)
    [] x.is = "sys_time" -> ParseSysTime(fds, p)
    [] x.is = "duration" -> ParseDuration(fds, p)

\* parse, for a value of the type and precision that x has.
PrecisionOf(x) == IF x.is \in {"local_time", "sys_time", "duration"} THEN x.p ELSE Second
Parse(fmt, text, x) == Taken(x, PrecisionOf(x), FromStream(fmt, text, Common(PrecisionOf(x))))
=============================================================================
