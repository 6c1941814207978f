------------------------------ MODULE Campana ------------------------------
(***************************************************************************)
(* vesper/campana.mjs: the market status as a pure function of a unix      *)
(* timestamp and a calendar.  Every boundary of the function (09:30, 13:00 *)
(* and 16:00 ET, 06:00 and 07:00 UTC on a DST Sunday, midnight) falls on a *)
(* half hour, so a timestamp is a number of half hours since the epoch and *)
(* the function is exact on it.  A date is <<year, month, day>>.           *)
(***************************************************************************)
EXTENDS Integers

Hour == 2
Day == 24 * Hour

\* null: no timestamp (the function is applied from 1970 on).
Null == -1

(* JavaScript's Date on UTC: the proleptic Gregorian calendar. *)

IsLeap(y) == y % 4 = 0 /\ (y % 100 # 0 \/ y % 400 = 0)
DaysBefore(y, m) ==
  <<0, 31, 59, 90, 120, 151, 181, 212, 243, 273, 304, 334>>[m]
    + (IF m > 2 /\ IsLeap(y) THEN 1 ELSE 0)
LeapsBefore(y) == (y - 1) \div 4 - (y - 1) \div 100 + (y - 1) \div 400
\* Days from the epoch to a date, and back.
DateUTC(y, m, d) ==
  365 * (y - 1970) + LeapsBefore(y) - LeapsBefore(1970) + DaysBefore(y, m) + d - 1
YearOf(day) ==
  CHOOSE y \in (1969 + day \div 366) .. (1971 + day \div 365) :
    DateUTC(y, 1, 1) <= day /\ day < DateUTC(y + 1, 1, 1)
MonthOf(y, day) ==
  CHOOSE m \in 1..12 :
    DateUTC(y, m, 1) <= day /\ (m < 12 => day < DateUTC(y, m + 1, 1))
DateIn(y, m, day) == <<y, m, day - DateUTC(y, m, 1) + 1>>
DateInYear(y, day) == DateIn(y, MonthOf(y, day), day)
DateOf(day) == DateInYear(YearOf(day), day)
WeekDay(day) == (day + 4) % 7   \* 0 = Sunday; the epoch was a Thursday

(* CALENDAR_2026. *)

CalendarVersion == 202601
holidays ==
  { <<2026, 1, 1>>, <<2026, 1, 19>>, <<2026, 2, 16>>, <<2026, 4, 3>>, <<2026, 5, 25>>,
    <<2026, 6, 19>>, <<2026, 7, 3>>, <<2026, 9, 7>>, <<2026, 11, 26>>, <<2026, 12, 25>> }
halfDays == { <<2026, 11, 27>>, <<2026, 12, 24>> }

RegOpen == 19     \* 09:30
RegClose == 32    \* 16:00
HalfClose == 26   \* 13:00

(* Eastern time. *)

NthSundayOfMonth(y, month, n) ==
  LET first == WeekDay(DateUTC(y, month, 1))
  IN 1 + ((7 - first) % 7) + (n - 1) * 7

\* Daylight saving from the first Sundays of both months.
SummerFirstSundays(y, ts) ==
  /\ ts >= DateUTC(y, 3, NthSundayOfMonth(y, 3, 1)) * Day + 7 * Hour
  /\ ts < DateUTC(y, 11, NthSundayOfMonth(y, 11, 1)) * Day + 6 * Hour
\* dstStart <= ts < dstEnd in year y.
Summer(y, ts) ==
  /\ ts >= DateUTC(y, 3, NthSundayOfMonth(y, 3, 2)) * Day + 7 * Hour
  /\ ts < DateUTC(y, 11, NthSundayOfMonth(y, 11, 1)) * Day + 6 * Hour

\* The zone is chosen by the UTC year of the timestamp.
EtOffset(ts) == IF Summer(YearOf(ts \div Day), ts) THEN -4 ELSE -5

DayKind(date, wday) ==
  IF wday \in {0, 6} THEN "weekend"
  ELSE IF date \in holidays THEN "holiday"
  ELSE IF date \in halfDays THEN "half"
  ELSE "full"

\* The wall-clock reading at an offset, with the kind of its day.
PartsOf(off, date, wday, min) ==
  [off |-> off, date |-> date, min |-> min, kind |-> DayKind(date, wday)]
PartsAt(wall, off) ==
  PartsOf(off, DateOf(wall \div Day), WeekDay(wall \div Day), wall % Day)
ShiftedBy(ts, off) == PartsAt(ts + off * Hour, off)
EtParts(ts) == ShiftedBy(ts, EtOffset(ts))

\* The offset is looked up at the wall-clock reading taken as UTC.
FromGuess(guess) == guess - EtOffset(guess) * Hour
EtWallToUnix(date, min) ==
  FromGuess(DateUTC(date[1], date[2], date[3]) * Day + min)

Trading(kind) == kind \in {"half", "full"}
CloseMinFor(kind) == IF kind = "half" THEN HalfClose ELSE RegClose
CloseOf(p) == EtWallToUnix(p.date, CloseMinFor(p.kind))

(* marketStatus. *)

\* The walk without its `c <= ts`.
RungAnyTime(p, ts) == IF Trading(p.kind) THEN CloseOf(p) ELSE Null
\* The close of a day, if it trades and has closed by ts.
Rung(p, ts) == IF Trading(p.kind) /\ CloseOf(p) <= ts THEN CloseOf(p) ELSE Null

\* The walk back: the first of ten probes, a day apart, that finds a close.
Probe(ts, back) == Rung(EtParts(ts - back * Day), ts)
FirstClosed(ts, back) ==
  Probe(ts, back) # Null /\ \A b \in 0 .. back - 1 : Probe(ts, b) = Null
LastClose(ts) ==
  IF \E back \in 0..9 : Probe(ts, back) # Null
  THEN Probe(ts, CHOOSE back \in 0..9 : FirstClosed(ts, back))
  ELSE Null

Inside(p) == Trading(p.kind) /\ p.min >= RegOpen /\ p.min < CloseMinFor(p.kind)

StatusOf(p) ==
  IF ~Inside(p) THEN "CLOSED" ELSE IF p.kind = "half" THEN "HALF_DAY" ELSE "OPEN"
Status(ts) == StatusOf(EtParts(ts))

Report(p, ts) ==
  [status |-> StatusOf(p), date |-> p.date, off |-> p.off, kind |-> p.kind,
   open |-> IF Inside(p) THEN EtWallToUnix(p.date, RegOpen) ELSE Null,
   close |-> IF Inside(p) THEN CloseOf(p) ELSE Null,
   lastClose |-> LastClose(ts), cal |-> CalendarVersion]
MarketStatus(ts) == Report(EtParts(ts), ts)
=============================================================================
