--------------------------- MODULE CampanaProgram ---------------------------
(***************************************************************************)
(* campana-program/src/lib.rs: the same function as the deployed program   *)
(* computes it, with Hinnant's integer civil-date arithmetic in place of   *)
(* Date, its own copy of the calendar, and the codes of the state account. *)
(* Units as in Campana: half hours since the epoch.  i64 never overflows   *)
(* on a Clock timestamp.                                                   *)
(***************************************************************************)
EXTENDS Integers

SlotsPerHour == 2
SlotsPerDay == 48

CLOSED == 0
OPEN == 1
HALF_DAY == 2

CALENDAR_VERSION == 202601
HOLIDAYS ==
  { <<2026, 1, 1>>, <<2026, 1, 19>>, <<2026, 2, 16>>, <<2026, 4, 3>>, <<2026, 5, 25>>,
    <<2026, 6, 19>>, <<2026, 7, 3>>, <<2026, 9, 7>>, <<2026, 11, 26>>, <<2026, 12, 25>> }
HALF_DAYS == { <<2026, 11, 27>>, <<2026, 12, 24>> }

REG_OPEN_MIN == 19
REG_CLOSE_MIN == 32
HALF_CLOSE_MIN == 26

\* The parts of both directions that count from 1 March: day of the era from the year
\* of the era and the day of the year, and back.
day_of_era(yoe, doy) == yoe * 365 + yoe \div 4 - yoe \div 100 + doy
year_of_era(doe) == (doe - doe \div 1460 + doe \div 36524 - doe \div 146096) \div 365

from_march(y, m, d) ==
  (y \div 400) * 146097 - 719468
    + day_of_era(y % 400, (153 * (IF m > 2 THEN m - 3 ELSE m + 9) + 2) \div 5 + (d - 1))
days_from_civil(y, m, d) == from_march(IF m <= 2 THEN y - 1 ELSE y, m, d)

civil(y, m, d) == <<IF m <= 2 THEN y + 1 ELSE y, m, d>>
month_and_day(y, doy, mp) ==
  civil(y, IF mp < 10 THEN mp + 3 ELSE mp - 9, doy - (153 * mp + 2) \div 5 + 1)
day_of_year(y, doy) == month_and_day(y, doy, (5 * doy + 2) \div 153)
in_era(era, doe, yoe) == day_of_year(yoe + era * 400, doe - day_of_era(yoe, 0))
of_era(era, doe) == in_era(era, doe, year_of_era(doe))
civil_from_days(days) == of_era((days + 719468) \div 146097, (days + 719468) % 146097)

weekday(days) == ((days % 7) + 4) % 7

nth_sunday(y, month, n) ==
  1 + ((7 - weekday(days_from_civil(y, month, 1))) % 7) + (n - 1) * 7

summer(y, ts) ==
  /\ ts >= days_from_civil(y, 3, nth_sunday(y, 3, 2)) * SlotsPerDay + 7 * SlotsPerHour
  /\ ts < days_from_civil(y, 11, nth_sunday(y, 11, 1)) * SlotsPerDay + 6 * SlotsPerHour
et_offset_hours(ts) ==
  IF summer(civil_from_days(ts \div SlotsPerDay)[1], ts) THEN -4 ELSE -5

\* Half-days unknown to the program's calendar.
day_kind_old_calendar(date, wday) ==
  IF wday = 0 \/ wday = 6 THEN 0 ELSE IF date \in HOLIDAYS THEN 1 ELSE 3

\* 0 = weekend, 1 = holiday, 2 = half-day, 3 = full trading day
day_kind(date, wday) ==
  IF wday = 0 \/ wday = 6 THEN 0
  ELSE IF date \in HOLIDAYS THEN 1
  ELSE IF date \in HALF_DAYS THEN 2
  ELSE 3

parts(date, wday, min) == [date |-> date, min |-> min, kind |-> day_kind(date, wday)]
parts_of(wall) ==
  parts(civil_from_days(wall \div SlotsPerDay), weekday(wall \div SlotsPerDay),
        wall % SlotsPerDay)
et_parts(ts) == parts_of(ts + et_offset_hours(ts) * SlotsPerHour)

from_guess(guess) == guess - et_offset_hours(guess) * SlotsPerHour
et_wall_to_unix(date, min) ==
  from_guess(days_from_civil(date[1], date[2], date[3]) * SlotsPerDay + min)

trading(kind) == kind = 2 \/ kind = 3
close_min(kind) == IF kind = 2 THEN HALF_CLOSE_MIN ELSE REG_CLOSE_MIN

\* The walk stops at the first of ten days that trades and has closed.
close_of(p) == et_wall_to_unix(p.date, close_min(p.kind))
has_closed(p, ts) == trading(p.kind) /\ close_of(p) <= ts
probe(ts, back) == et_parts(ts - back * SlotsPerDay)
first_closed(ts, back) ==
  has_closed(probe(ts, back), ts) /\ \A b \in 0 .. back - 1 : ~has_closed(probe(ts, b), ts)
last_close(ts) ==
  IF \E back \in 0..9 : has_closed(probe(ts, back), ts)
  THEN close_of(probe(ts, CHOOSE back \in 0..9 : first_closed(ts, back)))
  ELSE 0

status_of(p) ==
  IF trading(p.kind) /\ p.min >= REG_OPEN_MIN /\ p.min < close_min(p.kind)
  THEN IF p.kind = 2 THEN HALF_DAY ELSE OPEN
  ELSE CLOSED

market_status(ts) ==
  LET p == et_parts(ts)
  IN [status |-> status_of(p), day_kind |-> p.kind, et_offset |-> et_offset_hours(ts),
      date |-> p.date, last_close_ts |-> last_close(ts)]

\* write_state: what venues read out of the 32 bytes (Crank passes the Clock's ts).
state_bytes(s, ts) ==
  [status |-> s.status, day_kind |-> s.day_kind, et_offset |-> s.et_offset,
   cal |-> CALENDAR_VERSION, updatedTs |-> ts, lastCloseTs |-> s.last_close_ts,
   date |-> s.date]
write_state(ts) == state_bytes(market_status(ts), ts)
=============================================================================
