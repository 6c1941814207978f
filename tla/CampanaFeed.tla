---------------------------- MODULE CampanaFeed ----------------------------
(***************************************************************************)
(* The reference and the deployed program run side by side under one       *)
(* clock, against the exchange's sessions as they are published: one       *)
(* opening and one closing bell per trading day.                           *)
(***************************************************************************)
EXTENDS Campana

CONSTANTS
  Spans   \* the spans <<first, last>> of half hours the clock runs over

ASSUME SpansAssumption ==
  Spans \subseteq Nat \X Nat /\ \A span \in Spans : span[1] <= span[2]

VARIABLE clock

P == INSTANCE CampanaProgram

FeedInit == \E span \in Spans : clock = span[1]
FeedTick == (\A span \in Spans : clock # span[2]) /\ clock' = clock + 1
FeedSpec == FeedInit /\ [][FeedTick]_clock

-----------------------------------------------------------------------------
(* The sessions, day by day, with no conversion from timestamps to dates.  *)

Days == UNION {(span[1] \div Day - 20) .. (span[2] \div Day + 20) : span \in Spans}

SummerDay(day, y) ==
  /\ day >= DateUTC(y, 3, NthSundayOfMonth(y, 3, 2))
  /\ day < DateUTC(y, 11, NthSundayOfMonth(y, 11, 1))
Bell(day, min) == day * Day + min + (IF SummerDay(day, YearOf(day)) THEN 4 ELSE 5) * Hour

\* The trading days with their bells.
KindOf(day) == DayKind(DateOf(day), WeekDay(day))
SessionOn(day) ==
  [open |-> Bell(day, RegOpen), close |-> Bell(day, CloseMinFor(KindOf(day))),
   kind |-> KindOf(day)]
Sessions == {SessionOn(day) : day \in Days}
TradingSessions == {s \in Sessions : Trading(s.kind)}
OpeningBells == {s.open : s \in TradingSessions}
ClosingBells == {s.close : s \in TradingSessions}

\* nextFlip (keeper.mjs): the first instant within eight days whose status is not
\* the present one.
Changes ==
  UNION {{t \in span[1] + 1 .. span[2] + 8 * Day : Status(t) # Status(t - 1)} :
           span \in Spans}
\* A scan too short for a long weekend.
NextFlipThreeDays(from) ==
  LET ahead == {t \in Changes : from < t /\ t <= from + 3 * Day}
  IN IF ahead = {} THEN Null ELSE CHOOSE t \in ahead : \A u \in ahead : t <= u
NextFlip(from) ==
  LET ahead == {t \in Changes : from < t /\ t <= from + 8 * Day}
  IN IF ahead = {} THEN Null ELSE CHOOSE t \in ahead : \A u \in ahead : t <= u

-----------------------------------------------------------------------------
\* The market is open exactly between the bells of a trading day, whatever the
\* DST regime and the UTC date, and the session bounds marketStatus reports are
\* that day's bells.
OpenBetweenBells ==
  LET m  == MarketStatus(clock)
      on == {s \in TradingSessions : s.open <= clock /\ clock < s.close}
  IN IF on = {} THEN m.status = "CLOSED" /\ m.open = Null /\ m.close = Null
     ELSE \E s \in on : /\ m.status = (IF s.kind = "half" THEN "HALF_DAY" ELSE "OPEN")
                        /\ m.open = s.open /\ m.close = s.close

\* last_close_ts is the latest closing bell at or before clock: ten probes a day
\* apart miss no trading day, across DST changes and the longest closures.
LastCloseIsLatest ==
  LET rung == {b \in ClosingBells : b <= clock}
      last == LastClose(clock)
  IN last \in rung /\ \A b \in rung : b <= last

\* The deployed program writes what the reference computes at the timestamp it
\* used: the fields crankOnce compares, and the date and offset venues read.
ProgramAgrees ==
  LET a == P!write_state(clock)
      m == MarketStatus(clock)
  IN /\ a.status = (CASE m.status = "CLOSED" -> P!CLOSED [] m.status = "OPEN" -> P!OPEN
                      [] m.status = "HALF_DAY" -> P!HALF_DAY)
     /\ a.lastCloseTs = m.lastClose /\ a.cal = m.cal
     /\ a.date = m.date /\ a.et_offset = m.off

\* The keeper's eight-day scan always finds the next bell, and no bell rings
\* before it.
NextFlipIsNextBell ==
  LET rings == {b \in OpeningBells \cup ClosingBells : b > clock}
      flip  == NextFlip(clock)
  IN flip \in rings /\ \A b \in rings : flip <= b
=============================================================================
