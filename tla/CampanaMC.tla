----------------------------- MODULE CampanaMC -----------------------------
(* The spans CampanaFeed is checked over: the calendar's whole year, a month *)
(* at a time, and the weeks around the leap day of 2000 and the one that     *)
(* 2100 does not have.                                                       *)
EXTENDS CampanaFeed

Months2026 ==
  {<<DateUTC(2026, m, 1) * Day, DateUTC(2026, m + 1, 1) * Day - 1>> : m \in 1..11}
    \cup {<<DateUTC(2026, 12, 1) * Day, DateUTC(2027, 1, 1) * Day - 1>>}
AroundMarch(y) == <<DateUTC(y, 2, 20) * Day, DateUTC(y, 3, 20) * Day - 1>>

YearAndTurns == Months2026 \cup {AroundMarch(2000), AroundMarch(2100)}
=============================================================================
