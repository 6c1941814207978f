--------------------------- MODULE CampanaProofs ---------------------------
(***************************************************************************)
(* The market clock, for every timestamp from 1970 on: the deployed        *)
(* program computes what campana.mjs does, and what both compute are the   *)
(* sessions of the exchange.                                               *)
(*                                                                         *)
(* Half of it is the arithmetic of dates: lib.rs counts days in eras of    *)
(* four hundred years that begin in March, campana.mjs asks Date.  The     *)
(* other half is that an hour of daylight saving, more or less, does no    *)
(* harm: sessions begin late enough after the change and end long before   *)
(* midnight, it changes on Sundays, and no holiday is a Tuesday or a       *)
(* Wednesday, so that the walk back and the scan forward meet a bell.      *)
(*                                                                         *)
(* At the end, the keeper that cranks the program: how soon a flip is      *)
(* noticed, and for how long the account may be wrong.                     *)
(***************************************************************************)
EXTENDS CampanaFeed, Keeper, Sums

-----------------------------------------------------------------------------
(* Days and dates. *)

\* A quotient, as the linear bounds it stands for.
LEMMA Quotient ==
  ASSUME NEW x \in Int, NEW d \in Nat \ {0}
  PROVE  x \div d \in Int /\ d * (x \div d) <= x /\ x < d * (x \div d) + d
  OBVIOUS

\* The leap years up to y, counted by the rule of the Gregorian calendar.
Leaps(y) == y \div 4 - y \div 100 + y \div 400

\* One year more is one leap year more when it is one.
LEMMA LeapStep ==
  ASSUME NEW y \in Int
  PROVE  /\ Leaps(y) \in Int /\ LeapsBefore(y) = Leaps(y - 1)
         /\ IsLeap(y) => Leaps(y) = LeapsBefore(y) + 1
         /\ ~IsLeap(y) => Leaps(y) = LeapsBefore(y)
<1>1. y \div 4 = (y - 1) \div 4 + (IF y % 4 = 0 THEN 1 ELSE 0)
  OBVIOUS
<1>2. y \div 100 = (y - 1) \div 100 + (IF y % 100 = 0 THEN 1 ELSE 0)
  OBVIOUS
<1>3. y \div 400 = (y - 1) \div 400 + (IF y % 400 = 0 THEN 1 ELSE 0)
  OBVIOUS
<1>4. /\ y % 100 = 0 => y % 4 = 0
      /\ y % 400 = 0 => y % 100 = 0
  OBVIOUS
<1>5. /\ (y - 1) \div 4 \in Int /\ (y - 1) \div 100 \in Int /\ (y - 1) \div 400 \in Int
  OBVIOUS
<1> QED
  BY <1>1, <1>2, <1>3, <1>4, <1>5 DEF Leaps, LeapsBefore, IsLeap

\* Within an era of four hundred years.
LEMMA LeapsIn ==
  ASSUME NEW q \in Int, NEW r \in Int, 0 <= r, r < 400
  PROVE  Leaps(400 * q + r) = 97 * q + r \div 4 - r \div 100
<1>1. (400 * q + r) \div 4 = 100 * q + r \div 4
  OBVIOUS
<1>2. (400 * q + r) \div 100 = 4 * q + r \div 100
  OBVIOUS
<1>3. (400 * q + r) \div 400 = q
  OBVIOUS
<1>4. r \div 4 \in Int /\ r \div 100 \in Int
  OBVIOUS
<1> QED
  BY <1>1, <1>2, <1>3, <1>4 DEF Leaps

\* Any year is one of the 400 of its era.
LEMMA LeapsOfEra ==
  ASSUME NEW y \in Int
  PROVE  /\ y \div 400 \in Int /\ y = 400 * (y \div 400) + (y % 400)
         /\ Leaps(y) = 97 * (y \div 400) + ((y % 400) \div 4) - ((y % 400) \div 100)
         /\ y % 400 \in Int /\ (y % 400) \div 4 \in Int /\ (y % 400) \div 100 \in Int
<1> DEFINE q == y \div 400
           r == y % 400
<1>1. q \in Int /\ r \in Int /\ 0 <= r /\ r < 400 /\ y = 400 * q + r
  OBVIOUS
<1> HIDE DEF q, r
<1>2. r \div 4 \in Int /\ r \div 100 \in Int
  BY <1>1
<1>3. Leaps(400 * q + r) = 97 * q + r \div 4 - r \div 100
  BY <1>1, LeapsIn
<1>4. Leaps(y) = 97 * q + r \div 4 - r \div 100
  BY <1>1, <1>3
<1> QED
  BY <1>1, <1>2, <1>4 DEF q, r

\* The days before 1 March of a year, as the program counts them.
FromMarch(y, n) == (y \div 400) * 146097 - 719468 + P!day_of_era(y % 400, n)
March(y) == FromMarch(y, 0)

\* March is linear in the leap years, as DateUTC is.
LEMMA MarchOf ==
  ASSUME NEW y \in Int
  PROVE  /\ March(y) \in Int /\ March(y) = 365 * y + Leaps(y) - 719468
         /\ \A n \in Int : FromMarch(y, n) = March(y) + n
<1> DEFINE q == y \div 400
           r == y % 400
           c == r \div 4
           h == r \div 100
<1>1. /\ q \in Int /\ r \in Int /\ y = 400 * q + r /\ c \in Int /\ h \in Int
      /\ Leaps(y) = 97 * q + c - h
  BY LeapsOfEra
<1>2. \A n : P!day_of_era(r, n) = r * 365 + c - h + n
  BY DEF P!day_of_era
<1>3. \A n : FromMarch(y, n) = q * 146097 - 719468 + P!day_of_era(r, n)
  BY SMT DEF FromMarch
<1> HIDE DEF c, h, q, r
<1>4. March(y) = q * 146097 - 719468 + (r * 365 + c - h)
  BY <1>1, <1>2, <1>3, SMT DEF March
<1>5. \A n \in Int : FromMarch(y, n) = March(y) + n
  BY <1>1, <1>2, <1>3, <1>4, SMT
<1> QED
  BY <1>1, <1>4, <1>5, SMT

\* days_from_civil is Date.UTC, for every year, month and day.
LEMMA DaysAgree ==
  ASSUME NEW y \in Int, NEW m \in 1..12, NEW d \in Int
  PROVE  P!days_from_civil(y, m, d) = DateUTC(y, m, d)
<1>1. LeapsBefore(1970) = 477 /\ Leaps(y) \in Int /\ Leaps(y - 1) \in Int
  BY LeapStep DEF LeapsBefore
<1>2. CASE m > 2
  <2> DEFINE n == (153 * (m - 3) + 2) \div 5
  <2>1. n \in Int
    BY <1>2
  <2>2. P!days_from_civil(y, m, d) = 365 * y + Leaps(y) - 719468 + (n + (d - 1))
    <3> DEFINE k == n + (d - 1)
    <3>1. P!days_from_civil(y, m, d) = P!from_march(y, m, d)
      BY <1>2, SMT DEF P!days_from_civil
    <3>2. (IF m > 2 THEN m - 3 ELSE m + 9) = m - 3
      BY <1>2
    <3>3. P!from_march(y, m, d) = FromMarch(y, k)
      BY <3>2, SMT DEF P!from_march, FromMarch
    <3>4. k \in Int /\ k = n + (d - 1)
      BY <2>1
    <3> HIDE DEF k
    <3>5. FromMarch(y, k) = March(y) + k
      BY <3>4, MarchOf, SMT
    <3>6. P!days_from_civil(y, m, d) = March(y) + k
      BY <3>1, <3>3, <3>5, SMT
    <3> QED
      BY <3>4, <3>6, MarchOf, SMT
  <2>3. /\ IsLeap(y) => DaysBefore(y, m) = n + 60
        /\ ~IsLeap(y) => DaysBefore(y, m) = n + 59
    <3>1. m \in {3, 4, 5, 6, 7, 8, 9, 10, 11, 12}
      BY <1>2
    <3> QED
      BY <3>1 DEF DaysBefore
  <2> HIDE DEF n
  <2>4. DateUTC(y, m, d)
          = 365 * (y - 1970) + LeapsBefore(y) - 477 + DaysBefore(y, m) + d - 1
    BY <1>1, SMT DEF DateUTC
  <2>5. CASE IsLeap(y)
    BY <1>1, <2>1, <2>2, <2>3, <2>4, <2>5, LeapStep, SMT
  <2>6. CASE ~IsLeap(y)
    BY <1>1, <2>1, <2>2, <2>3, <2>4, <2>6, LeapStep, SMT
  <2> QED
    BY <2>5, <2>6
<1>3. CASE m <= 2
  <2> DEFINE n == (153 * (m + 9) + 2) \div 5
  <2>1. n \in Int
    BY <1>3
  <2>2. P!days_from_civil(y, m, d) = 365 * (y - 1) + Leaps(y - 1) - 719468 + (n + (d - 1))
    <3> DEFINE k == n + (d - 1)
    <3>1. P!days_from_civil(y, m, d) = P!from_march(y - 1, m, d)
      BY <1>3, SMT DEF P!days_from_civil
    <3>2. (IF m > 2 THEN m - 3 ELSE m + 9) = m + 9
      BY <1>3
    <3>3. P!from_march(y - 1, m, d) = FromMarch(y - 1, k)
      BY <3>2, SMT DEF P!from_march, FromMarch
    <3>4. k \in Int /\ k = n + (d - 1)
      BY <2>1
    <3> HIDE DEF k
    <3>5. FromMarch(y - 1, k) = March(y - 1) + k
      BY <3>4, MarchOf, SMT
    <3>6. P!days_from_civil(y, m, d) = March(y - 1) + k
      BY <3>1, <3>3, <3>5, SMT
    <3> QED
      BY <3>4, <3>6, MarchOf, SMT
  <2>3. DaysBefore(y, m) = n - 306
    <3>1. m \in {1, 2}
      BY <1>3
    <3> QED
      BY <3>1 DEF DaysBefore
  <2> HIDE DEF n
  <2>4. DateUTC(y, m, d)
          = 365 * (y - 1970) + LeapsBefore(y) - 477 + DaysBefore(y, m) + d - 1
    BY <1>1, SMT DEF DateUTC
  <2> QED
    BY <1>1, <2>1, <2>2, <2>3, <2>4, LeapStep, SMT
<1> QED
  BY <1>2, <1>3

\* A year of the era begins no later than any of its days, and the next one later.
LEMMA EraYears ==
  ASSUME NEW doe \in Int, 0 <= doe, doe <= 146096,
         NEW a \in Int, 1460 * a <= doe, doe < 1460 * a + 1460,
         NEW b \in Int, 36524 * b <= doe, doe < 36524 * b + 36524,
         NEW e \in Int, 146096 * e <= doe, doe < 146096 * e + 146096,
         NEW y \in Int, 365 * y <= doe - a + b - e, doe - a + b - e < 365 * y + 365,
         NEW q \in Int, 4 * q <= y, y < 4 * q + 4,
         NEW h \in Int, 100 * h <= y, y < 100 * h + 100,
         NEW q1 \in Int, 4 * q1 <= y + 1, y + 1 < 4 * q1 + 4,
         NEW h1 \in Int, 100 * h1 <= y + 1, y + 1 < 100 * h1 + 100
  PROVE  /\ 0 <= y /\ y <= 399 /\ y * 365 + q - h <= doe
         /\ \/ doe < (y + 1) * 365 + q1 - h1
            \/ y = 399 /\ doe < (y + 1) * 365 + q1 - h1 + 1
  BY SMTT(60)

\* year_of_era finds the year that the day of the era falls into.
LEMMA YearOfEra ==
  ASSUME NEW doe \in Int, 0 <= doe, doe <= 146096, NEW y, y = P!year_of_era(doe)
  PROVE  /\ y \in Int /\ 0 <= y /\ y <= 399
         /\ P!day_of_era(y, 0) \in Int /\ P!day_of_era(y + 1, 0) \in Int
         /\ P!day_of_era(y, 0) <= doe
         /\ \/ doe < P!day_of_era(y + 1, 0)
            \/ y = 399 /\ doe < P!day_of_era(y + 1, 0) + 1
<1> DEFINE a == doe \div 1460
           b == doe \div 36524
           e == doe \div 146096
           q == y \div 4
           h == y \div 100
           q1 == (y + 1) \div 4
           h1 == (y + 1) \div 100
<1>1. a \in Int /\ 1460 * a <= doe /\ doe < 1460 * a + 1460
  BY SMT
<1>2. b \in Int /\ 36524 * b <= doe /\ doe < 36524 * b + 36524
  BY SMT
<1>3. e \in Int /\ 146096 * e <= doe /\ doe < 146096 * e + 146096
  BY SMT
<1>8. y = (doe - a + b - e) \div 365
  BY SMT DEF P!year_of_era
<1> HIDE DEF a, b, e
<1>4. y \in Int /\ 365 * y <= doe - a + b - e /\ doe - a + b - e < 365 * y + 365
  BY <1>1, <1>2, <1>3, <1>8, SMT
<1>5. /\ q \in Int /\ 4 * q <= y /\ y < 4 * q + 4
      /\ h \in Int /\ 100 * h <= y /\ y < 100 * h + 100
  BY <1>4, SMT
<1>6. /\ q1 \in Int /\ 4 * q1 <= y + 1 /\ y + 1 < 4 * q1 + 4
      /\ h1 \in Int /\ 100 * h1 <= y + 1 /\ y + 1 < 100 * h1 + 100
  BY <1>4, SMT
<1>9. P!day_of_era(y, 0) = y * 365 + q - h + 0
      /\ P!day_of_era(y + 1, 0) = (y + 1) * 365 + q1 - h1 + 0
  BY SMT DEF P!day_of_era
<1> HIDE DEF q, h, q1, h1
<1>7. /\ 0 <= y /\ y <= 399 /\ y * 365 + q - h <= doe
      /\ \/ doe < (y + 1) * 365 + q1 - h1
         \/ y = 399 /\ doe < (y + 1) * 365 + q1 - h1 + 1
  BY <1>1, <1>2, <1>3, <1>4, <1>5, <1>6, EraYears, SMT
<1> QED
  BY <1>4, <1>5, <1>6, <1>7, <1>9, SMT

\* A date, counted from 1 March of the year before or of its own.
YearFrom(y, m) == IF m <= 2 THEN y - 1 ELSE y
MonthFrom(m) == IF m > 2 THEN m - 3 ELSE m + 9
Offset(mp) == (153 * mp + 2) \div 5

\* Date.UTC, as a day counted from 1 March.
LEMMA DateFromMarch ==
  ASSUME NEW y \in Int, NEW m \in 1..12, NEW d \in Int
  PROVE  /\ YearFrom(y, m) \in Int /\ MonthFrom(m) \in 0..11 /\ Offset(MonthFrom(m)) \in Int
         /\ DateUTC(y, m, d) = March(YearFrom(y, m)) + Offset(MonthFrom(m)) + d - 1
<1> DEFINE k == Offset(MonthFrom(m)) + (d - 1)
           z == YearFrom(y, m)
<1>1. z \in Int /\ MonthFrom(m) \in 0..11
  BY DEF YearFrom, MonthFrom
<1>2. Offset(MonthFrom(m)) \in Int
  BY <1>1 DEF Offset
<1>3. P!days_from_civil(y, m, d) = FromMarch(z, k)
  BY SMT DEF P!days_from_civil, P!from_march, FromMarch, YearFrom, MonthFrom, Offset
<1>4. k \in Int /\ k = Offset(MonthFrom(m)) + (d - 1)
  BY <1>2
<1> HIDE DEF k, z
<1>5. March(z) \in Int /\ FromMarch(z, k) = March(z) + k
  <2>1. z \in Int /\ k \in Int
    BY <1>1, <1>4
  <2>2. March(z) \in Int /\ \A n \in Int : FromMarch(z, n) = March(z) + n
    BY <2>1, MarchOf
  <2> QED
    BY <2>1, <2>2
<1>6. DateUTC(y, m, d) = March(z) + k
  BY <1>3, <1>5, DaysAgree, SMT
<1>7. DateUTC(y, m, d) = March(z) + Offset(MonthFrom(m)) + d - 1
  BY <1>2, <1>4, <1>5, <1>6, SMT
<1> QED
  BY <1>1, <1>2, <1>7 DEF z

\* The leap years between two years.
LEMMA LeapsGrow ==
  ASSUME NEW y \in Int, NEW z \in Int, y <= z
  PROVE  /\ Leaps(y) \in Int /\ Leaps(z) \in Int
         /\ Leaps(y) <= Leaps(z) + 2 /\ 4 * Leaps(z) <= 4 * Leaps(y) + (z - y) + 12
<1> DEFINE a == y \div 4
           b == y \div 100
           c == y \div 400
           d == z \div 4
           e == z \div 100
           f == z \div 400
<1>1. /\ a \in Int /\ 4 * a <= y /\ y < 4 * a + 4
      /\ b \in Int /\ 100 * b <= y /\ y < 100 * b + 100
      /\ c \in Int /\ 400 * c <= y /\ y < 400 * c + 400
  BY SMT
<1>2. /\ d \in Int /\ 4 * d <= z /\ z < 4 * d + 4
      /\ e \in Int /\ 100 * e <= z /\ z < 100 * e + 100
      /\ f \in Int /\ 400 * f <= z /\ z < 400 * f + 400
  BY SMT
<1>3. Leaps(y) = a - b + c /\ Leaps(z) = d - e + f
  BY SMT DEF Leaps
<1> HIDE DEF a, b, c, d, e, f
<1> QED
  BY <1>1, <1>2, <1>3, SMT

\* Years begin in order.
LEMMA NewYear ==
  ASSUME NEW y \in Int
  PROVE  /\ Leaps(y - 1) \in Int
         /\ DateUTC(y, 1, 1) = 365 * (y - 1970) + Leaps(y - 1) - 477
<1>1. DaysBefore(y, 1) = 0
  BY DEF DaysBefore
<1>2. LeapsBefore(1970) = 477
  BY DEF LeapsBefore
<1>3. Leaps(y - 1) \in Int /\ LeapsBefore(y) = Leaps(y - 1)
  BY LeapStep
<1> QED
  BY <1>1, <1>2, <1>3, SMT DEF DateUTC

\* New year's day of the year after.
LEMMA NextNewYear ==
  ASSUME NEW y \in Int
  PROVE  Leaps(y) \in Int /\ DateUTC(y + 1, 1, 1) = 365 * (y - 1969) + Leaps(y) - 477
<1>1. y + 1 \in Int /\ (y + 1) - 1 = y /\ (y + 1) - 1970 = y - 1969
  OBVIOUS
<1> QED
  BY <1>1, NewYear, SMT

\* A year ends before a later one begins.
LEMMA YearsGrow ==
  ASSUME NEW y \in Int, NEW z \in Int, y < z
  PROVE  /\ DateUTC(y, 1, 1) \in Int /\ DateUTC(y + 1, 1, 1) \in Int
         /\ DateUTC(z, 1, 1) \in Int
         /\ DateUTC(y + 1, 1, 1) <= DateUTC(z, 1, 1)
<1>1. /\ Leaps(y) \in Int /\ Leaps(z - 1) \in Int /\ Leaps(y - 1) \in Int
      /\ Leaps(y) <= Leaps(z - 1) + 2
  BY LeapsGrow, LeapStep
<1>2. /\ DateUTC(y + 1, 1, 1) = 365 * (y - 1969) + Leaps(y) - 477
      /\ DateUTC(y, 1, 1) = 365 * (y - 1970) + Leaps(y - 1) - 477
      /\ DateUTC(z, 1, 1) = 365 * (z - 1970) + Leaps(z - 1) - 477
  BY NewYear, NextNewYear
<1>3. CASE y + 1 = z
  BY <1>1, <1>2, <1>3, SMT
<1>4. CASE y + 2 <= z
  BY <1>1, <1>2, <1>4, SMT
<1> QED
  BY <1>3, <1>4

\* The year a day is in.
LEMMA YearInRange ==
  ASSUME NEW day \in Int, NEW y \in Int, y >= 1969,
         DateUTC(y, 1, 1) <= day, day < DateUTC(y + 1, 1, 1)
  PROVE  y \in (1969 + day \div 366) .. (1971 + day \div 365)
<1> DEFINE a == day \div 366
           b == day \div 365
           l == Leaps(y - 1)
           n == Leaps(y)
<1>1. l \in Int /\ n \in Int
  BY LeapStep
<1>2. /\ DateUTC(y, 1, 1) = 365 * (y - 1970) + l - 477
      /\ DateUTC(y + 1, 1, 1) = 365 * (y - 1969) + n - 477
  BY NewYear, NextNewYear
<1>3. Leaps(1969) = 477 /\ Leaps(1968) = 477
  BY DEF Leaps
<1>4. 477 <= l + 2
  <2>1. 1968 \in Int /\ y - 1 \in Int /\ 1968 <= y - 1
    OBVIOUS
  <2>2. Leaps(1968) <= Leaps(y - 1) + 2
    BY <2>1, LeapsGrow
  <2> QED
    BY <1>3, <2>2
<1>5. 4 * n <= 4 * 477 + (y - 1969) + 12
  <2>1. 1969 \in Int /\ 1969 <= y
    OBVIOUS
  <2>2. 4 * Leaps(y) <= 4 * Leaps(1969) + (y - 1969) + 12
    BY <2>1, LeapsGrow
  <2> QED
    BY <1>3, <2>2
<1>6. a \in Int /\ 366 * a <= day /\ b \in Int /\ day < 365 * b + 365
  BY SMT
<1> HIDE DEF a, b, l, n
<1>7. 1969 + a <= y /\ y <= 1971 + b
  BY <1>1, <1>2, <1>4, <1>5, <1>6, SMT
<1>8. y \in (1969 + a) .. (1971 + b)
  BY <1>6, <1>7, SMT
<1> QED
  BY <1>8, SMT DEF a, b

\* The year a day falls into is the one the reference chooses.
LEMMA YearIs ==
  ASSUME NEW day \in Int, NEW y \in Int, y >= 1969,
         DateUTC(y, 1, 1) <= day, day < DateUTC(y + 1, 1, 1)
  PROVE  YearOf(day) = y
<1> DEFINE years == (1969 + day \div 366) .. (1971 + day \div 365)
<1>1. y \in years
  BY YearInRange
<1>2. ASSUME NEW z \in Int, DateUTC(z, 1, 1) <= day, day < DateUTC(z + 1, 1, 1)
      PROVE  z = y
  <2>1. CASE y < z
    BY <1>2, <2>1, YearsGrow, SMT
  <2>2. CASE z < y
    BY <1>2, <2>2, YearsGrow, SMT
  <2> QED
    BY <2>1, <2>2
<1>3. \A z \in years : z \in Int
  BY SMT
<1> DEFINE holds(z) == DateUTC(z, 1, 1) <= day /\ day < DateUTC(z + 1, 1, 1)
<1>4. YearOf(day) = CHOOSE z \in years : holds(z)
  BY SMT DEF YearOf
<1>5. y \in years /\ holds(y) /\ \A z \in years : holds(z) => z = y
  BY <1>1, <1>2, <1>3
<1> HIDE DEF years, holds
<1> QED
  BY <1>4, <1>5

\* The month.
LEMMA MonthsGrow ==
  ASSUME NEW y \in Int, NEW m \in 1..12, NEW n \in 1..12, m < n
  PROVE  /\ DaysBefore(y, m) \in Int /\ DaysBefore(y, m + 1) \in Int
         /\ DaysBefore(y, n) \in Int /\ DaysBefore(y, m + 1) <= DaysBefore(y, n)
<1> DEFINE l == IF IsLeap(y) THEN 1 ELSE 0
<1>1. l \in {0, 1}
  OBVIOUS
<1>2. /\ DaysBefore(y, 1) = 0 /\ DaysBefore(y, 2) = 31
      /\ DaysBefore(y, 3) = 59 + l /\ DaysBefore(y, 4) = 90 + l
      /\ DaysBefore(y, 5) = 120 + l /\ DaysBefore(y, 6) = 151 + l
      /\ DaysBefore(y, 7) = 181 + l /\ DaysBefore(y, 8) = 212 + l
      /\ DaysBefore(y, 9) = 243 + l /\ DaysBefore(y, 10) = 273 + l
      /\ DaysBefore(y, 11) = 304 + l /\ DaysBefore(y, 12) = 334 + l
  BY DEF DaysBefore
<1> HIDE DEF l
<1>3. /\ m \in {1, 2, 3, 4, 5, 6, 7, 8, 9, 10, 11}
      /\ n \in {2, 3, 4, 5, 6, 7, 8, 9, 10, 11, 12}
  OBVIOUS
<1> QED
  BY <1>1, <1>2, <1>3, SMT

\* The days before a month are a number.
LEMMA MonthDays ==
  ASSUME NEW y \in Int, NEW m \in 1..12
  PROVE  DaysBefore(y, m) \in Int
<1>1. m \in {1, 2, 3, 4, 5, 6, 7, 8, 9, 10, 11, 12}
  OBVIOUS
<1> QED
  BY <1>1 DEF DaysBefore

\* The month a day falls into is the one the reference chooses.
LEMMA MonthIs ==
  ASSUME NEW day \in Int, NEW y \in Int, NEW m \in 1..12,
         DateUTC(y, m, 1) <= day, m < 12 => day < DateUTC(y, m + 1, 1)
  PROVE  MonthOf(y, day) = m
<1>1. PICK c \in Int : \A k \in 1..12 : DateUTC(y, k, 1) = c + DaysBefore(y, k)
  <2>1. LeapsBefore(y) \in Int /\ LeapsBefore(1970) \in Int
    BY LeapStep DEF LeapsBefore
  <2> DEFINE c == 365 * (y - 1970) + LeapsBefore(y) - LeapsBefore(1970)
  <2>2. c \in Int
    BY <2>1
  <2>3. \A k \in 1..12 : DaysBefore(y, k) \in Int
    BY MonthDays
  <2>4. \A k \in 1..12 : DateUTC(y, k, 1) = c + DaysBefore(y, k) + 1 - 1
    BY DEF DateUTC
  <2> HIDE DEF c
  <2> QED
    BY <2>2, <2>3, <2>4
<1>2. ASSUME NEW n \in 1..12, DateUTC(y, n, 1) <= day, n < 12 => day < DateUTC(y, n + 1, 1)
      PROVE  n = m
  <2>1. CASE m < n
    <3>1. m + 1 \in 1..12 /\ m < 12
      BY <2>1
    <3>2. day < c + DaysBefore(y, m + 1) /\ c + DaysBefore(y, n) <= day
      BY <1>1, <1>2, <3>1
    <3>3. /\ DaysBefore(y, m + 1) \in Int /\ DaysBefore(y, n) \in Int
          /\ DaysBefore(y, m + 1) <= DaysBefore(y, n)
      BY <2>1, MonthsGrow
    <3> QED
      BY <3>2, <3>3
  <2>2. CASE n < m
    <3>1. n + 1 \in 1..12 /\ n < 12
      BY <2>2
    <3>2. day < c + DaysBefore(y, n + 1) /\ c + DaysBefore(y, m) <= day
      BY <1>1, <1>2, <3>1
    <3>3. /\ DaysBefore(y, n + 1) \in Int /\ DaysBefore(y, m) \in Int
          /\ DaysBefore(y, n + 1) <= DaysBefore(y, m)
      BY <2>2, MonthsGrow
    <3> QED
      BY <3>2, <3>3
  <2> QED
    BY <2>1, <2>2
<1> DEFINE months == 1..12
           holds(n) == DateUTC(y, n, 1) <= day /\ (n < 12 => day < DateUTC(y, n + 1, 1))
<1>3. MonthOf(y, day) = CHOOSE n \in months : holds(n)
  BY SMT DEF MonthOf
<1>4. m \in months /\ holds(m) /\ \A n \in months : holds(n) => n = m
  BY <1>2
<1> HIDE DEF months, holds
<1> QED
  BY <1>3, <1>4, Zenon

\* The year that began on 1 March, and the day of it, as the program finds them.
LEMMA MarchOfEra ==
  ASSUME NEW era \in Int, NEW r \in Int, 0 <= r, r < 400
  PROVE  /\ P!day_of_era(r, 0) \in Int /\ March(400 * era + r) \in Int
         /\ March(400 * era + r) = era * 146097 - 719468 + P!day_of_era(r, 0)
<1> DEFINE c == r \div 4
           h == r \div 100
           y == 400 * era + r
<1>1. c \in Int /\ h \in Int /\ y \in Int
  OBVIOUS
<1>2. Leaps(y) = 97 * era + c - h
  BY LeapsIn
<1>3. P!day_of_era(r, 0) = r * 365 + c - h + 0
  BY DEF P!day_of_era
<1>4. March(y) \in Int /\ March(y) = 365 * y + Leaps(y) - 719468
  BY <1>1, MarchOf
<1>5. y = 400 * era + r
  OBVIOUS
<1> HIDE DEF c, h, y
<1>6. P!day_of_era(r, 0) \in Int /\ March(y) = era * 146097 - 719468 + P!day_of_era(r, 0)
  BY <1>1, <1>2, <1>3, <1>4, <1>5, SMT
<1> QED
  BY <1>4, <1>5, <1>6

\* The day falls into that year.
LEMMA CivilYear ==
  ASSUME NEW days \in Int
  PROVE  \E y \in Int : /\ March(y) \in Int /\ March(y + 1) \in Int
                        /\ March(y) <= days /\ days < March(y + 1)
                        /\ P!civil_from_days(days) = P!day_of_year(y, days - March(y))
<1> DEFINE z == days + 719468
           era == z \div 146097
           doe == z % 146097
           yoe == P!year_of_era(doe)
           y == 400 * era + yoe
<1>1. P!civil_from_days(days) = P!day_of_year(yoe + era * 400, doe - P!day_of_era(yoe, 0))
  BY SMT DEF P!civil_from_days, P!of_era, P!in_era
<1>2. z \in Int /\ z = days + 719468
  BY SMT
<1> HIDE DEF z
<1>3. era \in Int /\ doe \in Int /\ 0 <= doe /\ doe <= 146096 /\ z = 146097 * era + doe
  BY <1>2, SMT
<1> HIDE DEF era, doe
<1>4. /\ yoe \in Int /\ 0 <= yoe /\ yoe <= 399
      /\ P!day_of_era(yoe, 0) \in Int /\ P!day_of_era(yoe + 1, 0) \in Int
      /\ P!day_of_era(yoe, 0) <= doe
      /\ \/ doe < P!day_of_era(yoe + 1, 0)
         \/ yoe = 399 /\ doe < P!day_of_era(yoe + 1, 0) + 1
  BY <1>3, YearOfEra
<1> HIDE DEF yoe
<1>5. y \in Int /\ y = 400 * era + yoe /\ yoe + era * 400 = y
  BY <1>3, <1>4
<1>6. /\ March(y) \in Int
      /\ March(y) = era * 146097 - 719468 + P!day_of_era(yoe, 0)
  BY <1>3, <1>4, MarchOfEra
<1>7. March(y + 1) \in Int /\ days < March(y + 1)
  <2>1. CASE yoe < 399
    <3>1. yoe + 1 \in Int /\ 0 <= yoe + 1 /\ yoe + 1 < 400 /\ y + 1 = 400 * era + (yoe + 1)
      BY <1>3, <1>4, <1>5, <2>1
    <3>2. /\ March(y + 1) \in Int
          /\ March(y + 1) = era * 146097 - 719468 + P!day_of_era(yoe + 1, 0)
      BY <1>3, <3>1, MarchOfEra
    <3> QED
      BY <1>2, <1>3, <1>4, <2>1, <3>2, SMT
  <2>2. CASE yoe = 399
    <3>1. era + 1 \in Int /\ y + 1 = 400 * (era + 1) + 0
      BY <1>3, <1>5, <2>2
    <3>2. P!day_of_era(0, 0) = 0
      BY DEF P!day_of_era
    <3>3. /\ March(y + 1) \in Int
          /\ March(y + 1) = (era + 1) * 146097 - 719468 + P!day_of_era(0, 0)
      BY <3>1, MarchOfEra
    <3> QED
      BY <1>2, <1>3, <3>2, <3>3, SMT
  <2> QED
    BY <1>4, <2>1, <2>2
<1>8. March(y) <= days /\ doe - P!day_of_era(yoe, 0) = days - March(y)
  BY <1>2, <1>3, <1>4, <1>6, SMT
<1>9. P!civil_from_days(days) = P!day_of_year(y, days - March(y))
  BY <1>1, <1>5, <1>8
<1> HIDE DEF y
<1> QED
  BY <1>5, <1>6, <1>7, <1>8, <1>9

\* The month the day falls into, counted from March.
LEMMA MonthOfDay ==
  ASSUME NEW doy \in Int, 0 <= doy, doy <= 365, NEW mp, mp = (5 * doy + 2) \div 153
  PROVE  /\ mp \in 0..11 /\ Offset(mp) \in Int /\ Offset(mp) <= doy
         /\ mp < 11 => Offset(mp + 1) \in Int /\ doy < Offset(mp + 1)
<1>1. mp \in Int /\ 153 * mp <= 5 * doy + 2 /\ 5 * doy + 2 < 153 * mp + 153
  BY SMT
<1> DEFINE o == (153 * mp + 2) \div 5
           p == (153 * (mp + 1) + 2) \div 5
<1>2. /\ o \in Int /\ 5 * o <= 153 * mp + 2 /\ 153 * mp + 2 < 5 * o + 5
      /\ p \in Int /\ 5 * p <= 153 * (mp + 1) + 2 /\ 153 * (mp + 1) + 2 < 5 * p + 5
  BY <1>1, SMT
<1>3. Offset(mp) = o /\ Offset(mp + 1) = p
  BY DEF Offset
<1> HIDE DEF o, p
<1>4. mp >= 0 /\ mp <= 11 /\ o <= doy /\ doy < p
  BY <1>1, <1>2, SMT
<1>5. mp \in 0..11
  BY <1>1, <1>4
<1> QED
  BY <1>2, <1>3, <1>4, <1>5

\* The date civil_from_days computes is the one whose year and month the day falls into.
LEMMA CivilDate ==
  ASSUME NEW days \in Int, days >= -365
  PROVE  \E y \in Int, m \in 1..12, d \in Int :
           /\ P!civil_from_days(days) = <<y, m, d>>
           /\ y >= 1969 /\ DateUTC(y, 1, 1) <= days /\ days < DateUTC(y + 1, 1, 1)
           /\ DateUTC(y, m, 1) <= days /\ (m < 12 => days < DateUTC(y, m + 1, 1))
           /\ days - DateUTC(y, m, 1) + 1 = d /\ days = DateUTC(y, m, d)
<1>1. PICK y \in Int : /\ March(y) \in Int /\ March(y + 1) \in Int
                       /\ March(y) <= days /\ days < March(y + 1)
                       /\ P!civil_from_days(days) = P!day_of_year(y, days - March(y))
  BY CivilYear
<1> DEFINE doy == days - March(y)
           mp == (5 * doy + 2) \div 153
           m == IF mp < 10 THEN mp + 3 ELSE mp - 9
           Y == IF m <= 2 THEN y + 1 ELSE y
           d == doy - Offset(mp) + 1
<1>2. doy \in Int /\ 0 <= doy /\ doy <= 365 /\ days = March(y) + doy
  <2>1. /\ Leaps(y) \in Int /\ Leaps(y + 1) \in Int
        /\ Leaps(y + 1) <= Leaps(y) + 1
    <3>1. (y + 1) - 1 = y /\ y + 1 \in Int
      OBVIOUS
    <3> QED
      BY <3>1, LeapStep
  <2>2. /\ March(y) = 365 * y + Leaps(y) - 719468
        /\ March(y + 1) = 365 * (y + 1) + Leaps(y + 1) - 719468
    BY MarchOf
  <2> QED
    BY <1>1, <2>1, <2>2, SMT
<1> HIDE DEF doy
<1>3. /\ mp \in 0..11 /\ Offset(mp) \in Int /\ Offset(mp) <= doy
      /\ mp < 11 => Offset(mp + 1) \in Int /\ doy < Offset(mp + 1)
  BY <1>2, MonthOfDay
<1>4. P!civil_from_days(days) = <<Y, m, d>>
  BY <1>1 DEF P!day_of_year, P!month_and_day, P!civil, doy, Offset
<1> HIDE DEF mp
<1>5. /\ m \in 1..12 /\ Y \in Int /\ d \in Int
      /\ YearFrom(Y, m) = y /\ MonthFrom(m) = mp
  BY <1>2, <1>3 DEF YearFrom, MonthFrom
<1> HIDE DEF m, Y, d
<1>6. DateUTC(Y, m, 1) = March(y) + Offset(mp) + 1 - 1
  <2>1. DateUTC(Y, m, 1) = March(YearFrom(Y, m)) + Offset(MonthFrom(m)) + 1 - 1
    <3>1. m \in 1..12 /\ Y \in Int /\ 1 \in Int
      BY <1>5
    <3> QED
      BY <3>1, DateFromMarch
  <2> QED
    BY <1>5, <2>1
<1>7. DateUTC(Y, m, 1) = March(y) + Offset(mp)
  BY <1>1, <1>3, <1>6
<1>8. m < 12 => days < DateUTC(Y, m + 1, 1)
  <2> SUFFICES ASSUME m < 12
               PROVE  days < DateUTC(Y, m + 1, 1)
    OBVIOUS
  <2>1. /\ m + 1 \in 1..12
        /\ DateUTC(Y, m + 1, 1) = March(YearFrom(Y, m + 1)) + Offset(MonthFrom(m + 1)) + 1 - 1
    <3>1. m + 1 \in 1..12 /\ 1 \in Int
      BY <1>5
    <3> QED
      BY <1>5, <3>1, DateFromMarch
  <2>2. CASE mp = 11
    <3>1. YearFrom(Y, m + 1) = y + 1 /\ MonthFrom(m + 1) = 0 /\ Offset(0) = 0
      BY <2>2 DEF YearFrom, MonthFrom, Offset, m, Y
    <3> QED
      BY <1>1, <2>1, <3>1
  <2>3. CASE mp < 11
    <3>1. YearFrom(Y, m + 1) = y /\ MonthFrom(m + 1) = mp + 1
      BY <1>3, <1>5, <2>3 DEF YearFrom, MonthFrom, m, Y
    <3> QED
      BY <1>1, <1>2, <1>3, <2>1, <2>3, <3>1
  <2> QED
    BY <1>3, <2>2, <2>3
<1>9. \A x \in Int : DateUTC(x, 1, 1) = March(x - 1) + 306
  <2> TAKE x \in Int
  <2>1. YearFrom(x, 1) = x - 1 /\ MonthFrom(1) = 10 /\ Offset(10) = 306
    BY DEF YearFrom, MonthFrom, Offset
  <2>2. DateUTC(x, 1, 1) = March(x - 1) + 306 + 1 - 1
    BY <2>1, DateFromMarch
  <2>3. x - 1 \in Int
    OBVIOUS
  <2>4. March(x - 1) \in Int
    BY <2>3, MarchOf
  <2> QED
    BY <2>2, <2>4
<1>10. /\ DateUTC(y, 1, 1) \in Int /\ DateUTC(y, 1, 1) <= March(y)
       /\ DateUTC(y + 1, 1, 1) = March(y) + 306
       /\ DateUTC(y + 2, 1, 1) = March(y + 1) + 306
  <2>1. y + 1 \in Int /\ y + 2 \in Int /\ (y + 1) - 1 = y /\ (y + 2) - 1 = y + 1
    OBVIOUS
  <2>2. DateUTC(y + 1, 1, 1) = March(y) + 306 /\ DateUTC(y + 2, 1, 1) = March(y + 1) + 306
    BY <1>9, <2>1
  <2>3. Leaps(y - 1) \in Int /\ DateUTC(y, 1, 1) = 365 * (y - 1970) + Leaps(y - 1) - 477
    BY NewYear
  <2>4. Leaps(y) \in Int /\ Leaps(y - 1) <= Leaps(y) + 2
    BY LeapsGrow
  <2>5. March(y) = 365 * y + Leaps(y) - 719468
    BY MarchOf
  <2> QED
    BY <1>1, <2>2, <2>3, <2>4, <2>5, SMT
<1>11. DateUTC(Y, 1, 1) <= days /\ days < DateUTC(Y + 1, 1, 1)
  <2>1. Offset(10) = 306
    BY DEF Offset
  <2>2. CASE mp < 10
    <3>1. Y = y
      BY <1>3, <2>2 DEF m, Y
    <3>2. doy < 306
      <4>1. mp + 1 <= 10
        BY <1>3, <2>2
      <4>2. Offset(mp + 1) <= 306
        BY <1>3, <4>1 DEF Offset
      <4> QED
        BY <1>2, <1>3, <2>2, <4>2
    <3> QED
      BY <1>1, <1>2, <1>10, <3>1, <3>2
  <2>3. CASE mp >= 10
    <3>1. Y = y + 1 /\ Y + 1 = y + 2
      BY <1>3, <2>3 DEF m, Y
    <3>2. Offset(mp) >= 306
      BY <1>3, <2>3 DEF Offset
    <3> QED
      BY <1>1, <1>2, <1>3, <1>10, <3>1, <3>2
  <2> QED
    BY <1>3, <2>2, <2>3
<1>12. Y >= 1969
  <2> SUFFICES ASSUME Y < 1969
               PROVE  FALSE
    BY <1>5
  <2>1. DateUTC(Y + 1, 1, 1) \in Int /\ DateUTC(Y + 1, 1, 1) <= DateUTC(1969, 1, 1)
    BY <1>5, YearsGrow
  <2>2. DateUTC(1969, 1, 1) = -365
    BY SMT DEF DateUTC, LeapsBefore, DaysBefore
  <2> QED
    BY <1>11, <2>1, <2>2
<1>13. DateUTC(Y, m, 1) <= days
  BY <1>1, <1>2, <1>3, <1>7
<1>14. days - DateUTC(Y, m, 1) + 1 = d
  BY <1>1, <1>2, <1>3, <1>7 DEF d
<1>15. days = DateUTC(Y, m, d)
  <2>1. DateUTC(Y, m, d) = March(y) + Offset(mp) + d - 1
    BY <1>5, DateFromMarch
  <2> QED
    BY <1>1, <1>2, <1>3, <2>1 DEF d
<1>16. Y \in Int /\ m \in 1..12 /\ d \in Int
  BY <1>5
<1> USE <1>16
<1> WITNESS Y \in Int, m \in 1..12, d \in Int
<1> QED
  BY <1>4, <1>8, <1>11, <1>12, <1>13, <1>14, <1>15

\* civil_from_days is what Date reads off a day, and Date.UTC takes it back.
LEMMA DatesAgree ==
  ASSUME NEW days \in Int, days >= -365
  PROVE  /\ P!civil_from_days(days) = DateOf(days)
         /\ P!civil_from_days(days)[1] = YearOf(days)
         /\ YearOf(days) \in Int /\ YearOf(days) >= 1969
         /\ \E m \in 1..12, d \in Int :
              DateOf(days) = <<YearOf(days), m, d>> /\ days = DateUTC(YearOf(days), m, d)
<1>1. PICK y \in Int, m \in 1..12, d \in Int :
        /\ P!civil_from_days(days) = <<y, m, d>>
        /\ y >= 1969 /\ DateUTC(y, 1, 1) <= days /\ days < DateUTC(y + 1, 1, 1)
        /\ DateUTC(y, m, 1) <= days /\ (m < 12 => days < DateUTC(y, m + 1, 1))
        /\ days - DateUTC(y, m, 1) + 1 = d /\ days = DateUTC(y, m, d)
  BY CivilDate
<1>2. YearOf(days) = y
  BY <1>1, YearIs
<1>3. MonthOf(y, days) = m
  BY <1>1, MonthIs
<1>4. DateOf(days) = <<y, m, d>>
  BY <1>1, <1>2, <1>3 DEF DateOf, DateInYear, DateIn
<1>5. <<y, m, d>>[1] = y
  OBVIOUS
<1> QED
  BY <1>1, <1>2, <1>4, <1>5

\* A day lies between two new years.
LEMMA YearBounds ==
  ASSUME NEW days \in Int, days >= -365
  PROVE  DateUTC(YearOf(days), 1, 1) <= days /\ days < DateUTC(YearOf(days) + 1, 1, 1)
<1>1. PICK y \in Int : y >= 1969 /\ DateUTC(y, 1, 1) <= days /\ days < DateUTC(y + 1, 1, 1)
  BY CivilDate
<1> QED
  BY <1>1, YearIs

-----------------------------------------------------------------------------
(* The clock on the wall, in the reference and in the program. *)

\* Date.UTC of a date is a day.
LEMMA DateIsDay ==
  ASSUME NEW y \in Int, NEW m \in 1..12, NEW d \in Int
  PROVE  DateUTC(y, m, d) \in Int
<1>1. \A z \in Int : LeapsBefore(z) \in Int
  BY SMT DEF LeapsBefore
<1>2. LeapsBefore(y) \in Int /\ LeapsBefore(1970) \in Int
  BY <1>1
<1>3. DaysBefore(y, m) \in Int
  BY MonthDays
<1> QED
  BY <1>2, <1>3, SMT DEF DateUTC

\* The program's day of the week is the reference's.
LEMMA WeekdaysAgree ==
  ASSUME NEW d \in Int
  PROVE  P!weekday(d) = WeekDay(d) /\ WeekDay(d) \in 0..6
  BY SMT DEF P!weekday, WeekDay

\* So are its Sundays, the bounds of its summer and its offset.
LEMMA SundaysAgree ==
  ASSUME NEW y \in Int, NEW m \in 1..12, NEW n \in Int
  PROVE  /\ P!nth_sunday(y, m, n) = NthSundayOfMonth(y, m, n)
         /\ NthSundayOfMonth(y, m, n) \in Int
<1>1. 1 \in Int
  OBVIOUS
<1>2. P!days_from_civil(y, m, 1) = DateUTC(y, m, 1) /\ DateUTC(y, m, 1) \in Int
  BY <1>1, DaysAgree, DateIsDay
<1>3. /\ P!weekday(P!days_from_civil(y, m, 1)) = WeekDay(DateUTC(y, m, 1))
      /\ WeekDay(DateUTC(y, m, 1)) \in 0..6
  BY <1>2, WeekdaysAgree
<1> QED
  BY <1>3, SMT DEF P!nth_sunday, NthSundayOfMonth

\* Summer time starts and ends at the same instants.
LEMMA SummersAgree ==
  ASSUME NEW y \in Int, NEW ts \in Int
  PROVE  P!summer(y, ts) = Summer(y, ts)
<1> DEFINE s == NthSundayOfMonth(y, 3, 2)
           w == NthSundayOfMonth(y, 11, 1)
<1>1. /\ P!nth_sunday(y, 3, 2) = s /\ s \in Int
      /\ P!nth_sunday(y, 11, 1) = w /\ w \in Int
  <2>1. 1 \in Int /\ 2 \in Int /\ 3 \in 1..12 /\ 11 \in 1..12
    OBVIOUS
  <2> QED
    BY <2>1, SundaysAgree
<1> HIDE DEF s, w
<1>2. /\ P!days_from_civil(y, 3, s) = DateUTC(y, 3, s)
      /\ P!days_from_civil(y, 11, w) = DateUTC(y, 11, w)
  <2>1. 3 \in 1..12 /\ 11 \in 1..12
    OBVIOUS
  <2> QED
    BY <1>1, <2>1, DaysAgree
<1>3. Summer(y, ts) = (/\ ts >= DateUTC(y, 3, s) * 48 + 7 * 2
                       /\ ts < DateUTC(y, 11, w) * 48 + 6 * 2)
  <2>1. Day = 48 /\ Hour = 2
    BY DEF Day, Hour
  <2> QED
    BY <2>1, Zenon DEF Summer, s, w
<1>4. P!summer(y, ts) = (/\ ts >= DateUTC(y, 3, s) * 48 + 7 * 2
                         /\ ts < DateUTC(y, 11, w) * 48 + 6 * 2)
  BY <1>1, <1>2, Zenon DEF P!summer, P!SlotsPerDay, P!SlotsPerHour
<1> QED
  BY <1>3, <1>4, Zenon

\* The zone is looked up by the same UTC year.
LEMMA OffsetsAgree ==
  ASSUME NEW ts \in Int, ts >= -17520
  PROVE  P!et_offset_hours(ts) = EtOffset(ts) /\ EtOffset(ts) \in {-5, -4}
<1> DEFINE day == ts \div 48
<1>1. day \in Int /\ day >= -365
  BY SMT
<1>2. day = ts \div P!SlotsPerDay /\ day = ts \div Day
  BY SMT DEF P!SlotsPerDay, Day, Hour
<1> HIDE DEF day
<1>3. P!civil_from_days(day)[1] = YearOf(day) /\ YearOf(day) \in Int
  BY <1>1, DatesAgree
<1>4. P!summer(YearOf(day), ts) = Summer(YearOf(day), ts)
  BY <1>3, SummersAgree
<1> QED
  BY <1>2, <1>3, <1>4 DEF P!et_offset_hours, EtOffset

\* The program's code of a kind of day.
Code(kind) == CASE kind = "weekend" -> 0 [] kind = "holiday" -> 1 [] kind = "half" -> 2
                [] kind = "full" -> 3
Kinds == {"weekend", "holiday", "half", "full"}

\* The two calendars name the same kinds of day.
LEMMA KindsAgree ==
  ASSUME NEW date, NEW wday
  PROVE  DayKind(date, wday) \in Kinds /\ P!day_kind(date, wday) = Code(DayKind(date, wday))
<1>1. P!HOLIDAYS = holidays /\ P!HALF_DAYS = halfDays
  BY Zenon DEF P!HOLIDAYS, P!HALF_DAYS, holidays, halfDays
<1> QED
  BY <1>1 DEF P!day_kind, DayKind, Code, Kinds

\* A kind and its code trade, and close, alike.
LEMMA CodesAgree ==
  ASSUME NEW kind \in Kinds
  PROVE  /\ P!trading(Code(kind)) <=> Trading(kind)
         /\ P!close_min(Code(kind)) = CloseMinFor(kind)
         /\ CloseMinFor(kind) = 26 \/ CloseMinFor(kind) = 32
         /\ Code(kind) = 2 <=> kind = "half"
  BY DEF Kinds, Code, P!trading, Trading, P!close_min, CloseMinFor, P!HALF_CLOSE_MIN,
         P!REG_CLOSE_MIN, HalfClose, RegClose

\* The day and the minute of the wall clock at an offset.
WallDay(ts, off) == (ts + off * 2) \div 48

\* Both read the same day and minute off the wall clock.
LEMMA PartsAgree ==
  ASSUME NEW ts \in Int, ts >= -17000
  PROVE  LET p   == P!et_parts(ts)
             q   == EtParts(ts)
             day == WallDay(ts, EtOffset(ts))
         IN /\ day \in Int /\ day >= -365
            /\ q.off = EtOffset(ts) /\ q.min \in 0..47
            /\ q.date = DateOf(day) /\ q.kind = DayKind(DateOf(day), WeekDay(day))
            /\ p.date = q.date /\ p.min = q.min /\ p.kind = Code(q.kind)
            /\ q.kind \in Kinds
<1> DEFINE off == EtOffset(ts)
           wall == ts + off * 2
           day == WallDay(ts, off)
<1>1. P!et_offset_hours(ts) = off /\ off \in {-5, -4}
  BY OffsetsAgree
<1>2. wall = ts + off * Hour /\ wall = ts + P!et_offset_hours(ts) * P!SlotsPerHour
  BY <1>1 DEF Hour, P!SlotsPerHour
<1>3. wall \in Int /\ wall >= -17010
  BY <1>1
<1> HIDE DEF wall, off
<1>4. /\ day = wall \div Day /\ day = wall \div P!SlotsPerDay
      /\ wall % Day = wall % 48 /\ wall % P!SlotsPerDay = wall % 48
  BY DEF Day, Hour, P!SlotsPerDay, WallDay, wall
<1>5. day \in Int /\ day >= -365 /\ wall % 48 \in 0..47
  BY <1>3, SMT DEF WallDay, wall
<1> HIDE DEF day
<1>6. P!civil_from_days(day) = DateOf(day) /\ P!weekday(day) = WeekDay(day)
  BY <1>5, DatesAgree, WeekdaysAgree
<1>7. EtParts(ts) = [off |-> off, date |-> DateOf(day), min |-> wall % 48,
                     kind |-> DayKind(DateOf(day), WeekDay(day))]
  <2>1. EtParts(ts) = PartsAt(wall, off)
    BY <1>2 DEF EtParts, ShiftedBy, off
  <2> QED
    BY <1>4, <2>1 DEF PartsAt, PartsOf
<1>8. P!et_parts(ts) = [date |-> DateOf(day), min |-> wall % 48,
                        kind |-> P!day_kind(DateOf(day), WeekDay(day))]
  <2>1. P!et_parts(ts) = P!parts_of(wall)
    BY <1>2 DEF P!et_parts
  <2> QED
    BY <1>4, <1>6, <2>1 DEF P!parts_of, P!parts
<1> QED
  BY <1>5, <1>7, <1>8, KindsAgree DEF day, off

\* Both take a reading of the wall clock back to the same instant, four or five hours later.
LEMMA WallsAgree ==
  ASSUME NEW day \in Int, day >= -350, NEW min \in 0..47
  PROVE  LET t == EtWallToUnix(DateOf(day), min)
         IN /\ P!et_wall_to_unix(DateOf(day), min) = t
            /\ t \in {day * 48 + min + 8, day * 48 + min + 10}
<1> DEFINE y == YearOf(day)
<1>0. day >= -365
  OBVIOUS
<1>1. PICK m \in 1..12, d \in Int : DateOf(day) = <<y, m, d>> /\ day = DateUTC(y, m, d)
  BY <1>0, DatesAgree
<1>8. y \in Int
  BY <1>0, DatesAgree
<1> HIDE DEF y
<1>2. P!days_from_civil(y, m, d) = day
  BY <1>1, <1>8, DaysAgree
<1> DEFINE guess == day * 48 + min
<1>3. guess \in Int /\ guess >= -17520
  OBVIOUS
<1>4. EtWallToUnix(DateOf(day), min) = FromGuess(guess)
  BY <1>1 DEF EtWallToUnix, Day, Hour
<1>5. P!et_wall_to_unix(DateOf(day), min) = P!from_guess(guess)
  BY <1>1, <1>2 DEF P!et_wall_to_unix, P!SlotsPerDay
<1> HIDE DEF guess
<1>6. /\ FromGuess(guess) = guess - EtOffset(guess) * 2
      /\ P!from_guess(guess) = guess - EtOffset(guess) * 2
      /\ EtOffset(guess) \in {-5, -4}
  BY <1>3, OffsetsAgree DEF FromGuess, P!from_guess, Hour, P!SlotsPerHour
<1>7. guess - EtOffset(guess) * 2 \in {guess + 8, guess + 10}
  BY <1>3, <1>6
<1> QED
  BY <1>4, <1>5, <1>6, <1>7 DEF guess

-----------------------------------------------------------------------------
(* The walk back to the last close. *)

\* A probe of the walk and the day it reads.
ProbeAt(ts, back) == ts - back * 48
DayAt(ts, back) == WallDay(ProbeAt(ts, back), EtOffset(ProbeAt(ts, back)))

\* A probe finds a close in the program when it does in the reference, and the same one;
\* one that reads a trading day long enough ago does.
LEMMA ProbesAgree ==
  ASSUME NEW ts \in Int, ts >= -480, NEW back \in 0..9
  PROVE  LET p   == P!probe(ts, back)
             day == DayAt(ts, back)
         IN /\ day \in Int /\ day >= -350
            /\ P!has_closed(p, ts) <=> Probe(ts, back) # Null
            /\ P!has_closed(p, ts) => Probe(ts, back) = P!close_of(p)
            /\ Trading(DayKind(DateOf(day), WeekDay(day))) /\ day * 48 + 42 <= ts
                 => Probe(ts, back) # Null
<1> DEFINE at == ProbeAt(ts, back)
           day == DayAt(ts, back)
           q == EtParts(at)
           p == P!et_parts(at)
           min == CloseMinFor(q.kind)
           c == EtWallToUnix(DateOf(day), min)
<1>1. at \in Int /\ at >= -1000 /\ at = ts - back * Day /\ at = ts - back * P!SlotsPerDay
  BY DEF ProbeAt, Day, Hour, P!SlotsPerDay
<1>2. P!probe(ts, back) = p /\ Probe(ts, back) = Rung(q, ts)
  BY <1>1, Zenon DEF P!probe, Probe
<1>3. /\ day \in Int /\ q.date = DateOf(day) /\ q.kind = DayKind(DateOf(day), WeekDay(day))
      /\ p.date = q.date /\ p.kind = Code(q.kind) /\ q.kind \in Kinds
  BY <1>1, PartsAgree DEF DayAt
<1>4. day >= -350
  <2>1. EtOffset(at) \in {-5, -4}
    BY <1>1, OffsetsAgree
  <2> HIDE DEF at
  <2> QED
    BY <1>1, <2>1, SMT DEF DayAt, WallDay, at
<1> HIDE DEF at, day, q, p
<1>5. /\ P!trading(p.kind) <=> Trading(q.kind)
      /\ P!close_min(p.kind) = min /\ (min = 26 \/ min = 32)
  BY <1>3, CodesAgree
<1>6. /\ P!et_wall_to_unix(DateOf(day), min) = c
      /\ c \in {day * 48 + min + 8, day * 48 + min + 10}
  <2>1. min \in 0..47
    BY <1>5
  <2> QED
    BY <1>3, <1>4, <2>1, WallsAgree
<1>7. CloseOf(q) = c /\ P!close_of(p) = c
  BY <1>3, <1>5, <1>6 DEF CloseOf, P!close_of
<1> HIDE DEF min, c
<1>8. c \in Int /\ c # Null /\ c <= day * 48 + 42
  BY <1>3, <1>5, <1>6 DEF Null
<1>9. Probe(ts, back) = IF Trading(q.kind) /\ c <= ts THEN c ELSE Null
  BY <1>2, <1>7 DEF Rung
<1>10. P!has_closed(p, ts) <=> Trading(q.kind) /\ c <= ts
  BY <1>5, <1>7 DEF P!has_closed
<1> QED
  BY <1>2, <1>3, <1>4, <1>7, <1>8, <1>9, <1>10 DEF day

\* The exchange closes on no Tuesday and on no Wednesday of the calendar's year.
LEMMA TuesdayTrades ==
  ASSUME NEW day \in Int, day >= -365, WeekDay(day) \in {2, 3}
  PROVE  Trading(DayKind(DateOf(day), WeekDay(day)))
<1> DEFINE y == YearOf(day)
<1>1. PICK m \in 1..12, d \in Int : DateOf(day) = <<y, m, d>> /\ day = DateUTC(y, m, d)
  BY DatesAgree
<1> HIDE DEF y
<1>2. SUFFICES ASSUME DateOf(day) \in holidays
               PROVE  FALSE
  BY DEF DayKind, Trading
<1>3. LeapsBefore(2026) = 491 /\ LeapsBefore(1970) = 477 /\ ~IsLeap(2026)
  BY SMT DEF LeapsBefore, IsLeap
<1>4. \A k \in 1..12 : DaysBefore(2026, k)
                        = <<0, 31, 59, 90, 120, 151, 181, 212, 243, 273, 304, 334>>[k]
  BY <1>3 DEF DaysBefore
<1>5. \A k \in 1..12, n \in Int : DateUTC(2026, k, n) = 20454 + DaysBefore(2026, k) + n - 1
  BY <1>3, <1>4, SMT DEF DateUTC
<1>6. day \in {20454, 20472, 20500, 20546, 20598, 20623, 20637, 20703, 20783, 20812}
  <2>1. /\ DaysBefore(2026, 1) = 0 /\ DaysBefore(2026, 2) = 31 /\ DaysBefore(2026, 4) = 90
        /\ DaysBefore(2026, 5) = 120 /\ DaysBefore(2026, 6) = 151 /\ DaysBefore(2026, 7) = 181
        /\ DaysBefore(2026, 9) = 243 /\ DaysBefore(2026, 11) = 304
        /\ DaysBefore(2026, 12) = 334
    BY <1>4
  <2>2. /\ y = 2026
        /\ \/ (m = 1 /\ d = 1) \/ (m = 1 /\ d = 19) \/ (m = 2 /\ d = 16)
           \/ (m = 4 /\ d = 3) \/ (m = 5 /\ d = 25) \/ (m = 6 /\ d = 19)
           \/ (m = 7 /\ d = 3) \/ (m = 9 /\ d = 7)
           \/ (m = 11 /\ d = 26) \/ (m = 12 /\ d = 25)
    <3>1. <<y, m, d>>[1] = y /\ <<y, m, d>>[2] = m /\ <<y, m, d>>[3] = d
      OBVIOUS
    <3>2. <<y, m, d>> \in holidays
      BY <1>1, <1>2
    <3> QED
      BY <3>1, <3>2 DEF holidays
  <2>3. day = 20454 + DaysBefore(2026, m) + d - 1
    BY <1>1, <1>5, <2>2
  <2> QED
    BY <2>1, <2>2, <2>3
<1> QED
  BY <1>6 DEF WeekDay

\* So the walk of ten probes always meets a session that has closed.
LEMMA SomeProbeCloses ==
  ASSUME NEW ts \in Int, ts >= -480
  PROVE  \E back \in 0..9 : Probe(ts, back) # Null
<1> DEFINE a == (ts - 10) \div 48
           k == a % 7
<1>1. a \in Int /\ a * 48 <= ts - 10 /\ ts - 10 < a * 48 + 48 /\ k \in 0..6
  BY SMT
<1> DEFINE back == 2 + k
           w == a - back
<1>2. WeekDay(w) = 2
  BY <1>1, SMT DEF WeekDay
<1> HIDE DEF k
<1>3. back \in 2..8
  BY <1>1
<1> DEFINE at == ProbeAt(ts, back)
           day == DayAt(ts, back)
<1>4. at \in Int /\ at >= -1000 /\ at = ts - back * 48
  BY <1>3 DEF ProbeAt
<1> HIDE DEF a, at, back
<1>5. EtOffset(at) \in {-5, -4}
  BY <1>4, OffsetsAgree
<1>6. day \in {w, w + 1} /\ w \in Int
  BY <1>1, <1>3, <1>4, <1>5, SMT DEF DayAt, WallDay, at
<1>7. day \in Int /\ day >= -350 /\ back \in 0..9
  <2>1. back \in 0..9
    BY <1>3
  <2> QED
    BY <2>1, ProbesAgree
<1>8. WeekDay(day) \in {2, 3}
  BY <1>2, <1>6, SMT DEF WeekDay
<1>9. Trading(DayKind(DateOf(day), WeekDay(day)))
  BY <1>7, <1>8, TuesdayTrades
<1>10. day * 48 + 42 <= ts
  BY <1>1, <1>3, <1>6
<1> QED
  BY <1>7, <1>9, <1>10, ProbesAgree

\* The reference stops at the first probe that finds a close.
LEMMA LastCloseIs ==
  ASSUME NEW ts \in Int, ts >= -480
  PROVE  LET k == CHOOSE back \in 0..9 : FirstClosed(ts, back)
         IN k \in 0..9 /\ FirstClosed(ts, k) /\ LastClose(ts) = Probe(ts, k)
<1>1. PICK first \in 0..9 : FirstClosed(ts, first)
  <2> DEFINE S == {b \in 0..9 : Probe(ts, b) # Null}
  <2>1. S # {} /\ S \subseteq 0..9
    BY SomeProbeCloses
  <2>2. \E b \in S : \A n \in S : b <= n
    BY <2>1, SMT
  <2> QED
    BY <2>2 DEF FirstClosed
<1> QED
  BY <1>1, SomeProbeCloses DEF LastClose

\* So does the program, and null never has to be told from 0.
LEMMA ClosesAgree ==
  ASSUME NEW ts \in Int, ts >= -480
  PROVE  P!last_close(ts) = LastClose(ts)
<1> DEFINE H(b) == P!has_closed(P!probe(ts, b), ts)
           k == CHOOSE back \in 0..9 : FirstClosed(ts, back)
<1>1. \A b \in 0..9 : H(b) <=> Probe(ts, b) # Null
  BY ProbesAgree
<1>2. \A b \in 0..9 : H(b) => Probe(ts, b) = P!close_of(P!probe(ts, b))
  BY ProbesAgree
<1>3. \A b \in 0..9 : P!first_closed(ts, b) <=> FirstClosed(ts, b)
  <2> TAKE b \in 0..9
  <2>1. \A n \in 0 .. b - 1 : n \in 0..9
    OBVIOUS
  <2> QED
    BY <1>1, <2>1 DEF P!first_closed, FirstClosed
<1>4. k = CHOOSE back \in 0..9 : P!first_closed(ts, back)
  BY <1>3
<1>5. k \in 0..9 /\ FirstClosed(ts, k) /\ LastClose(ts) = Probe(ts, k)
  BY LastCloseIs
<1>6. \E b \in 0..9 : H(b)
  BY <1>1, SomeProbeCloses
<1>7. P!last_close(ts) = P!close_of(P!probe(ts, k))
  BY <1>4, <1>6 DEF P!last_close
<1> QED
  BY <1>1, <1>2, <1>5, <1>7 DEF FirstClosed

\* The status byte is the status.
LEMMA StatusesAgree ==
  ASSUME NEW p, NEW q, q.kind \in Kinds, p.kind = Code(q.kind), p.min = q.min
  PROVE  P!status_of(p) = (CASE StatusOf(q) = "CLOSED" -> P!CLOSED
                             [] StatusOf(q) = "OPEN" -> P!OPEN
                             [] StatusOf(q) = "HALF_DAY" -> P!HALF_DAY)
<1>1. P!REG_OPEN_MIN = RegOpen
  BY DEF P!REG_OPEN_MIN, RegOpen
<1>2. P!trading(p.kind) <=> Trading(q.kind)
  BY CodesAgree
<1>3. P!close_min(p.kind) = CloseMinFor(q.kind) /\ (p.kind = 2 <=> q.kind = "half")
  BY CodesAgree
<1> QED
  BY <1>1, <1>2, <1>3 DEF P!status_of, StatusOf, Inside

\* Everything that is compared agrees.
LEMMA StatesAgree ==
  ASSUME clock \in Nat
  PROVE  ProgramAgrees
<1>1. clock \in Int /\ clock >= -17000 /\ clock >= -480 /\ clock >= -17520
  OBVIOUS
<1> DEFINE p == P!et_parts(clock)
           q == EtParts(clock)
<1>2. /\ q.off = EtOffset(clock) /\ p.date = q.date /\ p.min = q.min
      /\ p.kind = Code(q.kind) /\ q.kind \in Kinds
  BY <1>1, PartsAgree
<1>3. P!et_offset_hours(clock) = EtOffset(clock)
  BY <1>1, OffsetsAgree
<1>4. P!last_close(clock) = LastClose(clock)
  BY <1>1, ClosesAgree
<1> HIDE DEF p, q
<1>5. P!write_state(clock)
        = [status |-> P!status_of(p), day_kind |-> p.kind,
           et_offset |-> P!et_offset_hours(clock), cal |-> P!CALENDAR_VERSION,
           updatedTs |-> clock, lastCloseTs |-> P!last_close(clock), date |-> p.date]
  BY DEF P!write_state, P!state_bytes, P!market_status, p
<1>6. /\ MarketStatus(clock).status = StatusOf(q) /\ MarketStatus(clock).date = q.date
      /\ MarketStatus(clock).off = q.off /\ MarketStatus(clock).lastClose = LastClose(clock)
      /\ MarketStatus(clock).cal = CalendarVersion
  BY DEF MarketStatus, Report, q
<1>7. P!CALENDAR_VERSION = CalendarVersion
  BY DEF P!CALENDAR_VERSION, CalendarVersion
<1> DEFINE a == P!write_state(clock)
           r == MarketStatus(clock)
<1>8. /\ a.status = P!status_of(p) /\ a.lastCloseTs = r.lastClose /\ a.cal = r.cal
      /\ a.date = r.date /\ a.et_offset = r.off
  BY <1>2, <1>3, <1>4, <1>5, <1>6, <1>7
<1>9. a.status = (CASE r.status = "CLOSED" -> P!CLOSED [] r.status = "OPEN" -> P!OPEN
                    [] r.status = "HALF_DAY" -> P!HALF_DAY)
  BY <1>2, <1>6, <1>8, StatusesAgree
<1> QED
  BY <1>8, <1>9, Zenon DEF ProgramAgrees

-----------------------------------------------------------------------------
(* The bells of a day. *)

\* The offset of a day's trading hours, and its bells.
DayOff(day) == IF SummerDay(day, YearOf(day)) THEN -4 ELSE -5
OpensAt(day) == Bell(day, RegOpen)
ClosesAt(day) == Bell(day, CloseMinFor(KindOf(day)))
OpenOn(day, t) == Trading(KindOf(day)) /\ OpensAt(day) <= t /\ t < ClosesAt(day)

\* The nth Sunday of a month is a Sunday, of the month's first fortnight if n is 1 or 2.
LEMMA SundayIs ==
  ASSUME NEW y \in Int, NEW m \in 1..12, NEW n \in 1..2
  PROVE  /\ DateUTC(y, m, NthSundayOfMonth(y, m, n)) \in Int
         /\ WeekDay(DateUTC(y, m, NthSundayOfMonth(y, m, n))) = 0
         /\ NthSundayOfMonth(y, m, n) \in 1..14
<1> DEFINE f == DateUTC(y, m, 1)
           k == (7 - WeekDay(f)) % 7
           s == NthSundayOfMonth(y, m, n)
<1>1. f \in Int
  <2>1. 1 \in Int
    OBVIOUS
  <2> QED
    BY <2>1, DateIsDay
<1> HIDE DEF f
<1>2. s = 1 + k + (n - 1) * 7 /\ k \in 0..6 /\ s \in 1..14
  BY <1>1, SMT DEF NthSundayOfMonth, f, WeekDay
<1>3. DateUTC(y, m, s) = f + s - 1
  <2>1. \A z \in Int : LeapsBefore(z) \in Int
    BY SMT DEF LeapsBefore
  <2>2. LeapsBefore(y) \in Int /\ LeapsBefore(1970) \in Int
    BY <2>1
  <2>3. DaysBefore(y, m) \in Int
    BY MonthDays
  <2> HIDE DEF s
  <2> QED
    BY <1>2, <2>2, <2>3, SMT DEF DateUTC, f
<1>4. WeekDay(f + s - 1) = 0
  <2>1. CASE n = 1
    BY <1>1, <1>2, <2>1, SMT DEF WeekDay
  <2>2. CASE n = 2
    BY <1>1, <1>2, <2>2, SMT DEF WeekDay
  <2> QED
    BY <2>1, <2>2
<1> HIDE DEF s
<1> QED
  BY <1>1, <1>2, <1>3, <1>4 DEF s

\* From 07:00 UTC on, the offset is the one of the local day: the changes of the hour come
\* before, and the UTC day is the local one.
LEMMA DayOffset ==
  ASSUME NEW day \in Int, day >= -365, NEW s \in 14..47
  PROVE  EtOffset(day * 48 + s) = DayOff(day)
<1> DEFINE t == day * 48 + s
           y == YearOf(day)
           a == DateUTC(y, 3, NthSundayOfMonth(y, 3, 2))
           b == DateUTC(y, 11, NthSundayOfMonth(y, 11, 1))
<1>1. t \in Int /\ t \div Day = day
  BY SMT DEF Day, Hour
<1>2. y \in Int
  BY DatesAgree
<1> HIDE DEF y
<1>3. a \in Int /\ b \in Int
  <2>1. 3 \in 1..12 /\ 11 \in 1..12 /\ 1 \in 1..2 /\ 2 \in 1..2
    OBVIOUS
  <2> QED
    BY <1>2, <2>1, SundayIs
<1>4. Summer(y, t) = (t >= a * Day + 7 * Hour /\ t < b * Day + 6 * Hour)
  BY Zenon DEF Summer
<1>5. SummerDay(day, y) = (day >= a /\ day < b)
  BY Zenon DEF SummerDay
<1> HIDE DEF t, a, b
<1>6. (t >= a * Day + 7 * Hour /\ t < b * Day + 6 * Hour) <=> (day >= a /\ day < b)
  BY <1>3, SMT DEF t, Day, Hour
<1>7. EtOffset(t) = IF Summer(y, t) THEN -4 ELSE -5
  BY <1>1 DEF EtOffset, y
<1>8. DayOff(day) = IF SummerDay(day, y) THEN -4 ELSE -5
  BY DEF DayOff, y
<1> QED
  BY <1>4, <1>5, <1>6, <1>7, <1>8 DEF t

\* A bell, as a local time of its day, is where etWallToUnix puts it.
LEMMA BellIs ==
  ASSUME NEW day \in Int, day >= -350, NEW min \in 19..32
  PROVE  /\ DayOff(day) \in {-5, -4}
         /\ Bell(day, min) = day * 48 + min - DayOff(day) * 2
         /\ EtWallToUnix(DateOf(day), min) = Bell(day, min)
<1> DEFINE y == YearOf(day)
<1>0. day >= -365
  OBVIOUS
<1>1. PICK m \in 1..12, d \in Int : DateOf(day) = <<y, m, d>> /\ day = DateUTC(y, m, d)
  BY <1>0, DatesAgree
<1> HIDE DEF y
<1>2. EtWallToUnix(DateOf(day), min) = FromGuess(day * 48 + min)
  BY <1>1 DEF EtWallToUnix, Day, Hour
<1>3. min \in 14..47
  OBVIOUS
<1>4. EtOffset(day * 48 + min) = DayOff(day)
  BY <1>0, <1>3, DayOffset
<1>5. DayOff(day) \in {-5, -4}
  BY DEF DayOff
<1>6. FromGuess(day * 48 + min) = day * 48 + min - DayOff(day) * 2
  <2> DEFINE guess == day * 48 + min
  <2>1. EtOffset(guess) = DayOff(day)
    BY <1>4
  <2>2. guess \in Int
    OBVIOUS
  <2> HIDE DEF guess
  <2>3. FromGuess(guess) = guess - DayOff(day) * 2
    BY <1>5, <2>1, <2>2 DEF FromGuess, Hour
  <2> QED
    BY <1>5, <2>3 DEF guess
<1>7. Bell(day, min) = day * 48 + min - DayOff(day) * 2
  BY DEF Bell, DayOff, Day, Hour
<1> QED
  BY <1>2, <1>5, <1>6, <1>7

\* When a day's bells ring, to within the hour of daylight saving.
LEMMA BellsOf ==
  ASSUME NEW day \in Int, day >= -350
  PROVE  /\ KindOf(day) \in Kinds /\ CloseMinFor(KindOf(day)) \in {26, 32}
         /\ DayOff(day) \in {-5, -4}
         /\ OpensAt(day) = day * 48 + 19 - DayOff(day) * 2
         /\ ClosesAt(day) = day * 48 + CloseMinFor(KindOf(day)) - DayOff(day) * 2
         /\ EtWallToUnix(DateOf(day), RegOpen) = OpensAt(day)
         /\ EtWallToUnix(DateOf(day), CloseMinFor(KindOf(day))) = ClosesAt(day)
<1>1. KindOf(day) \in Kinds
  BY KindsAgree DEF KindOf
<1>2. CloseMinFor(KindOf(day)) \in {26, 32}
  BY <1>1, CodesAgree
<1>3. RegOpen = 19 /\ 19 \in 19..32
  BY DEF RegOpen
<1>4. CloseMinFor(KindOf(day)) \in 19..32
  BY <1>2
<1> QED
  BY <1>1, <1>2, <1>3, <1>4, BellIs DEF OpensAt, ClosesAt

\* The wall clock reads an hour of trading exactly between the bells of the day it reads.
LEMMA InsideIsBetween ==
  ASSUME NEW t \in Int, t >= -480
  PROVE  LET q == EtParts(t)
             D == WallDay(t, EtOffset(t))
         IN /\ D \in Int /\ D >= -350 /\ q.kind = KindOf(D) /\ q.date = DateOf(D)
            /\ Inside(q) => OpenOn(D, t)
            /\ \A day \in Int : day >= -350 /\ OpenOn(day, t) => day = D /\ Inside(q)
<1> DEFINE off == EtOffset(t)
           q == EtParts(t)
           D == WallDay(t, off)
<1>1. t >= -17000 /\ t >= -17520
  OBVIOUS
<1>2. off \in {-5, -4}
  BY <1>1, OffsetsAgree
<1>3. D \in Int /\ q.kind = DayKind(DateOf(D), WeekDay(D)) /\ q.date = DateOf(D)
  BY <1>1, PartsAgree
<1>4. q.min = (t + off * 2) % 48
  BY DEF EtParts, ShiftedBy, PartsAt, PartsOf, Day, Hour
<1> HIDE DEF off, q
<1>5. q.kind = KindOf(D)
  BY <1>3 DEF KindOf
<1>6. D >= -350 /\ t + off * 2 = D * 48 + q.min /\ q.min \in 0..47
  BY <1>2, <1>4, SMT DEF WallDay
<1> HIDE DEF D
<1>7. Inside(q) <=> Trading(q.kind) /\ q.min >= 19 /\ q.min < CloseMinFor(KindOf(D))
  BY <1>5 DEF Inside, RegOpen
<1>8. ASSUME Inside(q)
      PROVE  OpenOn(D, t)
  <2>1. /\ CloseMinFor(KindOf(D)) \in {26, 32} /\ DayOff(D) \in {-5, -4}
        /\ OpensAt(D) = D * 48 + 19 - DayOff(D) * 2
        /\ ClosesAt(D) = D * 48 + CloseMinFor(KindOf(D)) - DayOff(D) * 2
    BY <1>3, <1>6, BellsOf
  <2>2. q.min >= 19 /\ q.min < 32 /\ q.min < CloseMinFor(KindOf(D))
    BY <1>6, <1>7, <1>8, <2>1
  <2> DEFINE s == q.min - off * 2
  <2>3. s \in 14..47 /\ t = D * 48 + s
    BY <1>2, <1>3, <1>6, <2>2
  <2> HIDE DEF s
  <2>4. off = DayOff(D)
    <3>1. D >= -365
      BY <1>3, <1>6
    <3> QED
      BY <1>3, <2>3, <3>1, DayOffset DEF off
  <2> QED
    BY <1>2, <1>3, <1>5, <1>6, <1>7, <1>8, <2>1, <2>2, <2>4 DEF OpenOn
<1>9. ASSUME NEW day \in Int, day >= -350, OpenOn(day, t)
      PROVE  day = D /\ Inside(q)
  <2>1. /\ CloseMinFor(KindOf(day)) \in {26, 32} /\ DayOff(day) \in {-5, -4}
        /\ OpensAt(day) = day * 48 + 19 - DayOff(day) * 2
        /\ ClosesAt(day) = day * 48 + CloseMinFor(KindOf(day)) - DayOff(day) * 2
    BY <1>9, BellsOf
  <2>2. OpensAt(day) <= t /\ t < ClosesAt(day) /\ Trading(KindOf(day))
    BY <1>9 DEF OpenOn
  <2> DEFINE s == t - day * 48
  <2>3. s \in 14..47 /\ t = day * 48 + s
    BY <2>1, <2>2
  <2> HIDE DEF s
  <2>4. off = DayOff(day)
    <3>1. day >= -365
      BY <1>9
    <3> QED
      BY <2>3, <3>1, DayOffset DEF off
  <2>5. day = D
    BY <1>2, <1>3, <1>6, <2>1, <2>2, <2>4
  <2> QED
    BY <1>2, <1>3, <1>5, <1>6, <1>7, <2>1, <2>2, <2>4, <2>5
<1> QED
  BY <1>3, <1>5, <1>6, <1>8, <1>9 DEF off, q, D

\* The status is that of the day whose session is on.
DayStatus(day) == IF KindOf(day) = "half" THEN "HALF_DAY" ELSE "OPEN"

\* With no session on, the market is closed.
LEMMA StatusIs ==
  ASSUME NEW t \in Int, t >= -480
  PROVE  /\ \A day \in Int : day >= -350 /\ OpenOn(day, t) => Status(t) = DayStatus(day)
         /\ (\A day \in Int : day >= -350 => ~OpenOn(day, t)) => Status(t) = "CLOSED"
  BY InsideIsBetween DEF Status, StatusOf, DayStatus

-----------------------------------------------------------------------------
(* The sessions and the status. *)

\* The clock stays in the span it started in.
InSpan == clock \in Nat /\ \E span \in Spans : span[1] <= clock /\ clock <= span[2]

\* The sessions as a set, read back as days.
LEMMA SessionsAre ==
  ASSUME NEW s
  PROVE  s \in TradingSessions
           <=> \E day \in Days : Trading(KindOf(day)) /\ s = SessionOn(day)
<1>1. \A day : SessionOn(day).kind = KindOf(day)
  BY DEF SessionOn
<1> QED
  BY <1>1, Zenon DEF TradingSessions, Sessions

\* The bells as a set, read back as days.
LEMMA BellsAre ==
  /\ \A b : b \in OpeningBells <=> \E day \in Days : Trading(KindOf(day)) /\ b = OpensAt(day)
  /\ \A b : b \in ClosingBells <=> \E day \in Days : Trading(KindOf(day)) /\ b = ClosesAt(day)
<1>1. \A day : SessionOn(day).open = OpensAt(day) /\ SessionOn(day).close = ClosesAt(day)
  BY DEF SessionOn, OpensAt, ClosesAt
<1>2. \A day \in Days : Trading(KindOf(day)) => SessionOn(day) \in TradingSessions
  BY SessionsAre
<1>3. \A s \in TradingSessions : \E day \in Days : Trading(KindOf(day)) /\ s = SessionOn(day)
  BY SessionsAre
<1> QED
  BY <1>1, <1>2, <1>3, Zenon DEF OpeningBells, ClosingBells

\* Every day near the clock is listed.
LEMMA DaysAre ==
  /\ \A day \in Days : day \in Int /\ day >= -20
  /\ InSpan => \A day \in Int :
                 day * 48 >= clock - 900 /\ day * 48 <= clock + 900 => day \in Days
<1>1. \A span \in Spans : span[1] \in Nat /\ span[2] \in Nat
  BY SpansAssumption
<1>2. \A day : day \in Days <=>
        \E span \in Spans : day \in (span[1] \div Day - 20) .. (span[2] \div Day + 20)
  BY Zenon DEF Days
<1>3. ASSUME NEW span \in Spans,
             NEW day \in (span[1] \div Day - 20) .. (span[2] \div Day + 20)
      PROVE  day \in Int /\ day >= -20
  <2> DEFINE a == span[1]
             b == span[2]
  <2>1. a \in Nat /\ b \in Nat
    BY <1>1
  <2> HIDE DEF a, b
  <2>2. day \in (a \div 48 - 20) .. (b \div 48 + 20)
    BY <1>3 DEF a, b, Day, Hour
  <2> QED
    BY <2>1, <2>2, SMT
<1>4. ASSUME InSpan, NEW day \in Int, day * 48 >= clock - 900, day * 48 <= clock + 900
      PROVE  day \in Days
  <2>1. PICK span \in Spans : span[1] <= clock /\ clock <= span[2]
    BY <1>4 DEF InSpan
  <2> DEFINE a == span[1]
             b == span[2]
  <2>2. a \in Nat /\ b \in Nat /\ a <= clock /\ clock <= b /\ clock \in Nat
    BY <1>1, <1>4, <2>1 DEF InSpan
  <2> HIDE DEF a, b
  <2>3. day \in (a \div 48 - 20) .. (b \div 48 + 20)
    BY <1>4, <2>2, SMT
  <2>4. day \in (span[1] \div Day - 20) .. (span[2] \div Day + 20)
    BY <2>3 DEF a, b, Day, Hour
  <2> QED
    BY <1>2, <2>4
<1> QED
  BY <1>2, <1>3, <1>4

\* OpenBetweenBells, of any clock within its span.
LEMMA SessionsOpen ==
  ASSUME InSpan
  PROVE  OpenBetweenBells
<1> DEFINE q == EtParts(clock)
           m == MarketStatus(clock)
           D == WallDay(clock, EtOffset(clock))
           on == {s \in TradingSessions : s.open <= clock /\ clock < s.close}
<1>1. clock \in Int /\ clock >= 0 /\ clock >= -480
  BY DEF InSpan
<1>2. /\ D \in Int /\ D >= -350 /\ q.kind = KindOf(D) /\ q.date = DateOf(D)
      /\ Inside(q) => OpenOn(D, clock)
      /\ \A day \in Int : day >= -350 /\ OpenOn(day, clock) => day = D /\ Inside(q)
  BY <1>1, InsideIsBetween
<1>3. /\ m.status = StatusOf(q)
      /\ m.open = IF Inside(q) THEN EtWallToUnix(q.date, RegOpen) ELSE Null
      /\ m.close = IF Inside(q) THEN CloseOf(q) ELSE Null
  BY DEF MarketStatus, Report
<1> HIDE DEF q, m, D
<1>4. /\ SessionOn(D).open = OpensAt(D) /\ SessionOn(D).close = ClosesAt(D)
      /\ SessionOn(D).kind = KindOf(D)
  BY DEF SessionOn, OpensAt, ClosesAt
<1>5. CASE Inside(q)
  <2>1. OpenOn(D, clock)
    BY <1>2, <1>5
  <2>2. /\ CloseMinFor(KindOf(D)) \in {26, 32} /\ DayOff(D) \in {-5, -4}
        /\ OpensAt(D) = D * 48 + 19 - DayOff(D) * 2
        /\ ClosesAt(D) = D * 48 + CloseMinFor(KindOf(D)) - DayOff(D) * 2
        /\ EtWallToUnix(DateOf(D), RegOpen) = OpensAt(D)
        /\ EtWallToUnix(DateOf(D), CloseMinFor(KindOf(D))) = ClosesAt(D)
    BY <1>2, BellsOf
  <2>3. D \in Days
    <3>1. D * 48 >= clock - 900 /\ D * 48 <= clock + 900
      BY <1>1, <1>2, <2>1, <2>2 DEF OpenOn
    <3> QED
      BY <1>2, <3>1, DaysAre
  <2>4. SessionOn(D) \in on
    BY <1>4, <2>1, <2>3, SessionsAre DEF OpenOn
  <2>5. m.open = OpensAt(D) /\ m.close = ClosesAt(D)
    BY <1>2, <1>3, <1>5, <2>2 DEF CloseOf
  <2>6. m.status = IF KindOf(D) = "half" THEN "HALF_DAY" ELSE "OPEN"
    BY <1>2, <1>3, <1>5 DEF StatusOf
  <2> QED
    BY <1>4, <2>4, <2>5, <2>6, Zenon DEF OpenBetweenBells, m
<1>6. CASE ~Inside(q)
  <2>1. on = {}
    <3> SUFFICES ASSUME NEW s \in on
                 PROVE  FALSE
      BY Zenon
    <3>1. PICK day \in Days : Trading(KindOf(day)) /\ s = SessionOn(day)
      BY SessionsAre
    <3>2. s.open = OpensAt(day) /\ s.close = ClosesAt(day)
      BY <3>1 DEF SessionOn, OpensAt, ClosesAt
    <3>3. OpenOn(day, clock)
      BY <3>1, <3>2 DEF OpenOn
    <3>4. day \in Int /\ day >= -350
      BY DaysAre
    <3> QED
      BY <1>2, <1>6, <3>3, <3>4
  <2>2. m.status = "CLOSED" /\ m.open = Null /\ m.close = Null
    BY <1>3, <1>6 DEF StatusOf
  <2> QED
    BY <2>1, <2>2, Zenon DEF OpenBetweenBells, m
<1> QED
  BY <1>5, <1>6

\* The status changes exactly when a bell rings.
Rings(t) ==
  \E day \in Int : /\ day >= -350 /\ Trading(KindOf(day))
                   /\ (t = OpensAt(day) \/ t = ClosesAt(day))

\* At every bell, for no session begins when another ends.
LEMMA StatusChanges ==
  ASSUME NEW t \in Int, t >= 0
  PROVE  Status(t) # Status(t - 1) <=> Rings(t)
<1>1. t - 1 \in Int /\ t - 1 >= -480 /\ t >= -480
  OBVIOUS
<1>2. \A day \in Int : day >= -350 =>
        /\ CloseMinFor(KindOf(day)) \in {26, 32} /\ DayOff(day) \in {-5, -4}
        /\ OpensAt(day) = day * 48 + 19 - DayOff(day) * 2
        /\ ClosesAt(day) = day * 48 + CloseMinFor(KindOf(day)) - DayOff(day) * 2
  BY BellsOf
<1>3. \A day : DayStatus(day) # "CLOSED"
  BY DEF DayStatus
<1>4. ASSUME ~Rings(t)
      PROVE  Status(t) = Status(t - 1)
  <2>1. \A day \in Int : day >= -350 => (OpenOn(day, t) <=> OpenOn(day, t - 1))
    <3> SUFFICES ASSUME NEW day \in Int, day >= -350, Trading(KindOf(day))
                 PROVE  (OpensAt(day) <= t /\ t < ClosesAt(day))
                          <=> (OpensAt(day) <= t - 1 /\ t - 1 < ClosesAt(day))
      BY DEF OpenOn
    <3>1. t # OpensAt(day) /\ t # ClosesAt(day)
      BY <1>4 DEF Rings
    <3> QED
      BY <1>2, <3>1
  <2>2. CASE \E day \in Int : day >= -350 /\ OpenOn(day, t)
    BY <1>1, <2>1, <2>2, StatusIs
  <2>3. CASE ~\E day \in Int : day >= -350 /\ OpenOn(day, t)
    BY <1>1, <2>1, <2>3, StatusIs
  <2> QED
    BY <2>2, <2>3
<1>5. ASSUME Rings(t)
      PROVE  Status(t) # Status(t - 1)
  <2>1. PICK day \in Int : /\ day >= -350 /\ Trading(KindOf(day))
                           /\ (t = OpensAt(day) \/ t = ClosesAt(day))
    BY <1>5 DEF Rings
  <2>2. /\ CloseMinFor(KindOf(day)) \in {26, 32} /\ DayOff(day) \in {-5, -4}
        /\ OpensAt(day) = day * 48 + 19 - DayOff(day) * 2
        /\ ClosesAt(day) = day * 48 + CloseMinFor(KindOf(day)) - DayOff(day) * 2
    BY <1>2, <2>1
  <2>3. CASE t = OpensAt(day)
    <3>1. OpenOn(day, t)
      BY <2>1, <2>2, <2>3 DEF OpenOn
    <3>2. ASSUME NEW other \in Int, other >= -350, OpenOn(other, t - 1)
          PROVE  FALSE
      <4>1. /\ CloseMinFor(KindOf(other)) \in {26, 32} /\ DayOff(other) \in {-5, -4}
            /\ OpensAt(other) = other * 48 + 19 - DayOff(other) * 2
            /\ ClosesAt(other) = other * 48 + CloseMinFor(KindOf(other)) - DayOff(other) * 2
            /\ OpensAt(other) <= t - 1 /\ t - 1 < ClosesAt(other)
        BY <1>2, <3>2 DEF OpenOn
      <4>2. other = day
        BY <2>2, <2>3, <4>1
      <4> QED
        BY <2>2, <2>3, <4>1, <4>2
    <3>3. Status(t) = DayStatus(day) /\ Status(t - 1) = "CLOSED"
      BY <1>1, <2>1, <3>1, <3>2, StatusIs
    <3> QED
      BY <1>3, <3>3
  <2>4. CASE t = ClosesAt(day)
    <3>1. OpenOn(day, t - 1)
      BY <2>1, <2>2, <2>4 DEF OpenOn
    <3>2. ASSUME NEW other \in Int, other >= -350, OpenOn(other, t)
          PROVE  FALSE
      <4>1. /\ CloseMinFor(KindOf(other)) \in {26, 32} /\ DayOff(other) \in {-5, -4}
            /\ OpensAt(other) = other * 48 + 19 - DayOff(other) * 2
            /\ ClosesAt(other) = other * 48 + CloseMinFor(KindOf(other)) - DayOff(other) * 2
            /\ OpensAt(other) <= t /\ t < ClosesAt(other)
        BY <1>2, <3>2 DEF OpenOn
      <4>2. other = day
        BY <2>2, <2>4, <4>1
      <4> QED
        BY <2>2, <2>4, <4>1, <4>2
    <3>3. Status(t - 1) = DayStatus(day) /\ Status(t) = "CLOSED"
      BY <1>1, <2>1, <3>1, <3>2, StatusIs
    <3> QED
      BY <1>3, <3>3
  <2> QED
    BY <2>1, <2>3, <2>4
<1> QED
  BY <1>4, <1>5

-----------------------------------------------------------------------------
(* The last close is the latest. *)

\* The days of two probes a day apart follow each other, but for the Sunday on which
\* summer time starts, which a probe late on the Saturday and early on the Monday skips.
LEMMA ProbesFollow ==
  ASSUME NEW t \in Int, t >= -480
  PROVE  LET D == WallDay(t, EtOffset(t))
             E == WallDay(t - 48, EtOffset(t - 48))
         IN /\ D \in Int /\ E \in Int
            /\ E <= D /\ (D = E \/ D = E + 1 \/ (D = E + 2 /\ WeekDay(E + 1) = 0))
<1> DEFINE o == EtOffset(t)
           p == EtOffset(t - 48)
           D == WallDay(t, o)
           E == WallDay(t - 48, p)
           day == t \div 48
           y == YearOf(day)
           z == YearOf(day - 1)
           a == DateUTC(y, 3, NthSundayOfMonth(y, 3, 2))
           b == DateUTC(y, 11, NthSundayOfMonth(y, 11, 1))
<1>1. o \in {-5, -4} /\ p \in {-5, -4}
  <2>1. t - 48 \in Int /\ t - 48 >= -17520 /\ t >= -17520
    OBVIOUS
  <2> QED
    BY <2>1, OffsetsAgree
<1>2. day \in Int /\ day >= -10 /\ t \div Day = day /\ (t - 48) \div Day = day - 1
      /\ day * 48 <= t /\ t < day * 48 + 48
  BY SMT DEF Day, Hour
<1>3. o = (IF Summer(y, t) THEN -4 ELSE -5) /\ p = (IF Summer(z, t - 48) THEN -4 ELSE -5)
  BY <1>2 DEF EtOffset
<1> HIDE DEF day
<1>4. y \in Int /\ y >= 1969
  <2>1. day >= -365
    BY <1>2
  <2> QED
    BY <1>2, <2>1, DatesAgree
<1>5. /\ a \in Int /\ b \in Int /\ WeekDay(a) = 0 /\ a > DateUTC(y, 1, 1)
      /\ DateUTC(y, 1, 1) \in Int
  <2>1. 3 \in 1..12 /\ 11 \in 1..12 /\ 1 \in 1..12 /\ 1 \in Int /\ 1 \in 1..2 /\ 2 \in 1..2
    OBVIOUS
  <2> DEFINE s == NthSundayOfMonth(y, 3, 2)
  <2>2. a \in Int /\ b \in Int /\ WeekDay(a) = 0 /\ s \in 1..14
    BY <1>4, <2>1, SundayIs
  <2>3. DateUTC(y, 1, 1) \in Int
    BY <1>4, <2>1, DateIsDay
  <2>4. DaysBefore(y, 3) >= 59 /\ DaysBefore(y, 3) \in Int /\ DaysBefore(y, 1) = 0
    BY DEF DaysBefore
  <2>5. LeapsBefore(y) \in Int /\ LeapsBefore(1970) \in Int
    <3>1. \A x \in Int : LeapsBefore(x) \in Int
      BY SMT DEF LeapsBefore
    <3> QED
      BY <1>4, <3>1
  <2> HIDE DEF s
  <2>6. DateUTC(y, 3, s) > DateUTC(y, 1, 1)
    BY <1>4, <2>2, <2>4, <2>5, SMT DEF DateUTC
  <2> QED
    BY <2>2, <2>3, <2>6 DEF s
<1>6. /\ Summer(y, t) <=> (t >= a * 48 + 7 * 2 /\ t < b * 48 + 6 * 2)
      /\ Summer(y, t - 48) <=> (t - 48 >= a * 48 + 7 * 2 /\ t - 48 < b * 48 + 6 * 2)
  <2>1. Day = 48 /\ Hour = 2
    BY DEF Day, Hour
  <2> QED
    BY <2>1, Zenon DEF Summer
<1>8. DateUTC(y, 1, 1) <= day /\ day < DateUTC(y + 1, 1, 1)
  <2>1. day >= -365
    BY <1>2
  <2> QED
    BY <1>2, <2>1, YearBounds
<1>9. CASE o = -4 /\ p = -5
  <2>1. t >= a * 48 + 14 /\ t < b * 48 + 12
    <3>1. Summer(y, t)
      BY <1>3, <1>9
    <3> HIDE DEF a, b
    <3> QED
      BY <1>5, <1>6, <3>1
  <2>2. y = z
    <3>1. day > DateUTC(y, 1, 1)
      BY <1>2, <1>5, <2>1
    <3>2. day - 1 \in Int /\ DateUTC(y, 1, 1) <= day - 1 /\ day - 1 < DateUTC(y + 1, 1, 1)
      <4>1. y + 1 \in Int /\ 1 \in 1..12 /\ 1 \in Int
        BY <1>4
      <4>2. DateUTC(y + 1, 1, 1) \in Int
        BY <4>1, DateIsDay
      <4> QED
        BY <1>2, <1>5, <1>8, <3>1, <4>2
    <3> QED
      BY <1>4, <3>2, YearIs
  <2>3. ~(t - 48 >= a * 48 + 14 /\ t - 48 < b * 48 + 12)
    <3>1. ~Summer(y, t - 48)
      BY <1>3, <1>9, <2>2
    <3> HIDE DEF a, b
    <3> QED
      BY <1>5, <1>6, <3>1
  <2>4. t < a * 48 + 62
    BY <1>5, <2>1, <2>3
  <2> HIDE DEF a, b, o, p
  <2>5. D = (t - 8) \div 48 /\ E = (t - 58) \div 48
    BY <1>9 DEF WallDay
  <2>6. D \in Int /\ E \in Int /\ E <= D
        /\ (D = E \/ D = E + 1 \/ (D = E + 2 /\ E + 1 = a))
    <3> HIDE DEF D, E
    <3>1. /\ D \in Int /\ 48 * D <= t - 8 /\ t - 8 < 48 * D + 48
          /\ E \in Int /\ 48 * E <= t - 58 /\ t - 58 < 48 * E + 48
      BY <2>5, SMT
    <3> QED
      BY <1>5, <2>1, <2>4, <3>1, SMT
  <2> QED
    BY <1>5, <2>6 DEF o, p
<1>10. CASE ~(o = -4 /\ p = -5)
  <2> HIDE DEF o, p
  <2>1. /\ D \in Int /\ 48 * D <= t + o * 2 /\ t + o * 2 < 48 * D + 48
        /\ E \in Int /\ 48 * E <= t - 48 + p * 2 /\ t - 48 + p * 2 < 48 * E + 48
    BY <1>1, SMT DEF WallDay
  <2> HIDE DEF D, E
  <2>2. E <= D /\ (D = E \/ D = E + 1)
    BY <1>1, <1>10, <2>1, SMT
  <2> QED
    BY <2>1, <2>2 DEF D, E, o, p
<1> QED
  BY <1>9, <1>10

\* The day a probe reads began at most a day and five hours before it.
LEMMA DayAtIs ==
  ASSUME NEW ts \in Int, ts >= -480, NEW back \in 0..9
  PROVE  LET D == DayAt(ts, back)
         IN D \in Int /\ ts - 48 * back - 58 < D * 48 /\ D * 48 <= ts - 48 * back - 8
<1> DEFINE at == ProbeAt(ts, back)
           o == EtOffset(at)
           D == DayAt(ts, back)
<1>1. at \in Int /\ at >= -17520 /\ at = ts - back * 48
  BY DEF ProbeAt
<1> HIDE DEF at
<1>2. o \in {-5, -4}
  BY <1>1, OffsetsAgree
<1>3. D = (at + o * 2) \div 48
  BY DEF DayAt, WallDay, at
<1> HIDE DEF o, D
<1>4. D \in Int /\ D * 48 <= at + o * 2 /\ at + o * 2 < D * 48 + 48
  BY <1>1, <1>2, <1>3, SMT
<1> QED
  BY <1>1, <1>2, <1>4 DEF D

\* The days of the walk follow each other, but for that Sunday.
LEMMA NextDayAt ==
  ASSUME NEW ts \in Int, ts >= 0, NEW back \in 0..8
  PROVE  LET D == DayAt(ts, back)
             E == DayAt(ts, back + 1)
         IN E <= D /\ (D = E \/ D = E + 1 \/ (D = E + 2 /\ WeekDay(E + 1) = 0))
<1> DEFINE at == ProbeAt(ts, back)
<1>1. at \in Int /\ at >= -480 /\ ProbeAt(ts, back + 1) = at - 48
  BY DEF ProbeAt
<1> HIDE DEF at
<1> QED
  BY <1>1, ProbesFollow DEF DayAt, at

\* A probe finds the closing bell of the day it reads, if it has rung.
LEMMA ProbeIs ==
  ASSUME NEW ts \in Int, ts >= -480, NEW back \in 0..9
  PROVE  LET D == DayAt(ts, back)
         IN Probe(ts, back)
              = IF Trading(KindOf(D)) /\ ClosesAt(D) <= ts THEN ClosesAt(D) ELSE Null
<1> DEFINE at == ProbeAt(ts, back)
           q == EtParts(at)
           D == DayAt(ts, back)
<1>1. at \in Int /\ at >= -17000 /\ at = ts - back * Day
  BY DEF ProbeAt, Day, Hour
<1>2. D \in Int /\ D >= -350
  BY ProbesAgree
<1>3. q.kind = KindOf(D) /\ q.date = DateOf(D)
  BY <1>1, PartsAgree DEF DayAt, KindOf
<1>4. Probe(ts, back) = Rung(q, ts)
  <2>1. Probe(ts, back) = Rung(EtParts(ts - back * Day), ts)
    BY DEF Probe
  <2> QED
    BY <1>1, <2>1
<1> HIDE DEF q, D
<1>5. CloseOf(q) = ClosesAt(D)
  BY <1>2, <1>3, BellsOf DEF CloseOf
<1> QED
  BY <1>3, <1>4, <1>5 DEF Rung, D

\* LastCloseIsLatest, of any clock within its span: a bell after the close that was found
\* would have been rung on a day that an earlier probe reads, or on a Sunday.
LEMMA LastIsLatest ==
  ASSUME InSpan
  PROVE  LastCloseIsLatest
<1> DEFINE D(k) == DayAt(clock, k)
           rung == {b \in ClosingBells : b <= clock}
<1>1. clock \in Int /\ clock >= 0 /\ clock >= -480
  BY DEF InSpan
<1>2. \A k \in 0..9 : D(k) \in Int /\ D(k) >= -350
  BY <1>1, ProbesAgree
<1>3. \A day \in Int : day >= -350 =>
        /\ CloseMinFor(KindOf(day)) \in {26, 32} /\ DayOff(day) \in {-5, -4}
        /\ ClosesAt(day) = day * 48 + CloseMinFor(KindOf(day)) - DayOff(day) * 2
  BY BellsOf
<1>4. \A k \in 0..9 : Probe(clock, k) = IF Trading(KindOf(D(k))) /\ ClosesAt(D(k)) <= clock
                                        THEN ClosesAt(D(k)) ELSE Null
  BY <1>1, ProbeIs
<1>5. \A k \in 0..9 : ClosesAt(D(k)) # Null
  BY <1>2, <1>3 DEF Null
<1>6. PICK k \in 0..9 : FirstClosed(clock, k) /\ LastClose(clock) = Probe(clock, k)
  BY <1>1, LastCloseIs
<1>7. Trading(KindOf(D(k))) /\ ClosesAt(D(k)) <= clock /\ LastClose(clock) = ClosesAt(D(k))
  BY <1>4, <1>6 DEF FirstClosed
<1>8. /\ clock - 48 * k - 58 < D(k) * 48 /\ D(k) * 48 <= clock - 48 * k - 8
  BY <1>1, DayAtIs
<1>9. ClosesAt(D(k)) \in rung
  <2>1. D(k) \in Days
    BY <1>1, <1>2, <1>8, DaysAre
  <2> QED
    BY <1>7, <2>1, BellsAre
<1>10. ASSUME NEW b \in rung
       PROVE  b <= ClosesAt(D(k))
  <2>1. PICK day \in Days : Trading(KindOf(day)) /\ b = ClosesAt(day)
    BY BellsAre
  <2>2. day \in Int /\ day >= -20
    BY DaysAre
  <2>3. /\ CloseMinFor(KindOf(day)) \in {26, 32} /\ DayOff(day) \in {-5, -4}
        /\ ClosesAt(day) = day * 48 + CloseMinFor(KindOf(day)) - DayOff(day) * 2
        /\ ClosesAt(day) <= clock
    BY <1>3, <2>1, <2>2
  <2>4. SUFFICES ASSUME day > D(k)
                 PROVE  FALSE
    <3> DEFINE e == D(k)
    <3>1. /\ e \in Int /\ CloseMinFor(KindOf(e)) \in {26, 32} /\ DayOff(e) \in {-5, -4}
          /\ ClosesAt(e) = e * 48 + CloseMinFor(KindOf(e)) - DayOff(e) * 2
      BY <1>2, <1>3
    <3> HIDE DEF e
    <3>2. day < e => b <= ClosesAt(e)
      BY <2>1, <2>2, <2>3, <3>1
    <3>3. day = e => b <= ClosesAt(e)
      BY <2>1, <2>3, <3>1
    <3> QED
      BY <2>2, <3>1, <3>2, <3>3 DEF e
  <2>5. day <= D(0)
    <3>1. 0 \in 0..9
      OBVIOUS
    <3>2. clock - 58 < D(0) * 48 /\ D(0) \in Int
      BY <1>1, <1>2, <3>1, DayAtIs
    <3> QED
      BY <1>1, <2>2, <2>3, <3>2
  <2>6. PICK j \in 0..9 : j < k /\ D(j) >= day /\ D(j + 1) < day
    <3> DEFINE S == {n \in 0..9 : D(n) < day}
    <3>1. k \in S
      BY <2>4
    <3>2. PICK n \in S : \A i \in S : n <= i
      <4>1. S \subseteq 0..9
        OBVIOUS
      <4> HIDE DEF S
      <4> QED
        BY <3>1, <4>1, SMT
    <3>3. n # 0
      BY <1>2, <2>2, <2>5
    <3>4. n - 1 \in 0..9 /\ n - 1 \notin S /\ (n - 1) + 1 = n /\ n - 1 < k
      BY <3>1, <3>2, <3>3
    <3> QED
      BY <1>2, <2>2, <3>4
  <2>7. /\ D(j + 1) <= D(j)
        /\ (D(j) = D(j + 1) \/ D(j) = D(j + 1) + 1
              \/ (D(j) = D(j + 1) + 2 /\ WeekDay(D(j + 1) + 1) = 0))
    <3>1. j \in 0..8
      BY <2>6
    <3> QED
      BY <1>1, <3>1, NextDayAt
  <2>8. D(j) = day
    <3> DEFINE d == D(j)
               e == D(j + 1)
    <3>1. d \in Int /\ e \in Int /\ e < day /\ day <= d
      <4>1. j + 1 \in 0..9
        BY <2>6
      <4> QED
        BY <1>2, <2>2, <2>6, <4>1
    <3>2. d = e \/ d = e + 1 \/ (d = e + 2 /\ WeekDay(e + 1) = 0)
      BY <2>7
    <3>3. WeekDay(day) # 0
      BY <2>1 DEF KindOf, DayKind, Trading
    <3> HIDE DEF d, e
    <3>4. day = d \/ (day = e + 1 /\ WeekDay(e + 1) = 0)
      BY <2>2, <3>1, <3>2
    <3> QED
      BY <3>3, <3>4 DEF d
  <2>9. Probe(clock, j) # Null
    BY <1>4, <1>5, <2>1, <2>3, <2>8
  <2> QED
    BY <1>6, <2>6, <2>9 DEF FirstClosed
<1> QED
  BY <1>7, <1>9, <1>10 DEF LastCloseIsLatest

-----------------------------------------------------------------------------
(* The next flip is the next bell. *)

\* NextFlipIsNextBell, of any clock within its span: a Tuesday opens within eight days.
LEMMA NextIsNext ==
  ASSUME InSpan
  PROVE  NextFlipIsNextBell
<1> DEFINE rings == {b \in OpeningBells \cup ClosingBells : b > clock}
           ahead == {t \in Changes : clock < t /\ t <= clock + 8 * Day}
           upcoming == NextFlip(clock)
<1>1. clock \in Nat /\ clock \in Int /\ clock >= 0 /\ 8 * Day = 384
  BY DEF InSpan, Day, Hour
<1>2. \A day \in Int : day >= -350 =>
        /\ CloseMinFor(KindOf(day)) \in {26, 32} /\ DayOff(day) \in {-5, -4}
        /\ OpensAt(day) = day * 48 + 19 - DayOff(day) * 2
        /\ ClosesAt(day) = day * 48 + CloseMinFor(KindOf(day)) - DayOff(day) * 2
  BY BellsOf
<1>3. \A t : t \in Changes <=>
        \E span \in Spans :
          t \in span[1] + 1 .. span[2] + 8 * Day /\ Status(t) # Status(t - 1)
  BY DEF Changes
<1>4. ASSUME NEW t \in ahead
      PROVE  t \in Nat /\ clock < t /\ t <= clock + 384 /\ Rings(t)
  <2>1. PICK span \in Spans :
          t \in span[1] + 1 .. span[2] + 8 * Day /\ Status(t) # Status(t - 1)
    BY <1>3
  <2>2. span[1] \in Nat /\ span[2] \in Nat
    BY SpansAssumption
  <2>3. t \in Int /\ clock < t /\ t <= clock + 384
    BY <1>1, <2>1, <2>2
  <2> QED
    BY <1>1, <2>1, <2>3, StatusChanges
<1>5. ASSUME NEW t \in Int, clock < t, t <= clock + 384, Rings(t)
      PROVE  t \in ahead
  <2>1. PICK span \in Spans : span[1] <= clock /\ clock <= span[2]
    BY DEF InSpan
  <2>2. span[1] \in Nat /\ span[2] \in Nat
    BY SpansAssumption
  <2>3. t \in span[1] + 1 .. span[2] + 8 * Day
    BY <1>1, <1>5, <2>1, <2>2
  <2>4. Status(t) # Status(t - 1)
    BY <1>1, <1>5, StatusChanges
  <2> QED
    BY <1>1, <1>3, <1>5, <2>3, <2>4
<1> HIDE DEF ahead
<1>6. \A b \in rings : b \in Int /\ b > clock /\ Rings(b)
  <2> TAKE b \in rings
  <2>1. PICK day \in Days : Trading(KindOf(day)) /\ (b = OpensAt(day) \/ b = ClosesAt(day))
    BY BellsAre
  <2>2. day \in Int /\ day >= -350
    BY DaysAre
  <2> QED
    BY <1>2, <2>1, <2>2 DEF Rings
<1>7. ASSUME NEW t \in ahead
      PROVE  t \in rings
  <2>1. t \in Int /\ clock < t /\ t <= clock + 384
    BY <1>4
  <2>2. PICK day \in Int : /\ day >= -350 /\ Trading(KindOf(day))
                           /\ (t = OpensAt(day) \/ t = ClosesAt(day))
    BY <1>4 DEF Rings
  <2>3. day * 48 >= clock - 900 /\ day * 48 <= clock + 900
    BY <1>1, <1>2, <2>1, <2>2
  <2>4. day \in Days
    BY <2>3, DaysAre
  <2> QED
    BY <2>1, <2>2, <2>4, BellsAre
<1>8. ahead # {}
  <2> DEFINE a == clock \div 48
             k == (4 - a) % 7
             w == a + 1 + k
  <2>1. a \in Int /\ a >= 0 /\ a * 48 <= clock /\ clock < a * 48 + 48 /\ k \in 0..6
    BY <1>1, SMT
  <2> HIDE DEF a
  <2>2. WeekDay(w) = 2
    BY <2>1, SMT DEF WeekDay
  <2> HIDE DEF k
  <2>3. w \in Int /\ w >= -350 /\ w >= -365
    BY <2>1
  <2>4. Trading(KindOf(w))
    BY <2>2, <2>3, TuesdayTrades DEF KindOf
  <2> DEFINE o == OpensAt(w)
  <2>5. o \in Int /\ clock < o /\ o <= clock + 384
    BY <1>1, <1>2, <2>1, <2>3
  <2>6. Rings(o)
    BY <2>3, <2>4 DEF Rings
  <2> QED
    BY <1>5, <2>5, <2>6
<1>9. PICK t \in ahead : \A u \in ahead : t <= u
  <2>1. ahead \subseteq Nat
    BY <1>4
  <2> QED
    BY <1>8, <2>1, SmallestNat
<1>10. upcoming \in ahead /\ \A u \in ahead : upcoming <= u
  <2>1. upcoming = CHOOSE x \in ahead : \A u \in ahead : x <= u
    BY <1>8, Zenon DEF NextFlip, ahead
  <2> QED
    BY <1>9, <2>1, Zenon
<1> HIDE DEF upcoming
<1>11. \A b \in rings : upcoming <= b
  <2> TAKE b \in rings
  <2>1. b \in Int /\ clock < b /\ Rings(b)
    BY <1>6
  <2>2. upcoming \in Nat /\ upcoming <= clock + 384
    BY <1>4, <1>10
  <2>3. CASE b <= clock + 384
    BY <1>5, <1>10, <2>1, <2>3
  <2>4. CASE b > clock + 384
    BY <1>1, <2>1, <2>2, <2>4
  <2> QED
    BY <1>1, <2>1, <2>3, <2>4
<1> QED
  BY <1>7, <1>10, <1>11, Zenon DEF NextFlipIsNextBell, upcoming

-----------------------------------------------------------------------------
(* The theorems. *)

\* The clock never leaves the span it started in.
LEMMA ClockStays == FeedSpec => []InSpan
<1>1. FeedInit => InSpan
  BY SpansAssumption DEF FeedInit, InSpan
<1>2. InSpan /\ [FeedTick]_clock => InSpan'
  <2> SUFFICES ASSUME InSpan, [FeedTick]_clock
               PROVE  InSpan'
    OBVIOUS
  <2>1. PICK span \in Spans : span[1] <= clock /\ clock <= span[2]
    BY DEF InSpan
  <2>2. span[1] \in Nat /\ span[2] \in Nat /\ clock \in Nat
    BY SpansAssumption DEF InSpan
  <2>3. CASE FeedTick
    <3>1. clock # span[2] /\ clock' = clock + 1
      BY <2>3 DEF FeedTick
    <3>2. clock' \in Nat /\ span[1] <= clock' /\ clock' <= span[2]
      BY <2>1, <2>2, <3>1
    <3> QED
      BY <3>2 DEF InSpan
  <2>4. CASE UNCHANGED clock
    BY <2>4 DEF InSpan
  <2> QED
    BY <2>3, <2>4
<1> QED
  BY <1>1, <1>2, PTL DEF FeedSpec

\* Whatever the Clock sysvar reads, the deployed program writes the status, last close,
\* calendar, date and offset that campana.mjs computes of the same timestamp.
THEOREM ProgramIsReference == FeedSpec => []ProgramAgrees
<1>1. InSpan => ProgramAgrees
  BY StatesAgree DEF InSpan
<1> QED
  BY <1>1, ClockStays, PTL

\* marketStatus is open exactly between the bells of a trading day, and the bounds it
\* reports are that day's bells, whatever the offset, the UTC date and the UTC year.
THEOREM MarketOpensBetweenBells == FeedSpec => []OpenBetweenBells
<1>1. InSpan => OpenBetweenBells
  BY SessionsOpen
<1> QED
  BY <1>1, ClockStays, PTL

\* The walk back of ten probes finds the latest closing bell: the one day a probe can
\* skip is the Sunday on which summer time starts.
THEOREM WalkFindsTheLastClose == FeedSpec => []LastCloseIsLatest
<1>1. InSpan => LastCloseIsLatest
  BY LastIsLatest
<1> QED
  BY <1>1, ClockStays, PTL

\* The keeper's scan of eight days finds the next bell and none later.
THEOREM ScanFindsTheNextBell == FeedSpec => []NextFlipIsNextBell
<1>1. InSpan => NextFlipIsNextBell
  BY NextIsNext
<1> QED
  BY <1>1, ClockStays, PTL

-----------------------------------------------------------------------------
(***************************************************************************)
(* The keeper.  A running one never sleeps more than one poll past a flip, *)
(* and the account is never wrong for longer than that, the calls and the  *)
(* failures explain: for any schedule and any durations in the order of    *)
(* the code's, whatever is suspended, lost, late or restarted meanwhile.   *)
(*                                                                         *)
(* One timer takes at most a poll.  That a second one is not added to it   *)
(* once the flip is past rests on where the target lies: within the grace  *)
(* of the flip, or within the floor of the crank it was computed after.    *)
(*                                                                         *)
(* How long the account has been wrong is bounded phase by phase: asleep   *)
(* by the time overslept, in a call by what it took to start it, in a      *)
(* pause by the credit its failure was given.  Two clocks make the         *)
(* difference: a crank may land before the chain's has crossed the flip,   *)
(* and a crank may land after the chain's has crossed the next one.        *)
(***************************************************************************)

(* Least and greatest of two, and the next of the flips. *)

LEMMA LesserOf ==
  ASSUME NEW a \in Int, NEW b \in Int
  PROVE  Min({a, b}) = IF a <= b THEN a ELSE b
  BY DEF Min

LEMMA GreaterOf ==
  ASSUME NEW a \in Int, NEW b \in Int
  PROVE  Max({a, b}) = IF a >= b THEN a ELSE b
  BY DEF Max

LEMMA EarliestFlip ==
  ASSUME NEW S, S \subseteq Nat, S # {}
  PROVE  Min(S) \in S /\ \A y \in S : Min(S) <= y
<1>1. PICK x \in S : \A y \in S : x <= y
  BY SmallestNat
<1> QED
  BY <1>1, Zenon DEF Min

LEMMA FlipAfterIsATime ==
  ASSUME NEW t
  PROVE  FlipAfter(t) \in Nat \cup {NoFlip}
<1> DEFINE later == {f \in Flips : f > t}
<1>1. later \subseteq Nat
  <2>1. Flips \subseteq Nat
    BY ScheduleAssumption, DurationAssumption
  <2> QED
    BY <2>1, Zenon
<1>2. CASE later = {}
  BY <1>2 DEF FlipAfter
<1>3. CASE later # {}
  <2>1. Min(later) \in later
    BY <1>1, <1>3, EarliestFlip
  <2>2. FlipAfter(t) = Min(later)
    BY <1>3, Zenon DEF FlipAfter
  <2> QED
    BY <1>1, <2>1, <2>2
<1> QED
  BY <1>2, <1>3

-----------------------------------------------------------------------------
(* The invariant. *)

Times ==
  /\ now \in 0..MaxTime
  /\ flip \in Nat \cup {NoFlip}
  /\ target \in Int /\ target <= MaxTime
  /\ overslept \in Nat

\* The timer that is running ends within the poll.
OneTimer == wait \in 0..Poll /\ overslept + wait <= Poll

FlipIsPast == flip # NoFlip /\ now >= flip

\* Where a target that is still ahead may lie.
TargetIsNear ==
  now < target =>
    /\ ~FlipIsPast => overslept = 0
    /\ flip # NoFlip => target <= flip + Grace \/ overslept + target - now <= Floor
    /\ FlipIsPast => overslept + target - now <= Poll

IInv ==
  /\ Times
  /\ pc # "sleeping" => overslept = 0
  /\ pc = "sleeping" => OneTimer /\ TargetIsNear

LEMMA InitIsOnTime == Init => IInv
  BY DurationAssumption, ScheduleAssumption
  DEF Init, IInv, Times, OneTimer, TargetIsNear, FlipIsPast, NoFlip

\* Whatever leads to a crank, or leaves the timer and the clock alone, is on time.
LEMMA CrankIsOnTime ==
  ASSUME IInv, UNCHANGED <<now, flip, target>>, overslept' = 0, pc' # "sleeping"
  PROVE  IInv'
  BY DEF IInv, Times

\* One more timer is set only when the time left to the target allows it.
LEMMA PassIsOnTime ==
  ASSUME Times, TargetIsNear, now' = now, flip' = flip, target' = target,
         NEW h, SleepPass(target, h)
  PROVE  IInv'
<1>1. CASE StartCrank
  BY <1>1 DEF StartCrank, IInv, Times
<1>2. CASE /\ now < target
           /\ pc' = "sleeping" /\ wait' = Min({Poll, target - now})
           /\ overslept' = overslept
  <2>1. Poll \in Nat /\ now \in Int /\ target \in Int /\ overslept \in Nat
    BY DurationAssumption DEF Times
  <2>2. wait' = IF Poll <= target - now THEN Poll ELSE target - now
    BY <1>2, <2>1, LesserOf
  <2>3. OneTimer'
    BY <1>2, <2>1, <2>2 DEF OneTimer, TargetIsNear, FlipIsPast
  <2>4. TargetIsNear'
    BY <1>2 DEF TargetIsNear, FlipIsPast
  <2> QED
    BY <1>2, <2>3, <2>4 DEF IInv, Times
<1> QED
  BY <1>1, <1>2 DEF SleepPass

-----------------------------------------------------------------------------
(* The steps. *)

LEMMA CranksKeep == IInv /\ (Lands \/ OtherCrank) => IInv'
  BY DEF Lands, OtherCrank, Crank, timers, IInv, Times, OneTimer, TargetIsNear, FlipIsPast

LEMMA ConfirmedKeeps == IInv /\ Confirmed => IInv'
<1> SUFFICES ASSUME IInv, Confirmed
             PROVE  IInv'
  OBVIOUS
<1> DEFINE wakeTs == IF flip' = NoFlip THEN now + Heartbeat
                     ELSE Min({flip' + Grace, now + Heartbeat})
           late == Max({wakeTs, now + Floor})
<1>1. /\ {Poll, Floor, Grace, Heartbeat, MaxTime} \subseteq Nat
      /\ Grace <= Poll /\ Floor <= Poll /\ now \in 0..MaxTime /\ overslept = 0
  BY DurationAssumption DEF IInv, Times, Confirmed
<1>2. flip' \in Nat \cup {NoFlip} /\ now' = now /\ target' = Min({late, MaxTime})
  BY FlipAfterIsATime DEF Confirmed, env
<1>3. wakeTs \in Int /\ (flip' # NoFlip => wakeTs <= flip' + Grace)
  BY <1>1, <1>2, LesserOf
<1> HIDE DEF wakeTs
<1>4. late = (IF wakeTs >= now + Floor THEN wakeTs ELSE now + Floor)
  BY <1>1, <1>3, GreaterOf
<1> HIDE DEF late
<1>5. late \in Int /\ target' = (IF late <= MaxTime THEN late ELSE MaxTime)
  BY <1>1, <1>2, <1>3, <1>4, LesserOf
<1>6. /\ target' \in Int /\ target' <= MaxTime
      /\ flip' # NoFlip => target' <= flip' + Grace \/ target' - now <= Floor
  <2>1. target' \in Int /\ target' <= MaxTime /\ target' <= late
    BY <1>1, <1>5
  <2>2. ASSUME flip' # NoFlip
        PROVE  target' <= flip' + Grace \/ target' - now <= Floor
    <3>1. flip' \in Nat /\ wakeTs <= flip' + Grace
      BY <1>2, <1>3, <2>2
    <3> QED
      BY <1>1, <1>3, <1>4, <2>1, <3>1
  <2> QED
    BY <2>1, <2>2
<1>7. CASE StartCrank
  BY <1>1, <1>2, <1>6, <1>7 DEF StartCrank, IInv, Times
<1>8. CASE /\ now < target'
           /\ pc' = "sleeping" /\ wait' = Min({Poll, target' - now})
           /\ overslept' = overslept
  <2>1. wait' = IF Poll <= target' - now THEN Poll ELSE target' - now
    BY <1>1, <1>6, <1>8, LesserOf
  <2>2. OneTimer'
    BY <1>1, <1>6, <1>8, <2>1 DEF OneTimer
  <2>3. TargetIsNear'
    BY <1>1, <1>2, <1>6, <1>8 DEF TargetIsNear, FlipIsPast
  <2> QED
    BY <1>1, <1>2, <1>6, <1>8, <2>2, <2>3 DEF IInv, Times
<1> QED
  BY <1>7, <1>8 DEF Confirmed, SleepPass

LEMMA PollKeeps == IInv /\ PollFires => IInv'
<1> SUFFICES ASSUME IInv, PollFires
             PROVE  IInv'
  OBVIOUS
<1>1. Times /\ TargetIsNear
  BY DEF IInv, PollFires
<1>2. now' = now /\ flip' = flip /\ target' = target /\ SleepPass(target, hold)
  BY DEF PollFires, env
<1> QED
  BY <1>1, <1>2, PassIsOnTime

LEMMA FailuresKeep == IInv /\ (CrankFails \/ RetryFires \/ Restart) => IInv'
  BY DEF CrankFails, RetryFires, Restart, StartCrank, env, IInv, Times

LEMMA CrashKeeps == IInv /\ Crash => IInv'
  BY DurationAssumption DEF Crash, env, IInv, Times, NoFlip

LEMMA HostKeeps == IInv /\ (Suspend \/ Resume) => IInv'
  BY DEF Suspend, Resume, timers, IInv, Times, OneTimer, TargetIsNear, FlipIsPast

LEMMA TickKeeps == IInv /\ Tick => IInv'
<1> SUFFICES ASSUME IInv, Tick
             PROVE  IInv'
  OBVIOUS
<1> DEFINE late == now >= target \/ (flip # NoFlip /\ now >= flip)
<1>1. /\ Poll \in Nat /\ MaxTime \in Nat
      /\ now \in 0..MaxTime /\ flip \in Nat \cup {NoFlip}
      /\ target \in Int /\ target <= MaxTime /\ overslept \in Nat
  BY DurationAssumption DEF IInv, Times
<1>2. /\ now' = IF now < MaxTime THEN now + 1 ELSE now
      /\ flip' = flip /\ target' = target /\ pc' = pc
  BY DEF Tick
<1>3. CASE pc # "sleeping"
  <2>1. overslept' = 0
    BY <1>3 DEF Tick, IInv
  <2> QED
    BY <1>1, <1>2, <1>3, <2>1 DEF IInv, Times
<1>4. CASE pc = "sleeping" /\ ~awake
  <2>1. wait' = wait /\ overslept' = overslept
    BY <1>4 DEF Tick
  <2>2. OneTimer /\ TargetIsNear
    BY <1>4 DEF IInv
  <2>3. OneTimer'
    BY <2>1, <2>2 DEF OneTimer
  <2>4. TargetIsNear'
    BY <1>1, <1>2, <2>1, <2>2, DurationAssumption DEF TargetIsNear, FlipIsPast, NoFlip
  <2> QED
    BY <1>1, <1>2, <1>4, <2>1, <2>3, <2>4 DEF IInv, Times
<1>5. CASE pc = "sleeping" /\ awake
  <2>1. OneTimer /\ TargetIsNear
    BY <1>5 DEF IInv
  <2>2. wait > 0 /\ wait' = wait - 1
    BY <1>5 DEF Tick, TimerOn
  <2>3. CountedTo(Poll, overslept + 1) = overslept + 1
    <3>1. CountedTo(Poll, overslept + 1)
            = IF Poll + 1 <= overslept + 1 THEN Poll + 1 ELSE overslept + 1
      BY <1>1, LesserOf DEF CountedTo
    <3> QED
      BY <1>1, <2>1, <2>2, <3>1 DEF OneTimer
  <2>4. overslept' = IF late THEN overslept + 1 ELSE overslept
    BY <1>5, <2>3 DEF Tick
  <2>5. OneTimer'
    BY <1>1, <2>1, <2>2, <2>4 DEF OneTimer
  <2>6. TargetIsNear'
    BY <1>1, <1>2, <2>1, <2>4, DurationAssumption DEF TargetIsNear, FlipIsPast, NoFlip
  <2> QED
    BY <1>1, <1>2, <1>5, <2>4, <2>5, <2>6 DEF IInv, Times
<1> QED
  BY <1>3, <1>4, <1>5

LEMMA StepsKeep == IInv /\ [Next]_vars => IInv'
<1>1. IInv /\ UNCHANGED vars => IInv'
  BY DEF vars, env, timers, IInv, Times, OneTimer, TargetIsNear, FlipIsPast
<1> QED
  BY <1>1, CranksKeep, ConfirmedKeeps, PollKeeps, FailuresKeep, CrashKeeps, HostKeeps,
     TickKeeps DEF Next, Keeper

-----------------------------------------------------------------------------
\* "The keeper now notices within 60s of wake" (keeper.mjs): for any bells, any
\* durations with the grace and the floor within the poll, any lag of the chain's clock
\* and any failures, crashes and suspensions, a running keeper never sleeps more than
\* one poll past a flip or its heartbeat.
THEOREM KeeperNotices == Spec => []NoticesWithinPoll
<1>1. IInv => NoticesWithinPoll
  BY DurationAssumption DEF IInv, Times, OneTimer, NoticesWithinPoll
<1> QED
  BY <1>1, InitIsOnTime, StepsKeep, PTL DEF Spec

-----------------------------------------------------------------------------
(* The bells: what the clocks have passed, and what an account written then says. *)

LEMMA FlipsType == Flips \in SUBSET Nat /\ \A t \in Int : IsFiniteSet(Before(t))
<1>1. Flips \in SUBSET (1..MaxTime) /\ MaxTime \in Nat
  BY ScheduleAssumption, DurationAssumption
<1>2. IsFiniteSet(Flips)
  <2>1. IsFiniteSet(1..MaxTime)
    BY <1>1, FS_Interval
  <2> QED
    BY <1>1, <2>1, FS_Subset
<1>3. \A t \in Int : Before(t) \in SUBSET Flips
  BY DEF Before
<1> QED
  BY <1>1, <1>2, <1>3, FS_Subset

\* Between two times with no flip between them nothing changes.
LEMMA SameStatus ==
  ASSUME NEW s \in Int, NEW t \in Int, \A f \in Flips : f <= s <=> f <= t
  PROVE  StatusAt(s) = StatusAt(t)
<1>1. Before(s) = Before(t)
  BY DEF Before
<1> QED
  BY <1>1 DEF StatusAt

\* At a flip the status changes.
LEMMA FlipToggles ==
  ASSUME NEW t \in Int, t + 1 \in Flips
  PROVE  StatusAt(t + 1) # StatusAt(t)
<1> DEFINE n == Cardinality(Before(t))
<1>1. Before(t + 1) = Before(t) \cup {t + 1}
  <2>1. \A f \in Flips : f \in Nat
    BY FlipsType
  <2>2. \A f \in Flips : f <= t + 1 <=> f <= t \/ f = t + 1
    BY <2>1
  <2> QED
    BY <2>2 DEF Before
<1>2. t + 1 \notin Before(t)
  BY DEF Before
<1>3. n \in Nat /\ Cardinality(Before(t + 1)) = n + 1
  BY <1>1, <1>2, FlipsType, FS_CardinalityType, FS_AddElement
<1> HIDE DEF n
<1>4. (n + 1) % 2 = 0 <=> ~(n % 2 = 0)
  BY <1>3
<1> QED
  BY <1>3, <1>4 DEF StatusAt, n

LEMMA FlipBetween ==
  ASSUME NEW s \in Int, NEW t \in Int, StatusAt(s) # StatusAt(t)
  PROVE  \E f \in Flips : (s < f /\ f <= t) \/ (t < f /\ f <= s)
<1>1. PICK f \in Flips : ~(f <= s <=> f <= t)
  BY SameStatus
<1>2. f \in Nat
  BY FlipsType
<1>3. CASE f <= s
  BY <1>1, <1>2, <1>3
<1>4. CASE ~(f <= s)
  BY <1>1, <1>2, <1>4
<1> QED
  BY <1>3, <1>4

\* The next flip is the first of those to come.
LEMMA FlipAfterIsFirst ==
  ASSUME NEW t, NEW f \in Flips, f > t
  PROVE  FlipAfter(t) # NoFlip /\ FlipAfter(t) <= f
<1> DEFINE later == {g \in Flips : g > t}
<1>1. later \subseteq Nat /\ f \in later
  BY FlipsType
<1>2. FlipAfter(t) = Min(later)
  BY <1>1 DEF FlipAfter
<1> HIDE DEF later
<1>3. Min(later) \in later /\ \A g \in later : Min(later) <= g
  BY <1>1, EarliestFlip
<1> QED
  BY <1>1, <1>2, <1>3 DEF NoFlip

\* Was the account written by a clock that had passed a flip still to come?
Ahead == \E f \in Flips : now < f /\ f <= account.updatedTs

-----------------------------------------------------------------------------
(* How long the account has been wrong. *)

\* What a failure costs, and n of them.
Cost == MaxRpc + Retry
Credit(n) == n * Cost

\* The longest before the call that puts it right begins: a poll, or the last call that
\* landed too early.
Delay == Max({Poll, MaxLag + MaxRpc})

Clocks ==
  /\ chain \in Int /\ chain >= now - MaxLag /\ chain <= now + MaxLead
  /\ account = Written(account.updatedTs)
  /\ account.updatedTs \in Int /\ account.updatedTs <= chain

Timers ==
  /\ pc \in {"sending", "landed", "backoff", "sleeping", "down"}
  /\ fails \in 0..MaxFails
  /\ Calling => wait \in 0..MaxRpc
  /\ pc = "backoff" => wait \in 0..Retry /\ fails > 0

\* The keeper sleeps towards the first flip the account does not know of, or an earlier.
FlipIsNext ==
  pc = "sleeping" =>
    \A f \in Flips : account.updatedTs < f => flip # NoFlip /\ flip <= f

\* Unless the account is ahead, how long it may have been wrong in each phase.
InPhase ==
  ~Ahead =>
    /\ pc = "sleeping" => stale <= overslept
    /\ pc = "sending" => stale <= Delay + Credit(fails) + wait
    /\ pc = "landed" => stale <= MaxLag + wait
    /\ pc = "backoff" => stale + wait <= Delay + Credit(fails)
    /\ pc = "down" => stale <= Delay + Credit(fails)

\* A chain that has not crossed a flip has kept the account wrong since that flip at
\* most, and one that was written ahead of a flip is right again when it comes.
LagAndLead ==
  /\ \A f \in Flips : chain < f /\ f <= now => stale <= now - f
  /\ Ahead => \E f \in Flips : /\ now < f /\ f <= account.updatedTs
                               /\ stale + (f - now) <= Noticed + Credit(fails) + MaxLead

StaleInv ==
  /\ IInv /\ Clocks /\ Timers /\ FlipIsNext
  /\ stale \in Nat /\ (InSync => stale = 0)
  /\ InPhase /\ LagAndLead

LEMMA Durations ==
  /\ {Poll, Retry, Floor, Heartbeat, MaxRpc} \subseteq Nat \ {0}
  /\ {Grace, MaxLag, MaxLead, MaxTime, MaxFails, MaxSuspends} \subseteq Nat
  /\ Delay \in Nat /\ Poll <= Delay /\ MaxLag + MaxRpc <= Delay
  /\ Noticed = Delay + MaxRpc /\ Cost \in Nat /\ Cost = MaxRpc + Retry
<1>1. /\ {Poll, Retry, Floor, Heartbeat, MaxRpc} \subseteq Nat \ {0}
      /\ {Grace, MaxLag, MaxLead, MaxTime, MaxFails, MaxSuspends} \subseteq Nat
  BY DurationAssumption
<1>2. Delay = IF Poll >= MaxLag + MaxRpc THEN Poll ELSE MaxLag + MaxRpc
  BY <1>1, GreaterOf DEF Delay
<1>3. Noticed = IF Poll + MaxRpc >= MaxLag + 2 * MaxRpc THEN Poll + MaxRpc
                ELSE MaxLag + 2 * MaxRpc
  BY <1>1, GreaterOf DEF Noticed
<1> QED
  BY <1>1, <1>2, <1>3 DEF Cost

LEMMA Credits ==
  ASSUME NEW n \in Nat
  PROVE  /\ Credit(n) \in Nat /\ Credit(n + 1) = Credit(n) + Cost
         /\ n > 0 => Credit(n) >= Cost
         /\ n <= MaxFails => Credit(n) <= MaxFails * (MaxRpc + Retry)
<1>1. Cost \in Nat /\ MaxFails \in Nat /\ Cost = MaxRpc + Retry
  BY Durations
<1> DEFINE c == Cost
<1> HIDE DEF c
<1>2. c \in Nat
  BY <1>1 DEF c
<1>3. n * c \in Nat /\ (n + 1) * c = n * c + c
  BY <1>2
<1>4. n > 0 => n * c >= c
  BY <1>2
<1>5. n <= MaxFails => n * c <= MaxFails * c
  BY <1>1, <1>2
<1> QED
  BY <1>1, <1>3, <1>4, <1>5 DEF Credit, c

LEMMA TimesType ==
  ASSUME StaleInv
  PROVE  /\ now \in Nat /\ chain \in Int /\ account.updatedTs \in Int /\ fails \in Nat
         /\ stale \in Nat /\ overslept \in Nat /\ Credit(fails) \in Nat
         /\ \A f \in Flips : f \in Nat
<1>1. now \in 0..MaxTime /\ MaxTime \in Nat /\ MaxFails \in Nat
  BY Durations DEF StaleInv, IInv, Times
<1>2. fails \in Nat
  BY <1>1 DEF StaleInv, Timers
<1> QED
  BY <1>1, <1>2, Credits, FlipsType DEF StaleInv, Clocks, IInv, Times

\* Whatever the phase: a failure more may happen only if it is counted.
LEMMA PhaseBound ==
  ASSUME StaleInv, ~Ahead
  PROVE  stale <= Noticed + Credit(fails)
<1>1. /\ stale \in Nat /\ overslept \in Nat /\ Credit(fails) \in Nat /\ MaxRpc \in Nat
      /\ Delay \in Nat /\ Poll \in Nat /\ Poll <= Delay /\ MaxLag \in Nat /\ Retry \in Nat
      /\ MaxLag + MaxRpc <= Delay /\ Noticed = Delay + MaxRpc
  BY TimesType, Durations
<1>2. CASE pc = "sleeping"
  <2>1. stale <= overslept /\ wait \in 0..Poll /\ overslept + wait <= Poll
    BY <1>2 DEF StaleInv, InPhase, IInv, OneTimer
  <2> QED
    BY <1>1, <2>1
<1>3. CASE pc \in {"sending", "landed"}
  <2>1. wait \in 0..MaxRpc
    BY <1>3 DEF StaleInv, Timers, Calling
  <2>2. stale <= Delay + Credit(fails) + wait \/ stale <= MaxLag + wait
    BY <1>3 DEF StaleInv, InPhase
  <2> QED
    BY <1>1, <2>1, <2>2
<1>4. CASE pc = "backoff"
  <2>1. wait \in 0..Retry /\ stale + wait <= Delay + Credit(fails)
    BY <1>4 DEF StaleInv, InPhase, Timers
  <2> QED
    BY <1>1, <2>1
<1>5. CASE pc = "down"
  <2>1. stale <= Delay + Credit(fails)
    BY <1>5 DEF StaleInv, InPhase
  <2> QED
    BY <1>1, <2>1
<1> QED
  BY <1>2, <1>3, <1>4, <1>5 DEF StaleInv, Timers

LEMMA StartsRight == Init => StaleInv
<1> SUFFICES ASSUME Init
             PROVE  StaleInv
  OBVIOUS
<1>1. /\ IInv /\ now \in Nat /\ \A f \in Flips : f \in Nat
      /\ account.updatedTs = 0 /\ account = Written(0)
  BY InitIsOnTime, FlipsType DEF Init, Written, IInv, Times
<1>2. /\ MaxLag \in Nat /\ MaxLead \in Nat /\ MaxFails \in Nat /\ MaxRpc \in Nat
      /\ Delay \in Nat /\ Credit(0) \in Nat
  BY Durations, Credits
<1>3. ~Ahead
  BY <1>1 DEF Ahead
<1>4. \A f \in Flips : ~(chain < f /\ f <= now)
  BY <1>1 DEF Init
<1> QED
  BY <1>1, <1>2, <1>3, <1>4
  DEF Init, StaleInv, Clocks, Timers, Calling, FlipIsNext, InPhase, LagAndLead

-----------------------------------------------------------------------------
(* The steps again. *)

\* A crank that does not put the account right landed within the chain's lag of a flip,
\* or ahead of one.
LEMMA CrankInTime ==
  ASSUME StaleInv, Crank, pc' = pc \/ (pc = "sending" /\ pc' = "landed"), IInv'
  PROVE  StaleInv'
<1>1. /\ account' = Written(chain) /\ account'.updatedTs = chain
      /\ account'.status = StatusAt(chain)
      /\ stale' = (IF StatusAt(chain) = StatusAt(now) THEN 0 ELSE stale)
      /\ UNCHANGED <<now, chain, awake, wait, flip, target, hold, fails, overslept>>
  BY DEF Crank, timers, Written
<1>2. /\ now \in Nat /\ chain \in Int /\ account.updatedTs \in Int /\ stale \in Nat
      /\ overslept \in Nat /\ Credit(fails) \in Nat /\ Credit(fails)' = Credit(fails)
      /\ \A f \in Flips : f \in Nat
  BY <1>1, TimesType DEF Credit, Cost
<1>3. /\ chain >= now - MaxLag /\ chain <= now + MaxLead /\ account.updatedTs <= chain
      /\ MaxLag \in Nat /\ MaxLead \in Nat /\ Noticed \in Nat /\ MaxRpc \in Nat
  BY Durations DEF StaleInv, Clocks
<1>4. stale' \in Nat /\ stale' <= stale /\ (InSync' => stale' = 0)
  BY <1>1, <1>2 DEF InSync
<1>5. Clocks'
  BY <1>1, <1>2, <1>3 DEF StaleInv, Clocks
<1>6. Timers'
  BY <1>1 DEF StaleInv, Timers, Calling
<1>7. FlipIsNext'
  BY <1>1, <1>2, <1>3 DEF StaleInv, FlipIsNext
<1>8. Ahead => Ahead'
  BY <1>1, <1>2, <1>3 DEF Ahead
<1>9. ASSUME ~Ahead', pc' = "landed", pc = "sending"
      PROVE  stale' <= MaxLag + wait'
  <2>1. wait \in 0..MaxRpc /\ wait' = wait /\ stale' <= stale /\ stale' \in Nat /\ stale \in Nat
    BY <1>1, <1>2, <1>4, <1>9 DEF StaleInv, Timers, Calling
  <2>2. stale' <= MaxLag
    <3>1. CASE StatusAt(chain) = StatusAt(now)
      BY <1>1, <1>3, <3>1
    <3>2. CASE StatusAt(chain) # StatusAt(now)
      <4>1. PICK f \in Flips : chain < f /\ f <= now
        BY <1>1, <1>2, <1>9, <3>2, FlipBetween DEF Ahead
      <4>2. stale <= now - f
        BY <4>1 DEF StaleInv, LagAndLead
      <4>3. f \in Nat
        BY <1>2
      <4> QED
        BY <1>2, <1>3, <2>1, <4>1, <4>2, <4>3
    <3> QED
      BY <3>1, <3>2
  <2> QED
    BY <1>3, <2>1, <2>2
<1>10. InPhase'
  <2> SUFFICES ASSUME ~Ahead'
               PROVE  InPhase'
    BY DEF InPhase
  <2>1. CASE pc' = pc
    <3>1. InPhase /\ ~Ahead
      BY <1>8 DEF StaleInv
    <3>2. pc = "backoff" => wait \in Nat
      BY Durations DEF StaleInv, Timers
    <3>3. Calling => wait \in Nat
      BY Durations DEF StaleInv, Timers
    <3>4. Delay' = Delay /\ Delay \in Nat
      BY Durations
    <3> QED
      BY <1>1, <1>2, <1>3, <1>4, <2>1, <3>1, <3>2, <3>3, <3>4 DEF InPhase, Calling
  <2>2. CASE pc = "sending" /\ pc' = "landed"
    BY <1>9, <2>2 DEF InPhase
  <2> QED
    BY <2>1, <2>2
<1>11. LagAndLead'
  <2>1. \A f \in Flips : chain < f /\ f <= now => stale' <= now - f
    BY <1>2, <1>4 DEF StaleInv, LagAndLead
  <2>2. ASSUME Ahead'
        PROVE  \E f \in Flips : /\ now < f /\ f <= chain
                                /\ stale' + (f - now) <= Noticed + Credit(fails) + MaxLead
    <3>1. CASE Ahead
      <4>1. PICK f \in Flips : /\ now < f /\ f <= account.updatedTs
                               /\ stale + (f - now) <= Noticed + Credit(fails) + MaxLead
        BY <3>1 DEF StaleInv, LagAndLead
      <4> QED
        BY <1>2, <1>3, <1>4, <4>1
    <3>2. CASE ~Ahead
      <4>1. PICK f \in Flips : now < f /\ f <= chain
        BY <1>1, <2>2 DEF Ahead
      <4>2. stale <= Noticed + Credit(fails)
        BY <3>2, PhaseBound
      <4> QED
        BY <1>2, <1>3, <1>4, <4>1, <4>2
    <3> QED
      BY <3>1, <3>2
  <2> QED
    BY <1>1, <1>2, <2>1, <2>2 DEF LagAndLead
<1> QED
  BY <1>4, <1>5, <1>6, <1>7, <1>10, <1>11 DEF StaleInv

\* A step that leaves the clocks and the account alone.
LEMMA Still ==
  ASSUME StaleInv, UNCHANGED <<now, chain, account, stale>>,
         fails' = fails \/ (fails' = fails + 1 /\ fails < MaxFails)
  PROVE  /\ Clocks' /\ stale' \in Nat /\ (InSync' => stale' = 0) /\ LagAndLead'
         /\ Ahead' <=> Ahead
         /\ fails' \in 0..MaxFails /\ Credit(fails)' \in Nat /\ Credit(fails) <= Credit(fails)'
<1>1. /\ now \in Nat /\ stale \in Nat /\ Credit(fails) \in Nat /\ fails \in 0..MaxFails
      /\ MaxFails \in Nat /\ Noticed \in Nat /\ MaxLead \in Nat /\ Cost \in Nat
      /\ \A f \in Flips : f \in Nat
  BY TimesType, Durations DEF StaleInv, Timers
<1>2. fails' \in 0..MaxFails /\ Credit(fails)' = Credit(fails')
  BY <1>1 DEF Credit, Cost
<1>3. Credit(fails') \in Nat /\ Credit(fails) <= Credit(fails')
  BY <1>1, Credits
<1>4. Clocks' /\ stale' \in Nat /\ (InSync' => stale' = 0) /\ (Ahead' <=> Ahead)
  BY DEF StaleInv, Clocks, InSync, Ahead
<1>5. LagAndLead'
  <2>1. \A f \in Flips : chain < f /\ f <= now => stale <= now - f
    BY DEF StaleInv, LagAndLead
  <2>2. ASSUME Ahead
        PROVE  \E f \in Flips : /\ now < f /\ f <= account.updatedTs
                                /\ stale + (f - now) <= Noticed + Credit(fails') + MaxLead
    <3>1. PICK f \in Flips : /\ now < f /\ f <= account.updatedTs
                             /\ stale + (f - now) <= Noticed + Credit(fails) + MaxLead
      BY <2>2 DEF StaleInv, LagAndLead
    <3> QED
      BY <1>1, <1>3, <3>1
  <2> QED
    BY <1>2, <1>4, <2>1, <2>2 DEF LagAndLead
<1> QED
  BY <1>2, <1>3, <1>4, <1>5

\* A crank that starts within Delay, and what failures cost.
LEMMA ToCrank ==
  ASSUME StaleInv, IInv', UNCHANGED <<now, chain, account, stale, fails>>,
         pc' = "sending", wait' = 0, ~Ahead => stale <= Delay + Credit(fails)
  PROVE  StaleInv'
<1>1. /\ Clocks' /\ stale' \in Nat /\ (InSync' => stale' = 0) /\ LagAndLead'
      /\ Ahead' <=> Ahead
      /\ fails' \in 0..MaxFails
  BY Still
<1>2. Timers'
  BY <1>1, Durations DEF Timers, Calling
<1>3. InPhase'
  BY TimesType, Durations, <1>1 DEF InPhase, Credit, Cost
<1> QED
  BY <1>1, <1>2, <1>3 DEF StaleInv, FlipIsNext

LEMMA CranksInTime ==
  ASSUME StaleInv, Lands \/ OtherCrank, IInv'
  PROVE  StaleInv'
  BY CrankInTime DEF Lands, OtherCrank

\* Confirmed within a call of landing; asleep only if the account is right.
LEMMA ConfirmedInTime ==
  ASSUME StaleInv, Confirmed, IInv'
  PROVE  StaleInv'
<1>1. /\ pc = "landed" /\ UNCHANGED <<now, chain, account, stale, fails>>
      /\ flip' = FlipAfter(account.updatedTs) /\ hold' = account.status
  BY DEF Confirmed, env
<1>2. CASE StartCrank
  <2>1. pc' = "sending" /\ wait' = 0
    BY <1>2 DEF StartCrank
  <2>2. ASSUME ~Ahead
        PROVE  stale <= Delay + Credit(fails)
    <3>1. stale <= MaxLag + wait /\ wait \in 0..MaxRpc
      BY <1>1, <2>2 DEF StaleInv, InPhase, Timers, Calling
    <3> QED
      BY <3>1, TimesType, Durations
  <2> QED
    BY <1>1, <2>1, <2>2, ToCrank
<1>3. CASE now < target' /\ StatusAt(now) = hold' /\ pc' = "sleeping"
  <2>1. /\ Clocks' /\ stale' \in Nat /\ (InSync' => stale' = 0) /\ LagAndLead'
        /\ Ahead' <=> Ahead
        /\ fails' \in 0..MaxFails
    BY <1>1, Still
  <2>2. stale' = 0
    BY <1>1, <1>3 DEF StaleInv, InSync
  <2>3. overslept' \in Nat
    BY DEF IInv, Times
  <2>4. Timers' /\ InPhase'
    BY <1>3, <2>1, <2>2, <2>3 DEF Timers, InPhase, Calling
  <2>5. FlipIsNext'
    BY <1>1, FlipAfterIsFirst, TimesType DEF FlipIsNext
  <2> QED
    BY <2>1, <2>4, <2>5 DEF StaleInv
<1> QED
  BY <1>2, <1>3 DEF Confirmed, SleepPass

LEMMA PollInTime ==
  ASSUME StaleInv, PollFires, IInv'
  PROVE  StaleInv'
<1>1. /\ pc = "sleeping" /\ UNCHANGED <<now, chain, account, stale, fails, flip>>
  BY DEF PollFires, env
<1>2. /\ overslept <= Poll /\ overslept \in Nat /\ (~Ahead => stale <= overslept)
  <2>1. wait \in 0..Poll /\ overslept + wait <= Poll
    BY <1>1 DEF StaleInv, IInv, OneTimer
  <2> QED
    BY <1>1, <2>1, TimesType, Durations DEF StaleInv, InPhase
<1>3. CASE StartCrank
  <2>1. ~Ahead => stale <= Delay + Credit(fails)
    BY <1>2, TimesType, Durations
  <2> QED
    BY <1>1, <1>3, <2>1, ToCrank DEF StartCrank
<1>4. CASE pc' = "sleeping" /\ overslept' = overslept
  <2>1. /\ Clocks' /\ stale' \in Nat /\ (InSync' => stale' = 0) /\ LagAndLead'
        /\ Ahead' <=> Ahead
        /\ fails' \in 0..MaxFails
    BY <1>1, Still
  <2>2. Timers' /\ InPhase'
    BY <1>1, <1>2, <1>4, <2>1 DEF Timers, InPhase, Calling
  <2>3. FlipIsNext'
    BY <1>1 DEF StaleInv, FlipIsNext
  <2> QED
    BY <2>1, <2>2, <2>3 DEF StaleInv
<1> QED
  BY <1>3, <1>4 DEF PollFires, SleepPass

LEMMA RetryInTime ==
  ASSUME StaleInv, RetryFires \/ Restart, IInv'
  PROVE  StaleInv'
<1>1. /\ UNCHANGED <<now, chain, account, stale, fails>> /\ pc' = "sending" /\ wait' = 0
      /\ (pc = "backoff" /\ wait = 0) \/ pc = "down"
  BY DEF RetryFires, Restart, StartCrank, env
<1>2. ~Ahead => stale <= Delay + Credit(fails)
  BY <1>1, TimesType DEF StaleInv, InPhase
<1> QED
  BY <1>1, <1>2, ToCrank

\* A failure costs a call and a pause, and there are MaxFails of them.
LEMMA FailureInTime ==
  ASSUME StaleInv, CrankFails \/ Crash, IInv'
  PROVE  StaleInv'
<1>1. /\ UNCHANGED <<now, chain, account, stale>> /\ fails' = fails + 1
      /\ (pc' = "backoff" /\ wait' = Retry) \/ (pc' = "down" /\ wait' = 0)
  BY DEF CrankFails, Crash, env
<1>2. fails < MaxFails
  <2>1. Agrees(account)
    BY DEF StaleInv, Clocks, Written, Agrees
  <2> QED
    BY <2>1 DEF CrankFails, Crash
<1>3. /\ Clocks' /\ stale' \in Nat /\ (InSync' => stale' = 0) /\ LagAndLead'
      /\ Ahead' <=> Ahead
      /\ fails' \in 0..MaxFails
  BY <1>1, <1>2, Still
<1>4. Credit(fails)' = Credit(fails) + Cost /\ fails' > 0
  <2>1. Credit(fails)' = Credit(fails')
    BY DEF Credit, Cost
  <2> QED
    BY <1>1, <2>1, TimesType, Credits
<1>5. Timers'
  BY <1>1, <1>3, <1>4, Durations DEF Timers, Calling
<1>6. InPhase'
  <2>1. ~Ahead' => stale <= Noticed + Credit(fails)
    BY <1>3, PhaseBound
  <2> QED
    BY <1>1, <1>4, <2>1, TimesType, Durations DEF InPhase
<1> QED
  BY <1>1, <1>3, <1>5, <1>6 DEF StaleInv, FlipIsNext

LEMMA HostInTime ==
  ASSUME StaleInv, Suspend \/ Resume \/ UNCHANGED vars, IInv'
  PROVE  StaleInv'
<1>1. UNCHANGED <<now, chain, account, stale, fails, pc, wait, flip, overslept>>
  BY DEF Suspend, Resume, vars, env, timers
<1>2. /\ Clocks' /\ stale' \in Nat /\ (InSync' => stale' = 0) /\ LagAndLead'
      /\ Ahead' <=> Ahead
  BY <1>1, Still
<1>3. Timers' /\ FlipIsNext'
  BY <1>1 DEF StaleInv, Timers, Calling, FlipIsNext
<1>4. InPhase'
  BY <1>1, <1>2 DEF StaleInv, InPhase, Credit, Cost
<1> QED
  BY <1>2, <1>3, <1>4 DEF StaleInv

-----------------------------------------------------------------------------
(* Time passes. *)

\* One unit of time makes the account wrong for one unit more at most, and none if it
\* was right, or if a flip is crossed, or if nothing is running.
LEMMA TickCounts ==
  ASSUME StaleInv, Tick
  PROVE  /\ stale' \in Nat /\ stale' <= stale + 1
         /\ InSync \/ InSync' => stale' = 0
         /\ ~awake \/ pc = "down" => stale' <= stale
         /\ now' \in Flips /\ now' = now + 1 => stale' = 0
<1>1. now \in Nat /\ stale \in Nat /\ (InSync => stale = 0)
  BY TimesType DEF StaleInv
<1>2. StaleBound \in Nat
  <2>1. /\ MaxLead \in Nat /\ MaxFails \in Nat /\ MaxRpc \in Nat /\ Retry \in Nat
        /\ Noticed \in Nat
    BY Durations
  <2>2. Max({1, MaxLead}) \in Nat /\ Max({1, MaxLead}) >= 1
    BY <2>1, GreaterOf
  <2>3. MaxFails * (MaxRpc + Retry) \in Nat
    BY <2>1
  <2> QED
    BY <2>1, <2>2, <2>3 DEF StaleBound
<1>3. CountedTo(StaleBound, stale + 1) \in Nat /\ CountedTo(StaleBound, stale + 1) <= stale + 1
  <2>1. CountedTo(StaleBound, stale + 1)
          = IF StaleBound + 1 <= stale + 1 THEN StaleBound + 1 ELSE stale + 1
    BY <1>1, <1>2, LesserOf DEF CountedTo
  <2> QED
    BY <1>1, <1>2, <2>1
<1>4. stale' = IF account.status = StatusAt(now') THEN 0
               ELSE IF awake /\ pc # "down" /\ ~InSync
                    THEN CountedTo(StaleBound, stale + 1) ELSE stale
  BY DEF Tick
<1>5. InSync' <=> account.status = StatusAt(now')
  BY DEF Tick, InSync
<1>6. ASSUME now' \in Flips, now' = now + 1
      PROVE  InSync \/ InSync'
  <2>1. StatusAt(now + 1) # StatusAt(now)
    BY <1>1, <1>6, FlipToggles
  <2>2. \A t : StatusAt(t) \in {"CLOSED", "OPEN"}
    BY DEF StatusAt
  <2>3. account.status \in {"CLOSED", "OPEN"}
    BY <2>2 DEF StaleInv, Clocks, Written
  <2> QED
    BY <1>5, <1>6, <2>1, <2>2, <2>3 DEF InSync
<1> QED
  BY <1>1, <1>3, <1>4, <1>5, <1>6

LEMMA TickInTime ==
  ASSUME StaleInv, Tick, IInv'
  PROVE  StaleInv'
<1>1. /\ now \in Nat /\ chain \in Int /\ account.updatedTs \in Int /\ stale \in Nat
      /\ overslept \in Nat /\ Credit(fails) \in Nat /\ Credit(fails)' = Credit(fails)
      /\ now <= MaxTime
      /\ \A f \in Flips : f \in Nat /\ f <= MaxTime /\ f + MaxLag <= MaxTime
  <2>1. Flips \subseteq 1..MaxTime /\ \A f \in Flips : f + MaxLag <= MaxTime
    BY ScheduleAssumption
  <2>2. now \in 0..MaxTime
    BY DEF StaleInv, IInv, Times
  <2>3. Credit(fails)' = Credit(fails)
    BY DEF Tick, Credit, Cost
  <2> QED
    BY <2>1, <2>2, <2>3, TimesType, Durations
<1>2. /\ UNCHANGED <<account, pc, flip, fails, awake>>
      /\ now' = (IF now < MaxTime THEN now + 1 ELSE now)
      /\ chain' \in chain .. now' + MaxLead /\ chain' >= now' - MaxLag
  BY DEF Tick
<1>3. /\ stale' \in Nat /\ stale' <= stale + 1
      /\ InSync \/ InSync' => stale' = 0
      /\ ~awake \/ pc = "down" => stale' <= stale
      /\ now' \in Flips /\ now' = now + 1 => stale' = 0
  BY TickCounts
<1>4. /\ {MaxLag, MaxLead, MaxTime, MaxRpc, Retry, Poll, Noticed, Delay, Cost} \subseteq Nat
      /\ Cost = MaxRpc + Retry
  BY Durations
<1>5. Clocks'
  BY <1>1, <1>2, <1>4 DEF StaleInv, Clocks
<1>6. Timers'
  <2>1. CASE ~awake
    BY <2>1 DEF StaleInv, Timers, Calling, Tick
  <2>2. CASE awake /\ pc \in {"sending", "landed"}
    BY <1>4, <2>2 DEF StaleInv, Timers, Calling, TimerOn, Tick
  <2>3. CASE awake /\ pc \in {"backoff", "sleeping"}
    BY <1>4, <2>3 DEF StaleInv, Timers, Calling, TimerOn, Tick
  <2>4. CASE awake /\ pc = "down"
    BY <2>4 DEF StaleInv, Timers, Calling, Tick
  <2> QED
    BY <2>1, <2>2, <2>3, <2>4 DEF StaleInv, Timers
<1>7. FlipIsNext'
  BY <1>2 DEF StaleInv, FlipIsNext
<1>8. LagAndLead'
  <2>1. ASSUME NEW f \in Flips, chain' < f, f <= now'
        PROVE  stale' <= now' - f
    <3>1. now' = now + 1
      BY <1>1, <1>2, <1>4, <2>1
    <3>2. CASE f = now'
      BY <1>1, <1>3, <3>1, <3>2
    <3>3. CASE f # now'
      <4>1. chain < f /\ f <= now
        BY <1>1, <1>2, <2>1, <3>1, <3>3
      <4>2. stale <= now - f
        BY <4>1 DEF StaleInv, LagAndLead
      <4> QED
        BY <1>1, <1>3, <3>1, <4>2
    <3> QED
      BY <3>2, <3>3
  <2>2. ASSUME Ahead'
        PROVE  \E f \in Flips : /\ now' < f /\ f <= account.updatedTs
                                /\ stale' + (f - now') <= Noticed + Credit(fails) + MaxLead
    <3>1. PICK g \in Flips : now' < g /\ g <= account.updatedTs
      BY <1>2, <2>2 DEF Ahead
    <3>2. now' = now + 1 /\ now < g
      BY <1>1, <1>2, <1>4, <3>1
    <3>3. Ahead
      BY <3>1, <3>2 DEF Ahead
    <3>4. PICK f \in Flips : /\ now < f /\ f <= account.updatedTs
                             /\ stale + (f - now) <= Noticed + Credit(fails) + MaxLead
      BY <3>3 DEF StaleInv, LagAndLead
    <3>5. CASE f = now'
      <4>1. stale' = 0
        BY <1>3, <3>2, <3>5
      <4>2. g <= now + MaxLead
        BY <1>1, <1>4, <3>1 DEF StaleInv, Clocks
      <4>3. stale' + (g - now') <= Noticed + Credit(fails) + MaxLead
        BY <1>1, <1>4, <3>2, <4>1, <4>2
      <4> QED
        BY <3>1, <4>3
    <3>6. CASE f # now'
      <4>1. now' < f
        BY <1>1, <3>2, <3>4, <3>6
      <4>2. stale' + (f - now') <= Noticed + Credit(fails) + MaxLead
        BY <1>1, <1>3, <1>4, <3>2, <3>4
      <4> QED
        BY <3>4, <4>1, <4>2
    <3> QED
      BY <3>5, <3>6
  <2> QED
    BY <1>1, <1>2, <2>1, <2>2 DEF LagAndLead
<1>9. ASSUME stale' = 0
      PROVE  InPhase'
  <2>1. overslept' \in Nat
    BY DEF IInv, Times
  <2>2. pc' = "backoff" => wait' <= Delay + Credit(fails)
    <3> SUFFICES ASSUME pc' = "backoff"
                 PROVE  wait' <= Delay + Credit(fails)
      OBVIOUS
    <3>1. wait' \in 0..Retry /\ fails > 0
      BY <1>2, <1>6 DEF Timers
    <3>2. Credit(fails) >= Cost
      BY <3>1, TimesType, Credits
    <3> QED
      BY <1>1, <1>4, <3>1, <3>2
  <2>3. Calling' => wait' \in Nat
    BY <1>4, <1>6 DEF Timers
  <2>4. pc' = "backoff" => wait' \in Nat
    BY <1>4, <1>6 DEF Timers
  <2> QED
    BY <1>1, <1>4, <1>9, <2>1, <2>2, <2>3, <2>4 DEF InPhase, Calling
<1>10. ASSUME ~Ahead', stale' # 0
       PROVE  InPhase'
  <2>1. ~InSync /\ ~InSync'
    BY <1>3, <1>10
  <2>2. ~Ahead
    <3> SUFFICES ASSUME Ahead
                 PROVE  FALSE
      OBVIOUS
    <3>1. PICK f \in Flips : now < f /\ f <= account.updatedTs
      BY DEF Ahead
    <3>2. ~(now' < f)
      BY <1>2, <1>10, <3>1 DEF Ahead
    <3>3. now' = now + 1 /\ f = now'
      BY <1>1, <1>2, <3>1, <3>2
    <3> QED
      BY <1>3, <1>10, <3>3
  <2>3. InPhase
    BY DEF StaleInv
  <2>4. CASE ~awake
    <3>1. wait' = wait /\ overslept' = overslept /\ stale' <= stale
      BY <1>3, <2>4 DEF Tick
    <3>2. Calling \/ pc = "backoff" => wait \in Nat
      BY <1>4 DEF StaleInv, Timers
    <3> QED
      BY <1>1, <1>2, <1>3, <1>4, <2>2, <2>3, <3>1, <3>2 DEF InPhase, Calling
  <2>5. CASE awake /\ pc = "sleeping"
    <3>1. PICK f \in Flips : account.updatedTs < f /\ f <= now
      <4>1. StatusAt(account.updatedTs) # StatusAt(now)
        BY <2>1 DEF InSync, StaleInv, Clocks, Written
      <4> QED
        BY <1>1, <2>2, <4>1, FlipBetween DEF Ahead
    <3>2. flip # NoFlip /\ flip <= f
      BY <2>5, <3>1 DEF StaleInv, FlipIsNext
    <3>3. flip \in Nat \cup {NoFlip}
      BY DEF StaleInv, IInv, Times
    <3>4. now >= flip
      BY <1>1, <3>1, <3>2, <3>3
    <3>5. overslept' = CountedTo(Poll, overslept + 1)
      BY <2>5, <3>2, <3>4 DEF Tick
    <3>6. overslept' = overslept + 1
      <4>1. CountedTo(Poll, overslept + 1)
              = IF Poll + 1 <= overslept + 1 THEN Poll + 1 ELSE overslept + 1
        BY <1>1, <1>4, LesserOf DEF CountedTo
      <4>2. wait \in 0..Poll /\ overslept + wait <= Poll
        BY <2>5 DEF StaleInv, IInv, OneTimer
      <4> QED
        BY <1>1, <1>4, <3>5, <4>1, <4>2
    <3>7. stale <= overslept
      BY <2>2, <2>3, <2>5 DEF InPhase
    <3> QED
      BY <1>1, <1>2, <1>3, <2>5, <3>6, <3>7 DEF InPhase
  <2>6. CASE awake /\ pc \in {"sending", "landed"}
    <3>1. wait' = wait + 1 /\ wait \in Nat
      BY <1>4, <2>6 DEF Tick, Calling, TimerOn, StaleInv, Timers
    <3> QED
      BY <1>1, <1>2, <1>3, <1>4, <2>2, <2>3, <2>6, <3>1 DEF InPhase
  <2>7. CASE awake /\ pc = "backoff"
    <3>1. wait' = wait - 1 /\ wait \in Nat
      BY <1>4, <2>7 DEF Tick, Calling, TimerOn, StaleInv, Timers
    <3> QED
      BY <1>1, <1>2, <1>3, <1>4, <2>2, <2>3, <2>7, <3>1 DEF InPhase
  <2>8. CASE awake /\ pc = "down"
    BY <1>1, <1>2, <1>3, <1>4, <2>2, <2>3, <2>8 DEF InPhase
  <2> QED
    BY <2>4, <2>5, <2>6, <2>7, <2>8 DEF StaleInv, Timers
<1>11. InPhase'
  <2> SUFFICES ASSUME ~Ahead'
               PROVE  InPhase'
    BY DEF InPhase
  <2> QED
    BY <1>9, <1>10
<1> QED
  BY <1>3, <1>5, <1>6, <1>7, <1>8, <1>11 DEF StaleInv

LEMMA StepsInTime == StaleInv /\ [Next]_vars => StaleInv'
<1> SUFFICES ASSUME StaleInv, [Next]_vars
             PROVE  StaleInv'
  OBVIOUS
<1>1. IInv'
  BY StepsKeep DEF StaleInv
<1> QED
  BY <1>1, CranksInTime, ConfirmedInTime, PollInTime, RetryInTime, FailureInTime,
     HostInTime, TickInTime DEF Next, Keeper

-----------------------------------------------------------------------------
\* The account is never wrong for longer than the poll, the calls and the failures
\* explain: for any bells, any lag and lead of the chain's clock, cranks by others
\* that land early, and any suspensions, the running time for which the account has
\* differed from the reference's status stays within StaleBound (keeper.mjs --loop).
THEOREM StalenessIsBounded == Spec => []StalenessBounded
<1>1. StaleInv => StalenessBounded
  <2> SUFFICES ASSUME StaleInv
               PROVE  stale <= StaleBound
    BY DEF StalenessBounded
  <2>1. /\ now \in Nat /\ stale \in Nat /\ Credit(fails) \in Nat
        /\ \A f \in Flips : f \in Nat
        /\ {Noticed, MaxLead, MaxFails} \subseteq Nat
    BY TimesType, Durations
  <2>2. Credit(fails) <= MaxFails * (MaxRpc + Retry) /\ MaxFails * (MaxRpc + Retry) \in Nat
    <3>1. fails \in Nat /\ fails <= MaxFails
      BY <2>1 DEF StaleInv, Timers
    <3>2. MaxFails \in Nat /\ MaxRpc + Retry \in Nat
      BY Durations
    <3>3. MaxFails * (MaxRpc + Retry) \in Nat
      BY <3>2
    <3> QED
      BY <3>1, <3>3, Credits
  <2> DEFINE credits == MaxFails * (MaxRpc + Retry)
             lead == Max({1, MaxLead})
  <2>3. lead \in Nat /\ lead >= 1 /\ lead >= MaxLead
    BY <2>1, GreaterOf
  <2>4. StaleBound = Noticed + lead - 1 + credits
    BY DEF StaleBound
  <2>5. credits \in Nat /\ Credit(fails) <= credits
    BY <2>2
  <2> HIDE DEF credits, lead
  <2>6. CASE Ahead
    <3>1. PICK f \in Flips : /\ now < f
                             /\ stale + (f - now) <= Noticed + Credit(fails) + MaxLead
      BY <2>6 DEF StaleInv, LagAndLead
    <3> QED
      BY <2>1, <2>3, <2>4, <2>5, <3>1
  <2>7. CASE ~Ahead
    <3>1. stale <= Noticed + Credit(fails)
      BY <2>7, PhaseBound
    <3> QED
      BY <2>1, <2>3, <2>4, <2>5, <3>1
  <2> QED
    BY <2>6, <2>7
<1> QED
  BY <1>1, StartsRight, StepsInTime, PTL DEF Spec
=============================================================================
