-------------------------- MODULE TimeStampsProofs --------------------------
(***************************************************************************)
(* Time stamps of the years 1980 to 2107, for every instant of them and    *)
(* every zone.  The argument: the calendar finds the year and the month of *)
(* every day (CalendarFacts), the date and the time of a stamp give back   *)
(* what was packed into them (DateFields, TimeFields) and grow with it,    *)
(* and what mktime is given twice differs by the offset of the zone only.  *)
(***************************************************************************)
EXTENDS TimeStamps, WellFoundedInduction, TLAPS

-----------------------------------------------------------------------------
(***************************************************************************)
(* Years.                                                                  *)
(***************************************************************************)
\* A nonempty set of naturals has a least element.
LEMMA LeastNatural ==
    ASSUME NEW S \in SUBSET Nat, S # {}
    PROVE  \E x \in S : \A y \in S : x <= y
<1>1. IsWellFoundedOn(OpToRel(<, Nat), Nat)
  BY NatLessThanWellFounded
<1>2. PICK x \in S : \A y \in S : ~ (<<y, x>> \in OpToRel(<, Nat))
  BY <1>1, WFMin
<1>3. ASSUME NEW y \in S, y < x
      PROVE  FALSE
  <2>1. <<y, x>> \in Nat \X Nat /\ <<y, x>>[1] < <<y, x>>[2]
    BY <1>3
  <2>2. <<y, x>> \in OpToRel(<, Nat)
    BY <2>1 DEF OpToRel
  <2> QED
    BY <1>2, <2>2
<1> QED
  BY <1>3

\* A year has 365 days, or 366.
LEMMA YearLength ==
    ASSUME NEW y \in Nat
    PROVE  /\ YearStart(y) \in Int
           /\ YearStart(y + 1) = YearStart(y) + IF IsLeap(y) THEN 366 ELSE 365
<1>1. /\ y \div 4 - (y - 1) \div 4 = IF y % 4 = 0 THEN 1 ELSE 0
      /\ y \div 100 - (y - 1) \div 100 = IF y % 100 = 0 THEN 1 ELSE 0
      /\ y \div 400 - (y - 1) \div 400 = IF y % 400 = 0 THEN 1 ELSE 0
  OBVIOUS
<1>2. (y % 400 = 0 => y % 100 = 0) /\ (y % 100 = 0 => y % 4 = 0)
  OBVIOUS
<1>3. DaysUpTo(y + 1) = DaysUpTo(y) + IF IsLeap(y) THEN 1 ELSE 0
  BY <1>1, <1>2 DEF DaysUpTo, IsLeap
<1>4. DaysUpTo(y) \in Int /\ DaysUpTo(1970) \in Int
  BY DEF DaysUpTo
<1> QED
  BY <1>3, <1>4 DEF YearStart

\* Years follow one another.
LEMMA YearsGrow ==
    ASSUME NEW y \in Nat, NEW z \in Nat, y <= z
    PROVE  YearStart(y) + 365 * (z - y) <= YearStart(z)
<1>1. DaysUpTo(y) <= DaysUpTo(z)
  <2> DEFINE a == (y - 1) \div 4
             b == (z - 1) \div 4
  <2>1. a \in Int /\ b \in Int /\ a <= b
    OBVIOUS
  <2>2. (y - 1) \div 100 = a \div 25 /\ (z - 1) \div 100 = b \div 25
    OBVIOUS
  <2>3. (y - 1) \div 400 <= (z - 1) \div 400
    OBVIOUS
  <2> HIDE DEF a, b
  <2>4. a - a \div 25 <= b - b \div 25
    BY <2>1
  <2> QED
    BY <2>2, <2>3, <2>4 DEF DaysUpTo, a, b
<1>2. DaysUpTo(y) \in Int /\ DaysUpTo(z) \in Int /\ DaysUpTo(1970) \in Int
  BY DEF DaysUpTo
<1> QED
  BY <1>1, <1>2 DEF YearStart

LEMMA YearsAfter1970 ==
    ASSUME NEW k \in Nat
    PROVE  365 * k <= YearStart(1970 + k) /\ YearStart(1970 + k) <= 366 * k
<1>1. YearStart(1970) = 0
  BY DEF YearStart, DaysUpTo
<1>2. 365 * k <= YearStart(1970 + k)
  BY <1>1, YearsGrow
<1>3. YearStart(1970 + k) <= 366 * k
  <2>1. DaysUpTo(1970 + k) - DaysUpTo(1970) <= k
    BY DEF DaysUpTo
  <2> QED
    BY <2>1 DEF YearStart, DaysUpTo
<1> QED
  BY <1>2, <1>3

-----------------------------------------------------------------------------
(***************************************************************************)
(* The calendar.                                                           *)
(***************************************************************************)
\* Where the months begin.
LEMMA Months ==
    ASSUME NEW y \in Nat
    PROVE  /\ MonthStart(y, 1) = 0
           /\ \A m \in 1 .. 11 :
                MonthStart(y, m) < MonthStart(y, m + 1) /\ MonthStart(y, m + 1) <= MonthStart(y, m) + 31
           /\ \A m \in 1 .. 12 : MonthStart(y, m) \in Nat
           /\ MonthStart(y, 12) = IF IsLeap(y) THEN 335 ELSE 334
<1> DEFINE starts == <<0, 31, 59, 90, 120, 151, 181, 212, 243, 273, 304, 334>>
           extra(m) == IF IsLeap(y) /\ m > 2 THEN 1 ELSE 0
<1>1. /\ starts[1] = 0 /\ starts[2] = 31 /\ starts[3] = 59 /\ starts[4] = 90
      /\ starts[5] = 120 /\ starts[6] = 151 /\ starts[7] = 181 /\ starts[8] = 212
      /\ starts[9] = 243 /\ starts[10] = 273 /\ starts[11] = 304 /\ starts[12] = 334
  OBVIOUS
<1>2. \A m \in 1 .. 12 : MonthStart(y, m) = starts[m] + extra(m)
  BY DEF MonthStart
<1> HIDE DEF starts
<1>3. /\ MonthStart(y, 1) = 0 /\ MonthStart(y, 2) = 31
      /\ MonthStart(y, 3) = 59 + extra(3) /\ MonthStart(y, 4) = 90 + extra(3)
      /\ MonthStart(y, 5) = 120 + extra(3) /\ MonthStart(y, 6) = 151 + extra(3)
      /\ MonthStart(y, 7) = 181 + extra(3) /\ MonthStart(y, 8) = 212 + extra(3)
      /\ MonthStart(y, 9) = 243 + extra(3) /\ MonthStart(y, 10) = 273 + extra(3)
      /\ MonthStart(y, 11) = 304 + extra(3) /\ MonthStart(y, 12) = 334 + extra(3)
  BY <1>1, <1>2
<1>4. extra(3) \in {0, 1} /\ extra(3) = IF IsLeap(y) THEN 1 ELSE 0
  OBVIOUS
<1> HIDE DEF extra
<1>5. \A m \in 1 .. 12 : m \in {1, 2, 3, 4, 5, 6, 7, 8, 9, 10, 11, 12}
  OBVIOUS
<1>6. \A m \in 1 .. 11 : m \in {1, 2, 3, 4, 5, 6, 7, 8, 9, 10, 11}
  OBVIOUS
<1> QED
  BY <1>3, <1>4, <1>5, <1>6

\* Every day is found in its year and its month.
IsDate(c, day) ==
    /\ c.year \in Nat /\ c.month \in 1 .. 12 /\ c.mday \in 1 .. 31
    /\ YearStart(c.year) <= day /\ day < YearStart(c.year + 1)
    /\ day = YearStart(c.year) + MonthStart(c.year, c.month) + c.mday - 1
    /\ c.month = 12 \/ day < YearStart(c.year) + MonthStart(c.year, c.month + 1)

LEMMA CalendarFacts ==
    ASSUME NEW day \in Nat
    PROVE  IsDate(Calendar(day), day)
<1> DEFINE Years == (1969 + day \div 366) .. (1970 + day \div 365)
           year == CHOOSE y \in Years : YearStart(y) <= day /\ day < YearStart(y + 1)
           inYear == day - YearStart(year)
           month == CHOOSE m \in 1 .. 12 :
                        /\ MonthStart(year, m) <= inYear
                        /\ m = 12 \/ inYear < MonthStart(year, m + 1)
<1>1. \E y \in Years : YearStart(y) <= day /\ day < YearStart(y + 1)
  <2> DEFINE Ahead == {k \in Nat : day < YearStart(1970 + k)}
  <2>1. day + 1 \in Ahead
    <3>1. 365 * (day + 1) <= YearStart(1970 + (day + 1)) /\ YearStart(1970 + (day + 1)) \in Int
      BY YearsAfter1970, YearLength
    <3> QED
      BY <3>1
  <2>2. Ahead \in SUBSET Nat
    OBVIOUS
  <2> HIDE DEF Ahead
  <2>3. PICK k \in Ahead : \A x \in Ahead : k <= x
    BY <2>1, <2>2, LeastNatural
  <2> USE DEF Ahead
  <2>4. k \in Nat /\ day < YearStart(1970 + k)
    BY <2>3
  <2>5. YearStart(1970) = 0
    BY DEF YearStart, DaysUpTo
  <2>6. k # 0 /\ k - 1 \in Nat /\ k - 1 \notin Ahead
    BY <2>3, <2>4, <2>5
  <2> DEFINE y == 1970 + (k - 1)
  <2>7. YearStart(y) <= day /\ y + 1 = 1970 + k
    BY <2>6, YearLength
  <2>8. 365 * (k - 1) <= day /\ day < 366 * k
    <3>1. 365 * (k - 1) <= YearStart(y) /\ YearStart(1970 + k) <= 366 * k
      BY <2>4, <2>6, YearsAfter1970
    <3>2. YearStart(y) \in Int /\ YearStart(1970 + k) \in Int
      BY <2>4, <2>6, YearLength
    <3> QED
      BY <2>4, <2>7, <3>1, <3>2
  <2>9. y \in Years
    BY <2>4, <2>8
  <2> QED
    BY <2>4, <2>7, <2>9
<1>2. year \in Years /\ YearStart(year) <= day /\ day < YearStart(year + 1)
  BY <1>1
<1>3. Calendar(day) = [year |-> year, month |-> month, mday |-> inYear - MonthStart(year, month) + 1]
  BY DEF Calendar
<1> HIDE DEF year
<1>4. year \in Nat
  BY <1>2
<1>0. /\ MonthStart(year, 1) = 0
      /\ \A m \in 1 .. 11 :
           /\ MonthStart(year, m) < MonthStart(year, m + 1)
           /\ MonthStart(year, m + 1) <= MonthStart(year, m) + 31
      /\ \A m \in 1 .. 12 : MonthStart(year, m) \in Nat
      /\ MonthStart(year, 12) = IF IsLeap(year) THEN 335 ELSE 334
  BY <1>4, Months
<1>5. inYear \in Nat /\ inYear < IF IsLeap(year) THEN 366 ELSE 365
  BY <1>2, <1>4, YearLength
<1> HIDE DEF inYear
<1>6. \E m \in 1 .. 12 :
        /\ MonthStart(year, m) <= inYear
        /\ m = 12 \/ inYear < MonthStart(year, m + 1)
  <2> DEFINE Behind == {m \in 1 .. 12 : m = 12 \/ inYear < MonthStart(year, m + 1)}
  <2>1. Behind \in SUBSET Nat /\ 12 \in Behind
    OBVIOUS
  <2> HIDE DEF Behind
  <2>2. PICK m \in Behind : \A x \in Behind : m <= x
    BY <2>1, LeastNatural
  <2> USE DEF Behind
  <2>3. m \in 1 .. 12 /\ (m # 1 => m - 1 \in 1 .. 11 /\ m - 1 \notin Behind)
    BY <2>2
  <2>4. m # 1 => MonthStart(year, m) <= inYear
    <3>1. m # 1 => ~ (inYear < MonthStart(year, (m - 1) + 1)) /\ (m - 1) + 1 = m
      BY <2>3
    <3> QED
      BY <1>4, <1>5, <2>3, <3>1, <1>0
  <2>5. MonthStart(year, m) <= inYear
    BY <1>4, <1>5, <2>4, <1>0
  <2> QED
    BY <2>2, <2>3, <2>5
<1>7. /\ month \in 1 .. 12
      /\ MonthStart(year, month) <= inYear
      /\ month = 12 \/ inYear < MonthStart(year, month + 1)
  BY <1>6
<1> HIDE DEF month
<1>8. /\ MonthStart(year, month) \in Nat
      /\ inYear < MonthStart(year, month) + 31
  <2>1. CASE month = 12
    BY <1>4, <1>5, <1>7, <2>1, <1>0
  <2>2. CASE month # 12
    <3>1. month \in 1 .. 11 /\ month + 1 \in 1 .. 12
      BY <1>7, <2>2
    <3>2. /\ MonthStart(year, month + 1) <= MonthStart(year, month) + 31
          /\ MonthStart(year, month) \in Nat /\ MonthStart(year, month + 1) \in Nat
      BY <1>4, <3>1, <1>0
    <3> QED
      BY <1>5, <1>7, <2>2, <3>2
  <2> QED
    BY <2>1, <2>2
<1>9. YearStart(year) \in Int /\ day = YearStart(year) + inYear
  BY <1>4, YearLength DEF inYear
<1>10. inYear - MonthStart(year, month) + 1 \in 1 .. 31
  BY <1>5, <1>7, <1>8
<1>11. month = 12 \/ day < YearStart(year) + MonthStart(year, month + 1)
  <2>1. month # 12 => MonthStart(year, month + 1) \in Nat
    BY <1>0, <1>7
  <2> QED
    BY <1>5, <1>7, <1>9, <2>1
<1>12. day = YearStart(year) + MonthStart(year, month) + (inYear - MonthStart(year, month) + 1) - 1
  BY <1>5, <1>8, <1>9
<1> QED
  BY <1>2, <1>3, <1>4, <1>7, <1>10, <1>11, <1>12 DEF IsDate
\* The number of a day of the calendar is that of the day it was found from.
LEMMA DayFoundAgain ==
    ASSUME NEW day \in Nat
    PROVE  LET c == Calendar(day) IN DayNumber(c.year, c.month, c.mday) = day
<1> DEFINE c == Calendar(day)
<1>1. IsDate(c, day)
  BY CalendarFacts
<1> HIDE DEF c
<1>2. /\ c.year \in Nat /\ c.month \in 1 .. 12
      /\ day = YearStart(c.year) + MonthStart(c.year, c.month) + c.mday - 1
  BY <1>1 DEF IsDate
<1>3. (c.month - 1) \div 12 = 0 /\ (c.month - 1) % 12 = c.month - 1
  BY <1>2
<1>4. c.year + (c.month - 1) \div 12 = c.year /\ 1 + ((c.month - 1) % 12) = c.month
  BY <1>2, <1>3
<1>5. DayNumber(c.year, c.month, c.mday) = YearStart(c.year) + MonthStart(c.year, c.month) + c.mday - 1
  BY <1>4 DEF DayNumber
<1>6. DayNumber(c.year, c.month, c.mday) = day
  BY <1>2, <1>5
<1> QED
  BY <1>6 DEF c

-----------------------------------------------------------------------------
(***************************************************************************)
(* The fields of a stamp.                                                  *)
(***************************************************************************)
\* Representable moments have a year that fits into seven bits after 1980.
LEMMA RepresentableYears ==
    ASSUME NEW i, i.day \in Int, Representable(i)
    PROVE  /\ i.day \in Nat /\ 3652 <= i.day
           /\ Calendar(i.day).year \in 1980 .. 2107
<1>1. YearStart(1980) = 3652
  BY DEF YearStart, DaysUpTo
<1>2. 3652 <= i.day /\ i.day < YearStart(2108)
  BY <1>1 DEF Representable
<1>3. i.day \in Nat
  BY <1>2
<1> DEFINE year == Calendar(i.day).year
<1>4. year \in Nat /\ YearStart(year) <= i.day /\ i.day < YearStart(year + 1)
  BY <1>3, CalendarFacts DEF IsDate
<1> HIDE DEF year
<1>5. YearStart(year) \in Int /\ YearStart(year + 1) \in Int /\ YearStart(2108) \in Int
  BY <1>4, YearLength
<1>6. 1980 <= year
  <2>1. year < 1980 => YearStart(year + 1) + 365 * (1980 - (year + 1)) <= YearStart(1980)
    BY <1>4, YearsGrow
  <2> QED
    BY <1>1, <1>2, <1>4, <1>5, <2>1
<1>7. year <= 2107
  <2>1. 2108 <= year => YearStart(2108) + 365 * (year - 2108) <= YearStart(year)
    BY <1>4, YearsGrow
  <2> QED
    BY <1>2, <1>4, <1>5, <2>1
<1>8. year \in 1980 .. 2107
  BY <1>4, <1>6, <1>7
<1> QED
  BY <1>2, <1>3, <1>8 DEF year

\* Day, month and year can be taken out of the date again.
LEMMA DateFields ==
    ASSUME NEW i, i.day \in Int, Representable(i)
    PROVE  LET c == Calendar(i.day)
               date == Packed(i).date
           IN  /\ date = c.mday + 32 * c.month + 512 * (c.year - 1980)
               /\ c.mday \in 1 .. 31 /\ c.month \in 1 .. 12 /\ c.year \in 1980 .. 2107
               /\ date \div 512 + 1980 = c.year
               /\ (date \div 32) % 16 = c.month
               /\ date % 32 = c.mday
<1> DEFINE c == Calendar(i.day)
           date == Packed(i).date
<1>1. /\ c.mday \in 1 .. 31 /\ c.month \in 1 .. 12 /\ c.year \in 1980 .. 2107
  BY RepresentableYears, CalendarFacts DEF IsDate
<1>2. date = c.mday + 32 * c.month + 512 * PackedYear(c.year)
  BY DEF Packed
<1> HIDE DEF c, date
<1>3. PackedYear(c.year) = c.year - 1980
  BY <1>1 DEF PackedYear
<1>4. date = c.mday + 32 * c.month + 512 * (c.year - 1980)
  BY <1>2, <1>3
<1>5. date \div 512 + 1980 = c.year /\ (date \div 32) % 16 = c.month /\ date % 32 = c.mday
  <2> DEFINE m == c.mday
             n == c.month
             y == c.year - 1980
  <2>1. m \in 1 .. 31 /\ n \in 1 .. 12 /\ y \in 0 .. 127 /\ c.year = y + 1980
    BY <1>1
  <2>2. date = m + 32 * n + 512 * y
    BY <1>4
  <2> HIDE DEF m, n, y
  <2>3. date \div 32 = n + 16 * y /\ date % 32 = m
    BY <2>1, <2>2
  <2>4. (n + 16 * y) % 16 = n /\ date \div 512 = y
    BY <2>1, <2>2
  <2> QED
    BY <2>1, <2>3, <2>4 DEF m, n
<1> QED
  BY <1>1, <1>4, <1>5 DEF c, date

\* The time holds the even seconds, the fine resolution the odd one.
LEMMA SecondFields ==
    ASSUME NEW s \in Nat, s < 86400,
           NEW time, time = (s % 60) \div 2 + 32 * ((s % 3600) \div 60) + 2048 * (s \div 3600)
    PROVE  /\ time \in Nat
           /\ 3600 * (time \div 2048) + 60 * ((time \div 32) % 64) + 2 * (time % 32) = s - (s % 2)
           /\ time \div 2048 \in Nat /\ (time \div 32) % 64 \in Nat /\ time % 32 \in Nat
<1> DEFINE h == s \div 3600
           r == s % 3600
           m == r \div 60
           x == r % 60
           e == x \div 2
<1>1. h \in Nat /\ r \in Nat /\ h < 24 /\ r < 3600 /\ s = 3600 * h + r
  OBVIOUS
<1>a. s % 60 = x /\ s % 2 = x % 2
  <2> HIDE DEF h, r
  <2>1. s % 60 = r % 60 /\ s % 2 = r % 2
    BY <1>1
  <2>2. r % 2 = (r % 60) % 2
    BY <1>1
  <2> QED
    BY <2>1, <2>2
<1>b. time = e + 32 * m + 2048 * h
  BY <1>a
<1> HIDE DEF h, r
<1>2. m \in Nat /\ x \in Nat /\ m < 60 /\ x < 60 /\ r = 60 * m + x
  BY <1>1
<1> HIDE DEF m, x
<1>3. e \in Nat /\ e < 30 /\ x = 2 * e + (x % 2)
  BY <1>2
<1> HIDE DEF e
<1>7. time % 32 = e /\ time \div 32 = m + 64 * h
  BY <1>1, <1>2, <1>3, <1>b
<1>8. (time \div 32) % 64 = m /\ time \div 2048 = h
  BY <1>1, <1>2, <1>3, <1>b, <1>7
<1>9. x % 2 \in Int
  BY <1>2
<1>10. 3600 * h + 60 * m + 2 * e = s - (s % 2)
  BY <1>1, <1>a, <1>2, <1>3, <1>9
<1>11. time \in Nat
  BY <1>1, <1>2, <1>3, <1>b
<1> QED
  BY <1>1, <1>2, <1>3, <1>7, <1>8, <1>10, <1>11

LEMMA FineFields ==
    ASSUME NEW s \in Nat, NEW ms \in Nat, ms < 1000,
           NEW msecs, msecs = (ms + 1000 * (s % 2)) \div 10
    PROVE  /\ msecs = ms \div 10 + 100 * (s % 2)
           /\ msecs \div 100 = s % 2 /\ msecs % 100 = ms \div 10
<1>1. s % 2 \in {0, 1}
  OBVIOUS
<1> QED
  BY <1>1

LEMMA TimeFields ==
    ASSUME NEW i, i.sec \in Nat, i.sec < 86400, i.ms \in Nat, i.ms < 1000
    PROVE  LET time == Packed(i).time
               msecs == Packed(i).msecs
           IN  /\ time \in Nat
               /\ 3600 * (time \div 2048) + 60 * ((time \div 32) % 64) + 2 * (time % 32)
                    = i.sec - (i.sec % 2)
               /\ time \div 2048 \in Nat /\ (time \div 32) % 64 \in Nat /\ time % 32 \in Nat
               /\ msecs = i.ms \div 10 + 100 * (i.sec % 2)
               /\ msecs \div 100 = i.sec % 2 /\ msecs % 100 = i.ms \div 10
<1> DEFINE time == Packed(i).time
           msecs == Packed(i).msecs
<1>1. /\ time = (i.sec % 60) \div 2 + 32 * ((i.sec % 3600) \div 60) + 2048 * (i.sec \div 3600)
      /\ msecs = (i.ms + 1000 * (i.sec % 2)) \div 10
  BY DEF Packed
<1> HIDE DEF time, msecs
<1>2. /\ time \in Nat
      /\ 3600 * (time \div 2048) + 60 * ((time \div 32) % 64) + 2 * (time % 32)
           = i.sec - (i.sec % 2)
      /\ time \div 2048 \in Nat /\ (time \div 32) % 64 \in Nat /\ time % 32 \in Nat
  BY <1>1, SecondFields
<1>3. /\ msecs = i.ms \div 10 + 100 * (i.sec % 2)
      /\ msecs \div 100 = i.sec % 2 /\ msecs % 100 = i.ms \div 10
  <2> DEFINE s == i.sec
             ms == i.ms
  <2>1. s \in Nat /\ ms \in Nat /\ ms < 1000 /\ msecs = (ms + 1000 * (s % 2)) \div 10
    BY <1>1
  <2> HIDE DEF s, ms
  <2>2. /\ msecs = ms \div 10 + 100 * (s % 2)
        /\ msecs \div 100 = s % 2 /\ msecs % 100 = ms \div 10
    BY <2>1, FineFields
  <2> QED
    BY <2>2 DEF s, ms
<1> QED
  BY <1>2, <1>3 DEF time, msecs

-----------------------------------------------------------------------------
(***************************************************************************)
(* Dates and times grow with the moments.                                  *)
(***************************************************************************)
\* A later month begins after the end of an earlier one.
LEMMA MonthsGrow ==
    ASSUME NEW y \in Nat, NEW m \in 1 .. 12, NEW n \in 1 .. 12, m < n
    PROVE  MonthStart(y, m + 1) <= MonthStart(y, n)
<1> DEFINE start(k) == MonthStart(y, k)
<1>1. \A k \in 1 .. 11 : start(k) < start(k + 1)
  BY Months
<1>2. \A k \in 1 .. 12 : start(k) \in Nat
  BY Months
<1> HIDE DEF start
<1> DEFINE Short == {k \in Nat : m < k /\ k <= 12 /\ start(k) < start(m + 1)}
<1>3. Short = {}
  <2> SUFFICES ASSUME Short # {}
               PROVE  FALSE
    OBVIOUS
  <2>1. Short \in SUBSET Nat
    OBVIOUS
  <2> HIDE DEF Short
  <2>2. PICK k \in Short : \A x \in Short : k <= x
    BY <2>1, LeastNatural
  <2>3. k - 1 \notin Short
    BY <2>1, <2>2
  <2> USE DEF Short
  <2>4. k \in Nat /\ m < k /\ k <= 12 /\ start(k) < start(m + 1)
    BY <2>2
  <2>5. m + 1 \in 1 .. 12 /\ k \in 1 .. 12
    BY <2>4
  <2>6. start(m + 1) \in Nat /\ start(k) \in Nat
    BY <1>2, <2>5
  <2>7. k # m + 1
    BY <2>4, <2>6
  <2>8. k - 1 \in 1 .. 11 /\ m < k - 1 /\ k - 1 \in 1 .. 12 /\ (k - 1) + 1 = k
    BY <2>4, <2>5, <2>7
  <2>9. start(k - 1) < start(k) /\ start(k - 1) \in Nat
    BY <1>1, <1>2, <2>8
  <2>10. start(k - 1) < start(m + 1)
    BY <2>4, <2>6, <2>9
  <2> QED
    BY <2>3, <2>8, <2>10
<1>4. m + 1 \in 1 .. 12
  OBVIOUS
<1>5. start(m + 1) \in Nat /\ start(n) \in Nat /\ n \notin Short
  BY <1>2, <1>3, <1>4
<1>6. start(m + 1) <= start(n)
  BY <1>5
<1> QED
  BY <1>6 DEF start

\* A later day has a greater date.
LEMMA DatesGrow ==
    ASSUME NEW i, i.day \in Int, Representable(i),
           NEW j, j.day \in Int, Representable(j),
           i.day < j.day
    PROVE  Packed(i).date < Packed(j).date
<1> DEFINE Found(k, y, m, a) ==
                /\ Packed(k).date = a + 32 * m + 512 * (y - 1980)
                /\ YearStart(y) <= k.day /\ k.day < YearStart(y + 1)
                /\ k.day = YearStart(y) + MonthStart(y, m) + a - 1
                /\ m = 12 \/ k.day < YearStart(y) + MonthStart(y, m + 1)
<1>1. ASSUME NEW k, k.day \in Int, Representable(k)
      PROVE  \E y \in Nat, m \in 1 .. 12, a \in 1 .. 31 : Found(k, y, m, a)
  <2> DEFINE c == Calendar(k.day)
  <2>1. IsDate(c, k.day)
    BY <1>1, RepresentableYears, CalendarFacts
  <2>2. Packed(k).date = c.mday + 32 * c.month + 512 * (c.year - 1980)
    BY <1>1, DateFields
  <2> HIDE DEF c
  <2>3. /\ c.year \in Nat /\ c.month \in 1 .. 12 /\ c.mday \in 1 .. 31
        /\ Found(k, c.year, c.month, c.mday)
    BY <2>1, <2>2 DEF IsDate
  <2> HIDE DEF Found
  <2> QED
    BY <2>3
<1>a. PICK y \in Nat, m \in 1 .. 12, a \in 1 .. 31 : Found(i, y, m, a)
  <2> HIDE DEF Found
  <2> QED
    BY <1>1
<1>b. PICK z \in Nat, n \in 1 .. 12, b \in 1 .. 31 : Found(j, z, n, b)
  <2> HIDE DEF Found
  <2> QED
    BY <1>1
<1>2. /\ Packed(i).date = a + 32 * m + 512 * (y - 1980)
      /\ YearStart(y) <= i.day /\ i.day < YearStart(y + 1)
      /\ i.day = YearStart(y) + MonthStart(y, m) + a - 1
      /\ m = 12 \/ i.day < YearStart(y) + MonthStart(y, m + 1)
  BY <1>a
<1>3. /\ Packed(j).date = b + 32 * n + 512 * (z - 1980)
      /\ YearStart(z) <= j.day /\ j.day < YearStart(z + 1)
      /\ j.day = YearStart(z) + MonthStart(z, n) + b - 1
      /\ n = 12 \/ j.day < YearStart(z) + MonthStart(z, n + 1)
  BY <1>b
<1> HIDE DEF Found
<1>4. /\ YearStart(y) \in Int /\ YearStart(z) \in Int /\ YearStart(z + 1) \in Int
      /\ \A k \in 1 .. 12 : MonthStart(y, k) \in Nat
  <2>1. z + 1 \in Nat
    OBVIOUS
  <2> QED
    BY <2>1, YearLength, Months
<1>5. y <= z
  <2>1. z < y => YearStart(z + 1) + 365 * (y - (z + 1)) <= YearStart(y)
    <3>1. z + 1 \in Nat /\ (z < y => z + 1 <= y)
      OBVIOUS
    <3> QED
      BY <3>1, YearsGrow
  <2> QED
    BY <1>2, <1>3, <1>4, <2>1
<1>6. y = z => m <= n
  <2> SUFFICES ASSUME y = z, n < m
               PROVE  FALSE
    OBVIOUS
  <2>1. MonthStart(y, n + 1) <= MonthStart(y, m)
    BY MonthsGrow
  <2>2. n # 12 /\ n + 1 \in 1 .. 12
    OBVIOUS
  <2>3. MonthStart(y, n + 1) \in Nat /\ MonthStart(y, m) \in Nat
    BY <1>4, <2>2
  <2> QED
    BY <1>2, <1>3, <1>4, <2>1, <2>2, <2>3
<1>7. y = z /\ m = n => a < b
  <2>1. MonthStart(y, m) \in Nat
    BY <1>4
  <2> QED
    BY <1>2, <1>3, <1>4, <2>1
<1> DEFINE p == Packed(i).date
           q == Packed(j).date
<1>8. /\ p = a + 32 * m + 512 * (y - 1980)
      /\ q = b + 32 * n + 512 * (z - 1980)
  BY <1>2, <1>3
<1> HIDE DEF p, q
<1>9. p < q
  BY <1>5, <1>6, <1>7, <1>8
<1> QED
  BY <1>9 DEF p, q

\* Hours, minutes and pairs of seconds of a time of the day.
LEMMA TimeParts ==
    ASSUME NEW s \in Nat, s < 86400,
           NEW h, h = s \div 3600, NEW m, m = (s % 3600) \div 60, NEW e, e = (s % 60) \div 2
    PROVE  /\ h \in Nat /\ m \in Nat /\ e \in Nat /\ m < 60 /\ e < 30
           /\ s \div 2 = e + 30 * m + 1800 * h
<1> DEFINE r == s % 3600
           x == r % 60
<1>1. h \in Nat /\ r \in Nat /\ r < 3600 /\ s = 3600 * h + r
  OBVIOUS
<1>2. s % 60 = x
  <2> HIDE DEF r
  <2>1. s % 60 = r % 60
    BY <1>1
  <2> QED
    BY <2>1
<1>3. e = x \div 2 /\ m = r \div 60
  BY <1>2
<1> HIDE DEF r
<1>4. m \in Nat /\ x \in Nat /\ m < 60 /\ x < 60 /\ r = 60 * m + x
  BY <1>1, <1>3
<1> HIDE DEF x
<1>5. e \in Nat /\ e < 30 /\ s \div 2 = e + 30 * m + 1800 * h
  BY <1>1, <1>3, <1>4
<1> QED
  BY <1>1, <1>4, <1>5

\* A later second of a day has a greater time, but for the odd second.
LEMMA TimesGrow ==
    ASSUME NEW i, i.sec \in Nat, i.sec < 86400,
           NEW j, j.sec \in Nat, j.sec < 86400
    PROVE  /\ Packed(i).time < Packed(j).time <=> i.sec \div 2 < j.sec \div 2
           /\ Packed(i).time = Packed(j).time <=> i.sec \div 2 = j.sec \div 2
<1> DEFINE t == Packed(i).time
           u == Packed(j).time
           s == i.sec
           r == j.sec
           h == s \div 3600
           m == (s % 3600) \div 60
           e == (s % 60) \div 2
           g == r \div 3600
           n == (r % 3600) \div 60
           f == (r % 60) \div 2
<1>1. t = e + 32 * m + 2048 * h /\ u = f + 32 * n + 2048 * g
  BY DEF Packed
<1>2. s \in Nat /\ s < 86400 /\ r \in Nat /\ r < 86400
  OBVIOUS
<1> HIDE DEF t, u, s, r
<1>3. /\ h \in Nat /\ m \in Nat /\ e \in Nat /\ m < 60 /\ e < 30
      /\ s \div 2 = e + 30 * m + 1800 * h
  <2> HIDE DEF h, m, e
  <2>1. h = s \div 3600 /\ m = (s % 3600) \div 60 /\ e = (s % 60) \div 2
    BY DEF h, m, e
  <2> QED
    BY <1>2, <2>1, TimeParts
<1>4. /\ g \in Nat /\ n \in Nat /\ f \in Nat /\ n < 60 /\ f < 30
      /\ r \div 2 = f + 30 * n + 1800 * g
  <2> HIDE DEF g, n, f
  <2>1. g = r \div 3600 /\ n = (r % 3600) \div 60 /\ f = (r % 60) \div 2
    BY DEF g, n, f
  <2> QED
    BY <1>2, <2>1, TimeParts
<1> HIDE DEF h, m, e, g, n, f
<1>5. t < u <=> s \div 2 < r \div 2
  BY <1>1, <1>3, <1>4
<1>6. t = u <=> s \div 2 = r \div 2
  BY <1>1, <1>3, <1>4
<1> QED
  BY <1>5, <1>6 DEF t, u, s, r

-----------------------------------------------------------------------------
(***************************************************************************)
(* What is read back.                                                      *)
(***************************************************************************)
\* Two steps of time are one.
LEMMA LaterTwice ==
    ASSUME NEW d \in Int, NEW a \in Int, NEW g \in Int, NEW h \in Int
    PROVE  /\ Later(Later([day |-> d, sec |-> a], g), h) = Later([day |-> d, sec |-> a], g + h)
           /\ Later([day |-> d, sec |-> a], g).day \in Int
           /\ Later([day |-> d, sec |-> a], g).sec \in Int
<1> DEFINE n == (a + g) \div 86400
           r == (a + g) % 86400
<1>1. n \in Int /\ r \in Int /\ a + g = 86400 * n + r
  OBVIOUS
<1>2. Later([day |-> d, sec |-> a], g) = [day |-> d + n, sec |-> r]
  BY DEF Later
<1>3. Later([day |-> d + n, sec |-> r], h) = [day |-> (d + n) + (r + h) \div 86400, sec |-> (r + h) % 86400]
  BY DEF Later
<1>4. Later([day |-> d, sec |-> a], g + h)
        = [day |-> d + (a + (g + h)) \div 86400, sec |-> (a + (g + h)) % 86400]
  BY DEF Later
<1> HIDE DEF n, r
<1>5. a + (g + h) = 86400 * n + (r + h)
  BY <1>1
<1> DEFINE q == r + h
<1>6. q \in Int /\ a + (g + h) = 86400 * n + q
  BY <1>1, <1>5
<1>7. Later([day |-> d + n, sec |-> r], h) = [day |-> (d + n) + q \div 86400, sec |-> q % 86400]
  BY <1>3
<1> HIDE DEF q
<1>8. (86400 * n + q) \div 86400 = n + q \div 86400 /\ (86400 * n + q) % 86400 = q % 86400
  BY <1>1, <1>6
<1>9. d + (n + q \div 86400) = (d + n) + q \div 86400
  BY <1>1, <1>6
<1>10. Later([day |-> d, sec |-> a], g + h) = [day |-> (d + n) + q \div 86400, sec |-> q % 86400]
  BY <1>4, <1>6, <1>8, <1>9
<1>11. Later([day |-> d, sec |-> a], g).day = d + n /\ Later([day |-> d, sec |-> a], g).sec = r
  BY <1>2
<1> QED
  BY <1>1, <1>2, <1>7, <1>10, <1>11

\* Whether it is summer does not depend on the second of the minute.
LEMMA SameSummer ==
    ASSUME NEW z \in Zones, NEW d \in Int, NEW s \in Int, s % 2 = 0, NEW k \in {0, 1}
    PROVE  SummerTime(z, [day |-> d, sec |-> s + k]) <=> SummerTime(z, [day |-> d, sec |-> s])
<1> DEFINE u == [day |-> d, sec |-> s + k]
           v == [day |-> d, sec |-> s]
<1>1. u.day = d /\ u.sec = s + k /\ v.day = d /\ v.sec = s
  OBVIOUS
<1> HIDE DEF u, v
<1>2. ASSUME NEW i, i.day \in Int, i.sec \in Nat, i.sec % 60 = 0
      PROVE  Precedes(i, u) <=> Precedes(i, v)
  <2> DEFINE x == i.sec
  <2>1. x \in Nat /\ x % 60 = 0
    BY <1>2
  <2> HIDE DEF x
  <2>2. x % 2 = 0
    BY <2>1
  <2>3. x <= s + k <=> x <= s
    BY <2>1, <2>2
  <2> QED
    BY <1>1, <2>3 DEF Precedes, x
<1>3. ASSUME NEW p \in z.summers
      PROVE  (Precedes(p[1], u) <=> Precedes(p[1], v)) /\ (Precedes(p[2], u) <=> Precedes(p[2], v))
  <2>1. /\ p[1].day \in Int /\ p[1].sec \in Nat /\ p[1].sec % 60 = 0
        /\ p[2].day \in Int /\ p[2].sec \in Nat /\ p[2].sec % 60 = 0
    BY ZonesAssumption
  <2> QED
    BY <1>2, <2>1
<1>4. SummerTime(z, u) <=> SummerTime(z, v)
  BY <1>3, Zenon DEF SummerTime
<1> QED
  BY <1>4 DEF u, v

\* The offsets of a zone.
LEMMA Offsets ==
    ASSUME NEW z \in Zones, NEW offset \in {z.standard, z.summer}
    PROVE  /\ offset \in Int /\ -86400 < offset /\ offset < 86400
           /\ offset % 60 = 0 /\ offset % 2 = 0
<1>1. offset \in Int /\ -86400 < offset /\ offset < 86400 /\ offset % 60 = 0
  BY ZonesAssumption
<1>2. offset % 2 = 0
  BY <1>1
<1> QED
  BY <1>1, <1>2

\* The odd second neither changes the day nor the season.
LEMMA EvenSecond ==
    ASSUME NEW s \in Int, NEW e \in Int, e % 2 = 0, e <= s, s <= e + 1,
           NEW g \in Int, g % 2 = 0
    PROVE  /\ (s + g) \div 86400 = (e + g) \div 86400
           /\ (s + g) % 86400 = ((e + g) % 86400) + (s - e)
           /\ ((e + g) % 86400) % 2 = 0
<1> DEFINE k == s - e
           n == (e + g) \div 86400
           r == (e + g) % 86400
<1>1. k \in {0, 1} /\ e \in Int /\ e % 2 = 0 /\ s = e + k
  OBVIOUS
<1> HIDE DEF k
<1>2. (e + g) % 2 = 0 /\ e + g \in Int
  BY <1>1
<1>3. n \in Int /\ r \in Nat /\ r < 86400 /\ e + g = 86400 * n + r
  BY <1>2
<1>4. r % 2 = 0
  <2> HIDE DEF n, r
  <2> QED
    BY <1>2, <1>3
<1>5. r + k < 86400 /\ r + k \in Nat
  <2> HIDE DEF n, r
  <2> QED
    BY <1>1, <1>3, <1>4
<1>6. s + g = 86400 * n + (r + k)
  <2> HIDE DEF n, r
  <2> QED
    BY <1>1, <1>3
<1>7. (s + g) \div 86400 = n /\ (s + g) % 86400 = r + k
  <2> DEFINE x == s + g
             q == r + k
  <2> HIDE DEF n
  <2>1. x \in Int /\ n \in Int /\ q \in Nat /\ q < 86400 /\ x = 86400 * n + q
    BY <1>3, <1>5, <1>6
  <2> HIDE DEF x, q
  <2>2. x \div 86400 = n /\ x % 86400 = q
    BY <2>1
  <2> QED
    BY <2>2 DEF x, q
<1> QED
  BY <1>1, <1>4, <1>7 DEF k

\* What the second mktime is given, put together.
LEMMA MovedTime ==
    ASSUME NEW sign \in {-1, 1}, NEW o \in Nat
    PROVE  3600 * (sign * (o \div 3600)) + 60 * (sign * ((o % 3600) \div 60)) + sign * (o % 60)
             = sign * o
<1> DEFINE a == o \div 3600
           r == o % 3600
           b == r \div 60
           c == o % 60
<1>2. a \in Nat /\ r \in Nat /\ r < 3600 /\ o = 3600 * a + r
  OBVIOUS
<1>3. c = r % 60
  <2> HIDE DEF a, r
  <2>1. o % 60 = r % 60
    BY <1>2
  <2> QED
    BY <2>1
<1> HIDE DEF a, r
<1>4. b \in Nat /\ c \in Nat /\ r = 60 * b + c
  BY <1>2, <1>3
<1> HIDE DEF b, c
<1>5. o = 3600 * a + 60 * b + c
  BY <1>2, <1>4
<1>6. 3600 * (sign * a) + 60 * (sign * b) + sign * c = sign * o
  BY <1>2, <1>4, <1>5
<1> QED
  BY <1>6 DEF a, b, c, r

\* lf12_read_entry_timestamp, on the stamp of a moment.
LEMMA StampRead ==
    ASSUME NEW z \in Zones, NEW d \in Int, NEW s \in Nat, s < 86400, NEW ms \in Nat, ms < 1000,
           NEW i, i = [day |-> d, sec |-> s, ms |-> ms], Representable(i),
           NEW date, date = Packed(i).date,
           NEW time, time = Packed(i).time,
           NEW tm, tm = Localtime(z, Mktime(z, Unpacked(date, time)))
    PROVE  LET standard == Later([day |-> d, sec |-> s], -z.standard)
               carried == IF SummerTime(z, standard)
                          THEN (s + (z.summer - z.standard)) \div 86400 ELSE 0
           IN  Mktime(z, Restored(tm, date, time)) = [day |-> d + carried, sec |-> s - (s % 2)]
<1> DEFINE standard == Later([day |-> d, sec |-> s], -z.standard)
           carried == IF SummerTime(z, standard)
                      THEN (s + (z.summer - z.standard)) \div 86400 ELSE 0
           fields == Unpacked(date, time)
           e == s - (s % 2)
           off == IF SummerTime(z, standard) THEN z.summer ELSE z.standard
           read == [day |-> d, sec |-> e]
           first == Later(read, -z.standard)
<1>1. /\ d \in Nat /\ 3652 <= d
      /\ DayNumber(fields.year, fields.month, fields.mday) = d
  <2>1. i.day = d
    OBVIOUS
  <2>2. d \in Nat /\ 3652 <= d
    BY <2>1, RepresentableYears
  <2> DEFINE c == Calendar(d)
  <2>3. /\ date \div 512 + 1980 = c.year /\ (date \div 32) % 16 = c.month /\ date % 32 = c.mday
    BY <2>1, DateFields
  <2>4. DayNumber(c.year, c.month, c.mday) = d
    BY <2>2, DayFoundAgain
  <2> HIDE DEF c
  <2>5. fields.year = c.year /\ fields.month = c.month /\ fields.mday = c.mday
    BY <2>3 DEF Unpacked
  <2> QED
    BY <2>2, <2>4, <2>5
<1>2. /\ fields.hour \in Nat /\ fields.min \in Nat /\ fields.sec \in Nat
      /\ 3600 * fields.hour + 60 * fields.min + fields.sec = e
  <2>1. i.sec = s /\ i.ms = ms
    OBVIOUS
  <2>2. /\ 3600 * (time \div 2048) + 60 * ((time \div 32) % 64) + 2 * (time % 32) = e
        /\ time \div 2048 \in Nat /\ (time \div 32) % 64 \in Nat /\ time % 32 \in Nat
    BY <2>1, TimeFields
  <2>3. /\ fields.hour = time \div 2048 /\ fields.min = (time \div 32) % 64
        /\ fields.sec = 2 * (time % 32)
    BY DEF Unpacked
  <2> HIDE DEF fields
  <2> DEFINE a == time \div 2048
             b == (time \div 32) % 64
             c == time % 32
  <2> HIDE DEF a, b, c, e
  <2>4. 3600 * a + 60 * b + 2 * c = e /\ a \in Nat /\ b \in Nat /\ c \in Nat
    BY <2>2 DEF a, b, c
  <2>5. fields.hour = a /\ fields.min = b /\ fields.sec = 2 * c
    BY <2>3 DEF a, b, c
  <2> QED
    BY <2>4, <2>5
<1>3. fields.isdst = FALSE
  BY DEF Unpacked
<1>4. e \in Nat /\ e < 86400 /\ e % 2 = 0 /\ s = e + (s % 2) /\ s % 2 \in {0, 1}
  OBVIOUS
<1> HIDE DEF fields, e
<1>5. Mktime(z, fields) = first
  <2> DEFINE sum == fields.hour * 3600 + fields.min * 60 + fields.sec
  <2>1. sum = e
    BY <1>2
  <2> HIDE DEF sum
  <2>2. Later([day |-> d, sec |-> 0], sum) = [day |-> d, sec |-> e]
    BY <1>4, <2>1 DEF Later
  <2>3. Instant(fields) = Later([day |-> d, sec |-> 0], sum)
    BY <1>1 DEF Instant, sum
  <2> QED
    BY <1>3, <2>2, <2>3 DEF Mktime
<1>6. /\ z.standard \in Int /\ z.standard % 2 = 0 /\ z.summer \in Int /\ z.summer % 2 = 0
      /\ -86400 < z.standard /\ z.standard < 86400 /\ -86400 < z.summer /\ z.summer < 86400
  BY Offsets
<1>7. SummerTime(z, first) <=> SummerTime(z, standard)
  <2> DEFINE g == -z.standard
             n == (e + g) \div 86400
             r == (e + g) % 86400
             k == s % 2
  <2>1. g \in Int /\ g % 2 = 0
    BY <1>6
  <2> HIDE DEF g
  <2>2. /\ (s + g) \div 86400 = n /\ (s + g) % 86400 = r + k /\ r % 2 = 0 /\ k \in {0, 1}
    <3>1. s \in Int /\ e \in Int /\ e % 2 = 0 /\ e <= s /\ s <= e + 1
      BY <1>4
    <3>2. k = s - e /\ k \in {0, 1}
      BY <1>4
    <3> HIDE DEF k
    <3>3. /\ (s + g) \div 86400 = (e + g) \div 86400
          /\ (s + g) % 86400 = ((e + g) % 86400) + (s - e)
          /\ ((e + g) % 86400) % 2 = 0
      <4> HIDE DEF n, r
      <4> QED
        BY <2>1, <3>1, EvenSecond
    <3> QED
      BY <3>2, <3>3
  <2>3. first = [day |-> d + n, sec |-> r]
    BY DEF Later, g
  <2>4. standard = [day |-> d + n, sec |-> r + k]
    BY <2>2 DEF Later, g
  <2>5. n \in Int /\ r \in Int
    BY <1>4, <2>1
  <2> HIDE DEF n, r, k
  <2>6. d + n \in Int
    BY <2>5
  <2> QED
    BY <2>2, <2>3, <2>4, <2>5, <2>6, SameSummer
<1> HIDE DEF first
<1>8. Offset(z, first) = off /\ off \in Int /\ off % 2 = 0
  BY <1>6, <1>7 DEF Offset
<1>9. Later(first, off) = [day |-> d + carried, sec |-> (e + (off - z.standard)) % 86400]
  <2>1. Later(first, off) = Later(read, (-z.standard) + off)
    <3> DEFINE h == -z.standard
    <3>1. d \in Int /\ e \in Int /\ h \in Int /\ off \in Int
      BY <1>4, <1>6, <1>8
    <3>2. first = Later([day |-> d, sec |-> e], h)
      BY DEF first
    <3> HIDE DEF h, off
    <3>3. Later(Later([day |-> d, sec |-> e], h), off) = Later([day |-> d, sec |-> e], h + off)
      BY <3>1, LaterTwice
    <3>4. Later(first, off) = Later(read, h + off)
      BY <3>2, <3>3
    <3> QED
      BY <3>4 DEF h
  <2> DEFINE g == off - z.standard
  <2>2. (-z.standard) + off = g /\ g \in Int /\ g % 2 = 0
    BY <1>6, <1>8
  <2>3. Later(read, g) = [day |-> d + (e + g) \div 86400, sec |-> (e + g) % 86400]
    BY DEF Later
  <2>4. (e + g) \div 86400 = carried
    <3>1. CASE SummerTime(z, standard)
      <4>1. g = z.summer - z.standard
        BY <3>1
      <4> HIDE DEF g
      <4>2. (s + g) \div 86400 = (e + g) \div 86400
        <5>1. e \in Int /\ e % 2 = 0 /\ e <= s /\ s <= e + 1 /\ g \in Int /\ g % 2 = 0
          BY <1>4, <2>2
        <5> QED
          BY <5>1, EvenSecond
      <4> QED
        BY <3>1, <4>1, <4>2
    <3>2. CASE ~ SummerTime(z, standard)
      <4>1. g = 0 /\ carried = 0
        BY <1>6, <3>2
      <4> HIDE DEF g
      <4> QED
        BY <1>4, <4>1
    <3> QED
      BY <3>1, <3>2
  <2> HIDE DEF g, carried, off, standard
  <2>5. Later(first, off) = [day |-> d + carried, sec |-> (e + g) % 86400]
    BY <2>1, <2>2, <2>3, <2>4
  <2> QED
    BY <2>5 DEF g
<1>10. carried \in Int /\ d + carried \in Nat
  <2>1. carried \in Int /\ -3 <= carried
    BY <1>6
  <2> QED
    BY <1>1, <2>1
<1> HIDE DEF carried, off, standard
<1>11. /\ DayNumber(tm.year, tm.month, tm.mday) = d + carried
       /\ tm.isdst = SummerTime(z, first) /\ tm.gmtoff = off
  <2> DEFINE local == Later(first, off)
             c == Calendar(local.day)
  <2>1. local.day = d + carried
    BY <1>9
  <2>2. DayNumber(c.year, c.month, c.mday) = d + carried
    BY <1>10, <2>1, DayFoundAgain
  <2>3. tm = Localtime(z, first)
    BY <1>5 DEF fields
  <2> HIDE DEF local
  <2>4. tm.year = c.year /\ tm.month = c.month /\ tm.mday = c.mday
    BY <1>8, <2>3 DEF Localtime, local
  <2>5. tm.isdst = SummerTime(z, first) /\ tm.gmtoff = off
    BY <1>8, <2>3 DEF Localtime
  <2> QED
    BY <2>2, <2>4, <2>5
<1>12. LET new == Restored(tm, date, time)
       IN  /\ new.hour * 3600 + new.min * 60 + new.sec = e + off
           /\ new.year = tm.year /\ new.month = tm.month /\ new.mday = tm.mday
           /\ new.isdst = tm.isdst
  <2> DEFINE new == Restored(tm, date, time)
             sign == IF off < 0 THEN -1 ELSE 1
             o == sign * off
  <2>1. tm = [year |-> tm.year, month |-> tm.month, mday |-> tm.mday, hour |-> tm.hour,
              min |-> tm.min, sec |-> tm.sec, isdst |-> tm.isdst, gmtoff |-> tm.gmtoff]
    BY DEF Localtime
  <2>2. /\ new.hour = fields.hour + sign * (o \div 3600)
        /\ new.min = fields.min + sign * ((o % 3600) \div 60)
        /\ new.sec = fields.sec + sign * (o % 60)
        /\ new.year = tm.year /\ new.month = tm.month /\ new.mday = tm.mday
        /\ new.isdst = tm.isdst
    BY <1>11, <2>1 DEF Restored, fields
  <2> HIDE DEF new
  <2> DEFINE a == sign * (o \div 3600)
             b == sign * ((o % 3600) \div 60)
             c == sign * (o % 60)
  <2>3. 3600 * a + 60 * b + c = off
    <3>1. sign \in {-1, 1} /\ o \in Nat /\ sign * o = off
      BY <1>8
    <3> HIDE DEF o, sign
    <3>2. 3600 * a + 60 * b + c = sign * o
      BY <3>1, MovedTime
    <3> QED
      BY <3>1, <3>2
  <2>4. a \in Int /\ b \in Int /\ c \in Int
    <3>1. sign \in {-1, 1} /\ o \in Nat
      BY <1>8
    <3> HIDE DEF sign, o
    <3>2. o \div 3600 \in Int /\ (o % 3600) \div 60 \in Int /\ o % 60 \in Int
      BY <3>1
    <3> QED
      BY <3>1, <3>2
  <2>5. new.hour = fields.hour + a /\ new.min = fields.min + b /\ new.sec = fields.sec + c
    BY <2>2
  <2> HIDE DEF a, b, c
  <2>6. new.hour * 3600 + new.min * 60 + new.sec = e + off
    BY <1>2, <2>3, <2>4, <2>5
  <2> QED
    BY <2>2, <2>6 DEF new
<1>13. Mktime(z, Restored(tm, date, time)) = [day |-> d + carried, sec |-> e]
  <2> DEFINE new == Restored(tm, date, time)
             sum == new.hour * 3600 + new.min * 60 + new.sec
             day == d + carried
  <2>1. sum = e + off /\ DayNumber(new.year, new.month, new.mday) = day
    BY <1>11, <1>12
  <2>2. (IF new.isdst THEN z.summer ELSE z.standard) = off
    BY <1>7, <1>11, <1>12 DEF off
  <2>3. Instant(new) = Later([day |-> day, sec |-> 0], sum)
    BY <2>1 DEF Instant
  <2>4. Mktime(z, new) = Later(Instant(new), -off)
    BY <2>2 DEF Mktime
  <2> HIDE DEF new, sum
  <2>5. Mktime(z, new) = Later(Later([day |-> day, sec |-> 0], e + off), -off)
    BY <2>1, <2>3, <2>4
  <2>a. day \in Int /\ e + off \in Int /\ -off \in Int /\ (e + off) + (-off) = e
    BY <1>4, <1>8, <1>10
  <2> HIDE DEF day
  <2>6. Mktime(z, new) = Later([day |-> day, sec |-> 0], e)
    BY <2>5, <2>a, LaterTwice
  <2>7. Later([day |-> day, sec |-> 0], e) = [day |-> day, sec |-> e]
    <3>1. (0 + e) \div 86400 = 0 /\ (0 + e) % 86400 = e /\ day + 0 = day
      BY <1>4, <2>a
    <3> QED
      BY <3>1 DEF Later
  <2> QED
    BY <2>6, <2>7 DEF new, day
<1> QED
  BY <1>13 DEF carried, standard, e

-----------------------------------------------------------------------------
(***************************************************************************)
(* The steps of the two commands.                                          *)
(***************************************************************************)
\* What each step has handed on to those behind it.
HandedOn ==
    /\ phase \in {"start", "clock", "created", "packed", "first", "read"}
    /\ zone \in Zones
    /\ phase # "start" => clock \in Instants
    /\ phase \in {"created", "packed", "first", "read"} =>
        \E delay \in Delays : now = SecondReading(delay) /\ created = Combined(delay)
    /\ phase \in {"packed", "first", "read"} => entry = Packed(created)
    /\ phase \in {"first", "read"} =>
        timeinfo = Localtime(zone, Mktime(zone, Unpacked(entry.date, entry.time)))
    /\ phase = "read" =>
        LET instant == Mktime(zone, Restored(timeinfo, entry.date, entry.time))
        IN  answer = [day |-> instant.day, sec |-> instant.sec + entry.msecs \div 100,
                      cs |-> entry.msecs % 100]

LEMMA HandedOnInductive == StampSpec => []HandedOn
<1>1. StampInit => HandedOn
  BY DEF StampInit, HandedOn
<1>2. HandedOn /\ [StampNext]_stampVars => HandedOn'
  <2> SUFFICES ASSUME HandedOn, [StampNext]_stampVars
               PROVE  HandedOn'
    OBVIOUS
  <2>1. CASE GetTimeOfDay
    BY <2>1 DEF HandedOn, GetTimeOfDay
  <2>2. CASE Time
    <3>1. \E delay \in Delays : now' = SecondReading(delay) /\ created' = Combined(delay)
      BY <2>2 DEF Time
    <3>2. clock' = clock
      BY <2>2 DEF Time
    <3>3. \E delay \in Delays : now' = SecondReading(delay)' /\ created' = Combined(delay)'
      BY <3>1, <3>2 DEF SecondReading, Combined
    <3> QED
      BY <2>2, <3>3 DEF HandedOn, Time
  <2>3. CASE Generate
    BY <2>3 DEF HandedOn, Generate, SecondReading, Combined
  <2>4. CASE FirstMktime
    BY <2>4 DEF HandedOn, FirstMktime, SecondReading, Combined
  <2>5. CASE SecondMktime
    BY <2>5 DEF HandedOn, SecondMktime, SecondReading, Combined
  <2>6. CASE UNCHANGED stampVars
    BY <2>6 DEF HandedOn, stampVars, SecondReading, Combined
  <2> QED
    BY <2>1, <2>2, <2>3, <2>4, <2>5, <2>6 DEF StampNext
<1> QED
  BY <1>1, <1>2, PTL DEF StampSpec

\* The time stamp of a new file is a moment of the years 1980 to 2107.
LEMMA CreatedMoment ==
    ASSUME HandedOn, phase \in {"created", "packed", "first", "read"}
    PROVE  /\ created = [day |-> created.day, sec |-> created.sec, ms |-> created.ms]
           /\ created.day \in Int /\ created.sec \in Nat /\ created.sec < 86400
           /\ created.ms \in Nat /\ created.ms < 1000
           /\ Representable(created)
<1>1. PICK delay \in Delays : now = SecondReading(delay) /\ created = Combined(delay)
  BY DEF HandedOn
<1>2. /\ clock \in Instants /\ clock.day \in Nat /\ clock.sec \in Nat
      /\ clock.ms \in Nat /\ clock.ms < 1000 /\ delay \in Nat
      /\ Representable(Later(clock, (clock.ms + delay) \div 1000))
  <2>1. clock \in Instants
    BY DEF HandedOn
  <2>2. clock \in [day : Nat, sec : Nat, ms : Nat] /\ clock.ms < 1000 /\ delay \in Nat
    BY <2>1, InstantsAssumption
  <2> QED
    BY <2>1, <2>2, InstantsAssumption
<1> DEFINE k == (clock.ms + delay) \div 1000
<1>3. k \in Nat
  BY <1>2
<1> HIDE DEF k
<1>4. created = [day |-> clock.day + (clock.sec + k) \div 86400,
                 sec |-> (clock.sec + k) % 86400, ms |-> clock.ms]
  BY <1>1 DEF Combined, SecondReading, Later, k
<1>5. created.day = Later(clock, k).day
  BY <1>4 DEF Later
<1>6. Representable(created)
  BY <1>2, <1>5 DEF Representable, k
<1>7. created.day \in Int /\ created.sec \in Nat /\ created.sec < 86400
  BY <1>2, <1>3, <1>4
<1> QED
  BY <1>2, <1>4, <1>6, <1>7

\* The stamp lies between the two looks at the clock, but for less than a second.
LEMMA CreatedNear ==
    ASSUME HandedOn, phase \in {"created", "packed", "first", "read"}
    PROVE  LET passed == [day |-> now.day, sec |-> now.sec + 1]
           IN  /\ Precedes(clock, created)
               /\ created.ms = clock.ms
               /\ created.day = now.day /\ created.sec = now.sec
               /\ ~Precedes(passed, created)
<1>1. PICK delay \in Delays : now = SecondReading(delay) /\ created = Combined(delay)
  BY DEF HandedOn
<1>2. /\ clock.day \in Nat /\ clock.sec \in Nat /\ clock.sec < 86400
      /\ clock.ms \in Nat /\ delay \in Nat
  <2>1. clock \in Instants
    BY DEF HandedOn
  <2> QED
    BY <2>1, InstantsAssumption
<1> DEFINE k == (clock.ms + delay) \div 1000
           d == clock.day
           s == clock.sec
<1>3. k \in Nat /\ d \in Nat /\ s \in Nat /\ s < 86400
  BY <1>2
<1>4. /\ now = Later(clock, k)
      /\ created.day = now.day /\ created.sec = now.sec /\ created.ms = clock.ms
  <2>1. now = Later(clock, k)
    BY <1>1 DEF SecondReading
  <2>2. created = [day |-> now.day, sec |-> now.sec, ms |-> clock.ms]
    BY <1>1 DEF Combined
  <2> HIDE DEF k
  <2> QED
    BY <2>1, <2>2
<1>5. now.day = d + (s + k) \div 86400 /\ now.sec = (s + k) % 86400
  BY <1>4 DEF Later
<1> HIDE DEF k, d, s
<1> DEFINE n == (s + k) \div 86400
           r == (s + k) % 86400
<1>6. n \in Nat /\ r \in Nat /\ (n = 0 => r = s + k)
  BY <1>3
<1>7. now.day = d + n /\ now.sec = r
  BY <1>5
<1> HIDE DEF n, r
<1>8. Precedes(clock, created)
  BY <1>3, <1>4, <1>6, <1>7 DEF Precedes, d, s
<1>9. ~Precedes([day |-> now.day, sec |-> now.sec + 1], created)
  BY <1>3, <1>4, <1>6, <1>7 DEF Precedes
<1> QED
  BY <1>4, <1>8, <1>9

\* time_usec: the stamp of a new file is at least as late as the first reading of
\* the clock and less than a second ahead of the second one, however long the
\* command is held up between them.
THEOREM StampsAreNear == StampSpec => []StampNearMoment
<1>1. HandedOn => StampNearMoment
  <2> SUFFICES ASSUME HandedOn, phase = "created"
               PROVE  LET passed == [day |-> now.day, sec |-> now.sec + 1]
                      IN  /\ Precedes(clock, created)
                          /\ created.day = clock.day /\ created.sec = clock.sec => created.ms >= clock.ms
                          /\ ~Precedes(passed, created)
    BY DEF StampNearMoment
  <2>1. created.ms \in Nat
    BY CreatedMoment
  <2> QED
    BY <2>1, CreatedNear
<1> QED
  BY <1>1, HandedOnInductive, PTL

\* lf12_read_entry_timestamp gives back the stamp of every moment of the years 1980
\* to 2107 to the hundredth of a second, in every zone and on whatever days its
\* offset changes, a day late or early in the one case ReadsBack names.
THEOREM StampsAreReadBack == StampSpec => []ReadsBack
<1>1. HandedOn => ReadsBack
  <2> SUFFICES ASSUME HandedOn, phase = "read"
               PROVE  ReadsBack
    BY DEF ReadsBack
  <2> DEFINE d == created.day
             s == created.sec
             ms == created.ms
             standard == Later([day |-> d, sec |-> s], -zone.standard)
             carried == IF SummerTime(zone, standard)
                        THEN (s + (zone.summer - zone.standard)) \div 86400 ELSE 0
             instant == Mktime(zone, Restored(timeinfo, entry.date, entry.time))
  <2>1. /\ created = [day |-> d, sec |-> s, ms |-> ms]
        /\ d \in Int /\ s \in Nat /\ s < 86400 /\ ms \in Nat /\ ms < 1000
        /\ Representable(created)
    BY CreatedMoment
  <2>2. /\ zone \in Zones /\ entry = Packed(created)
        /\ timeinfo = Localtime(zone, Mktime(zone, Unpacked(entry.date, entry.time)))
        /\ answer = [day |-> instant.day, sec |-> instant.sec + entry.msecs \div 100,
                     cs |-> entry.msecs % 100]
    BY DEF HandedOn
  <2>3. entry.msecs \div 100 = s % 2 /\ entry.msecs % 100 = ms \div 10
    BY <2>1, <2>2, TimeFields
  <2>4. instant = [day |-> d + carried, sec |-> s - (s % 2)]
    <3> DEFINE date == entry.date
               time == entry.time
    <3>1. date = Packed(created).date /\ time = Packed(created).time
      BY <2>2
    <3>2. timeinfo = Localtime(zone, Mktime(zone, Unpacked(date, time)))
      BY <2>2
    <3> HIDE DEF d, s, ms, date, time
    <3>3. Mktime(zone, Restored(timeinfo, date, time)) = [day |-> d + carried, sec |-> s - (s % 2)]
      BY <2>1, <2>2, <3>1, <3>2, StampRead
    <3> QED
      BY <3>3 DEF date, time
  <2>5. (s - (s % 2)) + (s % 2) = s
    BY <2>1
  <2> HIDE DEF instant
  <2>6. answer = [day |-> d + carried, sec |-> s, cs |-> ms \div 10]
    BY <2>2, <2>3, <2>4, <2>5
  <2>7. answer = [[day |-> d, sec |-> s, cs |-> ms \div 10] EXCEPT !.day = @ + carried]
    <3> HIDE DEF carried
    <3> QED
      BY <2>6
  <2> QED
    BY <2>7 DEF ReadsBack, Exact
<1> QED
  BY <1>1, HandedOnInductive, PTL

\* Of two moments of the years 1980 to 2107 the later one has the greater stamp,
\* word by word, to the resolution of 10 ms.
LEMMA StampsGrow ==
    ASSUME NEW i, i.day \in Int, i.sec \in Nat, i.sec < 86400, i.ms \in Nat, i.ms < 1000,
           Representable(i),
           NEW j, j.day \in Int, j.sec \in Nat, j.sec < 86400, j.ms \in Nat, j.ms < 1000,
           Representable(j)
    PROVE  StampBelow(Packed(i), Packed(j)) <=> MomentBelow(i, j)
<1> DEFINE a == Packed(i)
           b == Packed(j)
           s == i.sec
           r == j.sec
           p == i.ms \div 10
           q == j.ms \div 10
<1>1. (i.day < j.day => a.date < b.date) /\ (j.day < i.day => b.date < a.date)
  BY DatesGrow
<1>2. i.day = j.day => a.date = b.date
  BY DEF Packed
<1>3. /\ a.time < b.time <=> s \div 2 < r \div 2
      /\ a.time = b.time <=> s \div 2 = r \div 2
  BY TimesGrow
<1>4. a.msecs = p + 100 * (s % 2) /\ b.msecs = q + 100 * (r % 2)
  BY TimeFields
<1>5. a.date \in Int /\ b.date \in Int
  <2>1. ASSUME NEW u, u.day \in Int, Representable(u)
        PROVE  Packed(u).date \in Int
    <3> DEFINE c == Calendar(u.day)
    <3>1. Packed(u).date = c.mday + 32 * c.month + 512 * (c.year - 1980)
      BY <2>1, DateFields
    <3>2. c.mday \in 1 .. 31 /\ c.month \in 1 .. 12 /\ c.year \in 1980 .. 2107
      BY <2>1, DateFields
    <3> DEFINE y == c.year
               m == c.month
               x == c.mday
    <3>3. Packed(u).date = x + 32 * m + 512 * (y - 1980)
      BY <3>1
    <3>4. x \in Int /\ m \in Int /\ y \in Int
      BY <3>2
    <3> HIDE DEF c, x, m, y
    <3> QED
      BY <3>3, <3>4
  <2> QED
    BY <2>1
<1>6. s \in Nat /\ r \in Nat /\ p \in Nat /\ q \in Nat /\ p < 100 /\ q < 100
  OBVIOUS
<1> DEFINE stampBelow == \/ a.date < b.date
                         \/ /\ a.date = b.date
                            /\ \/ a.time < b.time
                               \/ a.time = b.time /\ a.msecs < b.msecs
           before == \/ i.day < j.day
                     \/ i.day = j.day /\ s < r
                     \/ i.day = j.day /\ s = r /\ p < q
<1>7. (a.time < b.time \/ (a.time = b.time /\ a.msecs < b.msecs))
          <=> (s < r \/ (s = r /\ p < q))
  <2> HIDE DEF a, b, s, r, p, q
  <2>1. s \div 2 < r \div 2 => s < r
    BY <1>6
  <2>2. s \div 2 = r \div 2 =>
          (p + 100 * (s % 2) < q + 100 * (r % 2) <=> (s < r \/ (s = r /\ p < q)))
    BY <1>6
  <2>3. r \div 2 < s \div 2 => r < s
    BY <1>6
  <2>4. s \div 2 \in Int /\ r \div 2 \in Int
    BY <1>6
  <2> QED
    BY <1>3, <1>4, <1>6, <2>1, <2>2, <2>3, <2>4
<1>8. stampBelow <=> before
  <2> HIDE DEF a, b, s, r, p, q
  <2> QED
    BY <1>1, <1>2, <1>5, <1>7
<1>9. ~Precedes(j, i) <=> (i.day < j.day \/ (i.day = j.day /\ s < r))
  BY DEF Precedes
<1> QED
  BY <1>8, <1>9 DEF StampBelow, MomentBelow

\* Of two files the one put later never has the smaller stamp, as long as no second
\* begins between the two looks at the clock; if one does, from the next second on.
THEOREM StampsAreOrdered == StampSpec => []StampsKeepOrder
<1>1. HandedOn => StampsKeepOrder
  <2> SUFFICES ASSUME HandedOn, phase = "packed", NEW other \in Landmarks
               PROVE  LET stamp == Packed(other)
                      IN  /\ ~MomentBelow(clock, other) => ~StampBelow(entry, stamp)
                          /\ ~Precedes(other, now) => ~StampBelow(stamp, entry)
                          /\ now.day = clock.day /\ now.sec = clock.sec =>
                              (StampBelow(stamp, entry) <=> MomentBelow(other, clock))
    BY DEF StampsKeepOrder
  <2>1. /\ created.day \in Int /\ created.sec \in Nat /\ created.sec < 86400
        /\ created.ms \in Nat /\ created.ms < 1000
        /\ Representable(created)
    BY CreatedMoment
  <2>2. /\ other.day \in Int /\ other.sec \in Nat /\ other.sec < 86400
        /\ other.ms \in Nat /\ other.ms < 1000
        /\ Representable(other)
    BY InstantsAssumption
  <2>3. entry = Packed(created)
    BY DEF HandedOn
  <2>4. clock.day \in Int /\ clock.sec \in Nat
    <3>1. clock \in Instants
      BY DEF HandedOn
    <3> QED
      BY <3>1, InstantsAssumption
  <2>5. /\ Precedes(clock, created) /\ created.ms = clock.ms
        /\ created.day = now.day /\ created.sec = now.sec
    BY CreatedNear
  <2>6. /\ StampBelow(entry, Packed(other)) <=> MomentBelow(created, other)
        /\ StampBelow(Packed(other), entry) <=> MomentBelow(other, created)
    BY <2>1, <2>2, <2>3, StampsGrow
  <2>7. MomentBelow(created, other) => MomentBelow(clock, other)
    BY <2>1, <2>2, <2>4, <2>5 DEF MomentBelow, Precedes
  <2>8. ~Precedes(other, now) => ~MomentBelow(other, created)
    BY <2>1, <2>2, <2>5 DEF MomentBelow, Precedes
  <2>9. now.day = clock.day /\ now.sec = clock.sec
            => (MomentBelow(other, created) <=> MomentBelow(other, clock))
    BY <2>5 DEF MomentBelow, Precedes
  <2> QED
    BY <2>6, <2>7, <2>8, <2>9
<1> QED
  BY <1>1, HandedOnInductive, PTL
=============================================================================
