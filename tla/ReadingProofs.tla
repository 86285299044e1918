----------------------------- MODULE ReadingProofs -----------------------------
(***************************************************************************)
(* Proofs about how texts are read.                                        *)
(*                                                                         *)
(* Of the calendar of Dates, for every day from 1 January 2000 on: a day   *)
(* is its year, month and day of the month, and what the resolver makes of *)
(* a weekday, of a day of the month and of a date without a year is the    *)
(* first such day to come.  Every fourth year of this calendar is a leap   *)
(* year, which time.Date agrees with to 2099.                              *)
(*                                                                         *)
(* Of the distance of two words, for words of any letters and any length:  *)
(* up to two it is the least number of edits between them.                 *)
(*                                                                         *)
(* Of the cleaner: a draft is replaced only by a better one.  What has to  *)
(* be shown for it is that every name made by the rules is a sequence, so  *)
(* that its words can be counted, and that a name with only words of noise *)
(* left out has less noise.                                                *)
(*                                                                         *)
(* The folds and recursive functions of the model are CHOOSEn: that there  *)
(* is a function that fits each is proved first, by induction over a set   *)
(* of numbers, then what the chosen one returns.                           *)
(***************************************************************************)
EXTENDS Reading, FiniteSetTheorems, WellFoundedInduction, SequenceTheorems, TLAPS


-----------------------------------------------------------------------------
(* Years and months.                                                        *)

Leap(y) == IF y % 4 = 0 THEN 1 ELSE 0

\* A leap year has a day more.
LEMMA YearLength ==
  ASSUME NEW y \in Nat
  PROVE  NewYear(y) \in Int /\ NewYear(y + 1) = NewYear(y) + 365 + Leap(y) /\ Leap(y) \in {0, 1}
BY DEF NewYear, Leap

\* A later year begins after an earlier one has ended.
LEMMA YearsApart ==
  ASSUME NEW y \in Nat, NEW z \in Nat, y < z
  PROVE  NewYear(y + 1) <= NewYear(z)
BY DEF NewYear

\* Every day is in its year.
LEMMA InItsYear ==
  ASSUME NEW n \in Nat
  PROVE  /\ Year(n) \in Nat /\ Year(n) >= 2000
         /\ NewYear(Year(n)) <= n /\ n < NewYear(Year(n) + 1)
<1>1. PICK k \in Nat : k = (4 * n) \div 1461 /\ 1461 * k <= 4 * n /\ 4 * n < 1461 * k + 1461
  OBVIOUS
<1>2. NewYear(2000 + k) <= n /\ n < NewYear((2000 + k) + 1)
  BY <1>1 DEF NewYear
<1>3. 2000 + k \in (2000 + n \div 366)..(2000 + n \div 365)
  BY <1>1
<1>4. \A y \in (2000 + n \div 366)..(2000 + n \div 365) : y \in Nat /\ y >= 2000
  OBVIOUS
<1> QED
  BY <1>2, <1>3, <1>4 DEF Year

\* The days of a year before a month, without the 29th of February; the thirteenth
\* month is the next year's first.
Before(m) ==
    IF m = 1 THEN 0 ELSE IF m = 2 THEN 31 ELSE IF m = 3 THEN 59 ELSE IF m = 4 THEN 90
    ELSE IF m = 5 THEN 120 ELSE IF m = 6 THEN 151 ELSE IF m = 7 THEN 181 ELSE IF m = 8 THEN 212
    ELSE IF m = 9 THEN 243 ELSE IF m = 10 THEN 273 ELSE IF m = 11 THEN 304
    ELSE IF m = 12 THEN 334 ELSE 365

\* Where a month of a year begins.
LEMMA MonthStarts ==
  ASSUME NEW y \in Nat, NEW m \in 1..13, NEW d \in Int
  PROVE  Date(y, m, d) = NewYear(y) + Before(m) + (IF m > 2 THEN Leap(y) ELSE 0) + d - 1
<1>1. NewYear(y) \in Int /\ NewYear(y + 1) = NewYear(y) + 365 + Leap(y) /\ Leap(y) \in {0, 1}
  BY YearLength
<1>2. CASE m = 13
  <2>1. y + (13 - 1) \div 12 = y + 1 /\ ((13 - 1) % 12) + 1 = 1 /\ ~(1 > 2) /\ 13 > 2
    OBVIOUS
  <2>2. Date(y, m, d) = NewYear(y + 1) + DaysBefore[1] + d - 1 + 0
    BY <1>2, <2>1 DEF Date
  <2>3. DaysBefore[1] = 0 /\ Before(13) = 365
    BY DEF DaysBefore, Before
  <2> QED
    BY <1>1, <1>2, <2>1, <2>2, <2>3
<1>3. CASE m \in 1..12
  <2>1. y + (m - 1) \div 12 = y /\ ((m - 1) % 12) + 1 = m
    BY <1>3
  <2>2. Date(y, m, d) = NewYear(y) + DaysBefore[m] + d - 1 + IF m > 2 THEN Leap(y) ELSE 0
    BY <2>1 DEF Date, Leap
  <2>3. DaysBefore[m] = Before(m) /\ Before(m) \in Int
    BY <1>3 DEF DaysBefore, Before
  <2> QED
    BY <1>1, <1>3, <2>2, <2>3
<1> QED
  BY <1>2, <1>3

\* A month has 28 days at least and 31 at most.
LEMMA MonthLength ==
  ASSUME NEW y \in Nat, NEW m \in 1..12
  PROVE  /\ Date(y, m, 1) \in Int /\ Date(y, m + 1, 1) \in Int
         /\ Date(y, m, 1) + 28 <= Date(y, m + 1, 1) /\ Date(y, m + 1, 1) <= Date(y, m, 1) + 31
         /\ NewYear(y) <= Date(y, m, 1) /\ Date(y, m + 1, 1) <= NewYear(y + 1)
<1>1. PICK a \in Int, l \in {0, 1} :
         a = NewYear(y) /\ l = Leap(y) /\ NewYear(y + 1) = a + 365 + l
  BY YearLength
<1>2. \A d \in Int : Date(y, m, d) = a + Before(m) + (IF m > 2 THEN l ELSE 0) + d - 1
  BY <1>1, MonthStarts
<1>3. Date(y, m + 1, 1) = a + Before(m + 1) + (IF m + 1 > 2 THEN l ELSE 0) + 1 - 1
  <2>1. m + 1 \in 1..13
    OBVIOUS
  <2> QED
    BY <1>1, <2>1, MonthStarts
<1>4. /\ Before(m) \in 0..334 /\ Before(m + 1) \in 31..365
      /\ Before(m) + 28 <= Before(m + 1) /\ Before(m + 1) <= Before(m) + 31
      /\ m = 2 => Before(m + 1) = Before(m) + 28
  BY DEF Before
<1> DEFINE b == Before(m)
           c == Before(m + 1)
<1>5. b \in Int /\ c \in Int /\ b = Before(m) /\ c = Before(m + 1)
  BY <1>4
<1> HIDE DEF b, c
<1>6. PICK i \in {0, 1}, j \in {0, 1} :
         /\ i = (IF m > 2 THEN l ELSE 0) /\ j = (IF m + 1 > 2 THEN l ELSE 0)
         /\ i <= j /\ j <= l /\ (m # 2 => i = j)
  OBVIOUS
<1>8. Date(y, m, 1) = a + b + i
  BY <1>2, <1>5, <1>6
<1>9. Date(y, m + 1, 1) = a + c + j
  BY <1>3, <1>5, <1>6
<1>10. a + b + i + 28 <= a + c + j /\ a + c + j <= a + b + i + 31
  BY <1>4, <1>5, <1>6
<1>11. a <= a + b + i /\ a + c + j <= a + 365 + l
  BY <1>4, <1>5, <1>6
<1>12. Date(y, m, 1) \in Int /\ Date(y, m + 1, 1) \in Int
  BY <1>5, <1>6, <1>8, <1>9
<1>13. Date(y, m, 1) + 28 <= Date(y, m + 1, 1) /\ Date(y, m + 1, 1) <= Date(y, m, 1) + 31
  BY <1>8, <1>9, <1>10
<1>14. NewYear(y) <= Date(y, m, 1) /\ Date(y, m + 1, 1) <= NewYear(y + 1)
  BY <1>1, <1>8, <1>9, <1>11
<1> QED
  BY <1>12, <1>13, <1>14

\* The days of a month follow one another.
LEMMA DaysOfMonth ==
  ASSUME NEW y \in Nat, NEW m \in 1..12, NEW d \in Int
  PROVE  Date(y, m, d) = Date(y, m, 1) + d - 1
<1>1. PICK a \in Int, l \in {0, 1}, b \in Int : a = NewYear(y) /\ l = Leap(y) /\ b = Before(m)
  BY YearLength DEF Before
<1>2. \A n \in Int : Date(y, m, n) = a + b + (IF m > 2 THEN l ELSE 0) + n - 1
  BY <1>1, MonthStarts
<1> QED
  BY <1>2

\* A later month begins after an earlier one of its year has ended.
LEMMA MonthsApart ==
  ASSUME NEW y \in Nat, NEW m \in 1..12, NEW k \in 1..12, m < k
  PROVE  Date(y, m + 1, 1) <= Date(y, k, 1)
<1>1. PICK a \in Int, l \in {0, 1} : a = NewYear(y) /\ l = Leap(y)
  BY YearLength
<1>2. m + 1 \in 1..13 /\ m + 1 <= k
  OBVIOUS
<1>3. /\ Date(y, k, 1) = a + Before(k) + (IF k > 2 THEN l ELSE 0) + 1 - 1
      /\ Date(y, m + 1, 1) = a + Before(m + 1) + (IF m + 1 > 2 THEN l ELSE 0) + 1 - 1
  BY <1>1, <1>2, MonthStarts
<1>4. Before(k) \in Int /\ Before(m + 1) \in Int /\ Before(m + 1) <= Before(k)
  BY <1>2 DEF Before
<1> QED
  BY <1>1, <1>2, <1>3, <1>4

\* Every day is in its month.
LEMMA InItsMonth ==
  ASSUME NEW n \in Nat
  PROVE  /\ Month(n) \in 1..12
         /\ Date(Year(n), Month(n), 1) <= n /\ n < Date(Year(n), Month(n) + 1, 1)
<1>1. PICK y \in Nat : y = Year(n) /\ NewYear(y) <= n /\ n < NewYear(y + 1)
  BY InItsYear
<1>2. \E m \in 1..12 : Date(y, m, 1) <= n /\ n < Date(y, m + 1, 1)
  <2>1. /\ NewYear(y) \in Int /\ Leap(y) \in {0, 1} /\ Before(1) = 0 /\ Before(13) = 365
        /\ NewYear(y + 1) = NewYear(y) + 365 + Leap(y)
    BY YearLength DEF Before
  <2>2. \A m \in 1..12 : Date(y, m, 1) \in Int
    BY MonthLength
  <2>3. Date(y, 1, 1) = NewYear(y) /\ Date(y, 13, 1) = NewYear(y + 1)
    BY <2>1, MonthStarts
  <2> HIDE <2>1
  <2>4. /\ Date(y, 1, 1) <= n /\ n < Date(y, 13, 1) /\ Date(y, 13, 1) \in Int
        /\ \A m \in 1..12 : Date(y, m, 1) \in Int
    BY <1>1, <2>1, <2>2, <2>3
  <2>5. \A m \in {2, 3, 4, 5, 6, 7, 8, 9, 10, 11, 12, 13} :
           n < Date(y, m, 1) \/ Date(y, m, 1) <= n
    BY <2>4
  <2>6. /\ 1 + 1 = 2 /\ 2 + 1 = 3 /\ 3 + 1 = 4 /\ 4 + 1 = 5 /\ 5 + 1 = 6 /\ 6 + 1 = 7
        /\ 7 + 1 = 8 /\ 8 + 1 = 9 /\ 9 + 1 = 10 /\ 10 + 1 = 11 /\ 11 + 1 = 12 /\ 12 + 1 = 13
        /\ {1, 2, 3, 4, 5, 6, 7, 8, 9, 10, 11, 12} \subseteq 1..12
    OBVIOUS
  <2> QED
    BY <2>4, <2>5, <2>6
<1> QED
  BY <1>1, <1>2 DEF Month

\* A day that lies in a month of a year is that month's.
LEMMA ReadBack ==
  ASSUME NEW y \in Nat, y >= 2000, NEW m \in 1..12, NEW n \in Nat,
         Date(y, m, 1) <= n, n < Date(y, m + 1, 1)
  PROVE  Year(n) = y /\ Month(n) = m /\ Day(n) = n - Date(y, m, 1) + 1
<1>1. PICK z \in Nat : z = Year(n) /\ NewYear(z) <= n /\ n < NewYear(z + 1)
  BY InItsYear
<1>2. NewYear(y) <= n /\ n < NewYear(y + 1)
  <2>1. NewYear(y) \in Int /\ NewYear(y + 1) \in Int
    BY DEF NewYear
  <2>2. /\ Date(y, m, 1) \in Int /\ Date(y, m + 1, 1) \in Int
        /\ NewYear(y) <= Date(y, m, 1) /\ Date(y, m + 1, 1) <= NewYear(y + 1)
    BY MonthLength
  <2> QED
    BY <2>1, <2>2
<1>3. y = z
  <2>1. /\ NewYear(y) \in Int /\ NewYear(z) \in Int /\ NewYear(y + 1) \in Int
        /\ NewYear(z + 1) \in Int
    BY DEF NewYear
  <2>2. ~(y < z)
    BY <1>1, <1>2, <2>1, YearsApart
  <2>3. ~(z < y)
    BY <1>1, <1>2, <2>1, YearsApart
  <2> QED
    BY <2>2, <2>3
<1>4. PICK k \in 1..12 : k = Month(n) /\ Date(y, k, 1) <= n /\ n < Date(y, k + 1, 1)
  BY <1>1, <1>3, InItsMonth
<1>5. k = m
  <2>1. \A i \in 1..12 : Date(y, i, 1) \in Int /\ Date(y, i + 1, 1) \in Int
    BY MonthLength
  <2>2. ~(k < m)
    BY <1>4, <2>1, MonthsApart
  <2>3. ~(m < k)
    BY <1>4, <2>1, MonthsApart
  <2> QED
    BY <2>2, <2>3
<1> QED
  BY <1>1, <1>3, <1>4, <1>5 DEF Day

\* A day is its year, its month and its day of the month, and no other day is.
THEOREM DaysAreDates ==
  \A n \in Nat : /\ Month(n) \in 1..12 /\ Day(n) \in 1..31
                 /\ Date(Year(n), Month(n), Day(n)) = n
<1> SUFFICES ASSUME NEW n \in Nat
             PROVE  /\ Month(n) \in 1..12 /\ Day(n) \in 1..31
                    /\ Date(Year(n), Month(n), Day(n)) = n
  OBVIOUS
<1>1. PICK y \in Nat, m \in 1..12 : y = Year(n) /\ m = Month(n)
  BY InItsYear, InItsMonth
<1>2. Date(y, m, 1) <= n /\ n < Date(y, m + 1, 1) /\ Day(n) = n - Date(y, m, 1) + 1
  BY <1>1, InItsMonth DEF Day
<1>3. /\ Date(y, m, 1) \in Int /\ Date(y, m + 1, 1) <= Date(y, m, 1) + 31
      /\ Date(y, m + 1, 1) \in Int
      /\ \A d \in Int : Date(y, m, d) = Date(y, m, 1) + d - 1
  BY MonthLength, DaysOfMonth
<1>4. Day(n) \in 1..31
  <2>1. PICK s \in Int, e \in Int : s = Date(y, m, 1) /\ e = Date(y, m + 1, 1)
    BY <1>3
  <2>2. s <= n /\ n < e /\ e <= s + 31 /\ Day(n) = n - s + 1
    BY <2>1, <1>2, <1>3
  <2> QED
    BY <2>2
<1>5. Date(y, m, Day(n)) = n
  BY <1>2, <1>3, <1>4
<1> QED
  BY <1>1, <1>4, <1>5

\* A weekday is read as the first such day after now: never now, and no more than
\* a week ahead (nextWeekday).
THEOREM NextWeekdayIsNext ==
  \A weekday \in 0..6, now \in Nat :
     /\ NextWeekday(weekday, now) \in (now + 1)..(now + 7)
     /\ Weekday(NextWeekday(weekday, now)) = weekday
     /\ \A n \in (now + 1)..(now + 7) :
           Weekday(n) = weekday => n = NextWeekday(weekday, now)
BY DEF NextWeekday, Weekday

-----------------------------------------------------------------------------
(* Days that exist.                                                         *)

\* The thirteenth month is the next year's first.
LEMMA NextMonth ==
  ASSUME NEW y \in Nat, NEW m \in 1..12
  PROVE  \E z \in Nat, k \in 1..12 :
            z >= y /\ \A d \in Int : Date(y, m + 1, d) = Date(z, k, d)
<1>1. CASE m = 12
  <2>1. NewYear(y) \in Int /\ NewYear(y + 1) = NewYear(y) + 365 + Leap(y) /\ Leap(y) \in {0, 1}
    BY YearLength
  <2>2. Before(13) = 365 /\ Before(1) = 0
    BY DEF Before
  <2>3. \A d \in Int : Date(y, 13, d) = NewYear(y) + 365 + Leap(y) + d - 1
    <3> TAKE d \in Int
    <3>1. 13 \in 1..13 /\ 13 > 2
      OBVIOUS
    <3>2. Date(y, 13, d) = NewYear(y) + Before(13) + Leap(y) + d - 1
      BY <3>1, MonthStarts
    <3> QED
      BY <2>2, <3>2
  <2>4. \A d \in Int : Date(y + 1, 1, d) = NewYear(y + 1) + d - 1
    <3> TAKE d \in Int
    <3>1. 1 \in 1..13 /\ ~(1 > 2) /\ y + 1 \in Nat
      OBVIOUS
    <3>2. Date(y + 1, 1, d) = NewYear(y + 1) + Before(1) + 0 + d - 1
      BY <3>1, MonthStarts
    <3>3. NewYear(y + 1) \in Int
      BY <2>1
    <3> QED
      BY <2>2, <3>2, <3>3
  <2>5. \A d \in Int : Date(y, m + 1, d) = Date(y + 1, 1, d)
    BY <1>1, <2>1, <2>3, <2>4
  <2> QED
    BY <2>5
<1>2. CASE m # 12
  <2>1. m + 1 \in 1..12
    BY <1>2
  <2> QED
    BY <2>1
<1> QED
  BY <1>1, <1>2

\* From 2000 on a month begins on a day of the model.
LEMMA StartsInNat ==
  ASSUME NEW y \in Nat, y >= 2000, NEW m \in 1..12
  PROVE  Date(y, m, 1) \in Nat
<1>1. NewYear(y) \in Nat
  BY DEF NewYear
<1>2. Date(y, m, 1) \in Int /\ NewYear(y) <= Date(y, m, 1)
  BY MonthLength
<1> QED
  BY <1>1, <1>2

\* A day that its month has is read back; one that it has not runs on into the next
\* month and has another number there.
LEMMA DayOf ==
  ASSUME NEW y \in Nat, y >= 2000, NEW m \in 1..12, NEW d \in 1..31
  PROVE  /\ Date(y, m, d) < Date(y, m + 1, 1) => IsDay(Date(y, m, d), d, m)
         /\ Day(Date(y, m, d)) = d => Date(y, m, d) < Date(y, m + 1, 1)
<1>1. PICK s \in Nat : s = Date(y, m, 1)
  BY StartsInNat
<1> DEFINE n == Date(y, m, d)
           e == Date(y, m + 1, 1)
<1>2. n \in Nat /\ n = s + d - 1
  <2>1. d \in Int
    OBVIOUS
  <2>2. Date(y, m, d) = Date(y, m, 1) + d - 1
    BY <2>1, DaysOfMonth
  <2> QED
    BY <1>1, <2>1, <2>2
<1>3. e \in Nat /\ s + 28 <= e
  <2>1. Date(y, m + 1, 1) \in Int
    BY MonthLength
  <2>2. Date(y, m, 1) + 28 <= Date(y, m + 1, 1)
    BY MonthLength
  <2> QED
    BY <1>1, <2>1, <2>2
<1> HIDE DEF n, e
<1>4. n < e => IsDay(n, d, m)
  <2> HAVE n < e
  <2>1. Month(n) = m /\ Day(n) = n - s + 1
    <3>1. Date(y, m, 1) <= n /\ n < Date(y, m + 1, 1)
      BY <1>1, <1>2 DEF e
    <3> QED
      BY <1>1, <1>2, <3>1, ReadBack
  <2> QED
    BY <1>2, <2>1 DEF IsDay
<1>5. Day(n) = d => n < e
  <2> SUFFICES ASSUME n >= e
               PROVE  Day(n) # d
    BY <1>2, <1>3
  <2>1. PICK z \in Nat, k \in 1..12 : z >= y /\ \A i \in Int : Date(y, m + 1, i) = Date(z, k, i)
    BY SMTT(30), NextMonth
  <2>2. e = Date(z, k, 1)
    <3>1. Date(y, m + 1, 1) = Date(z, k, 1)
      BY <2>1
    <3> QED
      BY <3>1 DEF e
  <2>3. PICK f \in Int : f = Date(z, k + 1, 1) /\ e + 28 <= f
    BY <2>2, MonthLength
  <2>4. e <= n /\ n < f
    BY <1>2, <1>3, <2>3
  <2>5. Day(n) = n - e + 1
    <3>1. z >= 2000 /\ Date(z, k, 1) <= n /\ n < Date(z, k + 1, 1)
      BY <2>1, <2>2, <2>3, <2>4
    <3> QED
      BY <1>2, <2>2, <3>1, ReadBack
  <2> QED
    BY <1>2, <1>3, <2>5
<1> QED
  BY <1>4, <1>5 DEF n, e

\* The same day of a later year is later.
LEMMA DatesGrow ==
  ASSUME NEW y \in Nat, y >= 2000, NEW z \in Nat, y < z, NEW m \in 1..12, NEW d \in 1..31
  PROVE  Date(y, m, d) < Date(z, m, d)
<1>1. PICK s \in Int, e \in Int : /\ s = Date(y, m, 1) /\ e = Date(y, m + 1, 1)
                                  /\ s + 28 <= e /\ e <= NewYear(y + 1)
  <2>1. /\ Date(y, m, 1) \in Int /\ Date(y, m + 1, 1) \in Int
        /\ Date(y, m, 1) + 28 <= Date(y, m + 1, 1) /\ Date(y, m + 1, 1) <= NewYear(y + 1)
    BY MonthLength
  <2> QED
    BY <2>1
<1>2. PICK t \in Int : t = Date(z, m, 1) /\ NewYear(z) <= t
  BY MonthLength
<1>3. NewYear(y + 1) <= NewYear(z) /\ NewYear(y + 1) \in Int /\ NewYear(z) \in Int
  BY YearsApart DEF NewYear
<1>4. Date(y, m, d) = s + d - 1 /\ Date(z, m, d) = t + d - 1
  BY <1>1, <1>2, DaysOfMonth
<1> QED
  BY <1>1, <1>2, <1>3, <1>4

\* A later day is not of an earlier year.
LEMMA YearsGrow ==
  ASSUME NEW n \in Nat, NEW k \in Nat, n <= k
  PROVE  Year(n) <= Year(k)
<1>1. PICK y \in Nat : y = Year(n) /\ NewYear(y) <= n
  BY InItsYear
<1>2. PICK z \in Nat : z = Year(k) /\ k < NewYear(z + 1)
  BY InItsYear
<1>3. ~(z < y)
  <2>1. NewYear(z + 1) \in Int /\ NewYear(y) \in Int
    BY DEF NewYear
  <2>2. z < y => NewYear(z + 1) <= NewYear(y)
    BY YearsApart
  <2> QED
    BY <1>1, <1>2, <2>1, <2>2
<1> QED
  BY <1>1, <1>2, <1>3

\* Only the 29th of February is missing from a year when another year has it.
LEMMA MissingDay ==
  ASSUME NEW y \in Nat, NEW m \in 1..12, NEW d \in 1..31,
         Date(y, m, d) < Date(y, m + 1, 1), ~(Date(y + 1, m, d) < Date(y + 1, m + 1, 1))
  PROVE  d = 29 /\ m = 2
<1> DEFINE b == Before(m)
           c == Before(m + 1)
<1>1. b \in Int /\ c \in Int /\ (m = 2 => c = b + 28) /\ b = Before(m) /\ c = Before(m + 1)
  BY DEF Before
<1> HIDE DEF b, c
<1>2. \A z \in {y, y + 1} :
        \E a \in Int, l \in {0, 1} :
           /\ Date(z, m, d) = a + b + (IF m > 2 THEN l ELSE 0) + d - 1
           /\ Date(z, m + 1, 1) = a + c + (IF m + 1 > 2 THEN l ELSE 0)
  <2> TAKE z \in {y, y + 1}
  <2>1. PICK a \in Int, l \in {0, 1} : a = NewYear(z) /\ l = Leap(z)
    BY YearLength
  <2>2. z \in Nat /\ m \in 1..13 /\ m + 1 \in 1..13 /\ d \in Int
    OBVIOUS
  <2>3. Date(z, m, d) = a + b + (IF m > 2 THEN l ELSE 0) + d - 1
    BY <1>1, <2>1, <2>2, MonthStarts
  <2>4. Date(z, m + 1, 1) = a + c + (IF m + 1 > 2 THEN l ELSE 0) + 1 - 1
    BY <1>1, <2>1, <2>2, MonthStarts
  <2>5. Date(z, m + 1, 1) = a + c + (IF m + 1 > 2 THEN l ELSE 0)
    BY <1>1, <2>1, <2>4
  <2> QED
    BY <2>3, <2>5
<1>3. PICK a \in Int, l \in {0, 1} :
         /\ Date(y, m, d) = a + b + (IF m > 2 THEN l ELSE 0) + d - 1
         /\ Date(y, m + 1, 1) = a + c + (IF m + 1 > 2 THEN l ELSE 0)
  BY <1>2
<1>4. PICK f \in Int, g \in {0, 1} :
         /\ Date(y + 1, m, d) = f + b + (IF m > 2 THEN g ELSE 0) + d - 1
         /\ Date(y + 1, m + 1, 1) = f + c + (IF m + 1 > 2 THEN g ELSE 0)
  BY <1>2
<1>5. CASE m = 2
  <2>1. d - 1 < 28 + l /\ ~(d - 1 < 28 + g)
    BY <1>1, <1>3, <1>4, <1>5
  <2> QED
    BY <1>5, <2>1
<1>6. CASE m # 2
  <2>1. d - 1 < c - b
    BY <1>1, <1>3, <1>6
  <2>2. ~(d - 1 < c - b)
    BY <1>1, <1>4, <1>6
  <2> QED
    BY <2>1, <2>2
<1> QED
  BY <1>5, <1>6

\* A day and a month without a year (resolveCalendarDate): the first such day from now
\* on, and none where this year has no such day.  The day lies in the past only when it
\* is the 29th of February, has passed, and next year has none.
THEOREM CalendarDateIsNext ==
  \A day \in Int, month \in Int, now \in Nat :
     LET n == CalendarDate(day, month, NoYear, now)
     IN  IF n = NoDate
         THEN \A k \in Nat : Year(k) = Year(now) => ~IsDay(k, day, month)
         ELSE /\ n \in Nat /\ IsDay(n, day, month)
              /\ n < now => day = 29 /\ month = 2
              /\ n >= now => \A k \in now..(n - 1) : ~IsDay(k, day, month)
<1> SUFFICES ASSUME NEW day \in Int, NEW month \in Int, NEW now \in Nat, NEW n,
                    n = CalendarDate(day, month, NoYear, now)
             PROVE  IF n = NoDate
                    THEN \A k \in Nat : Year(k) = Year(now) => ~IsDay(k, day, month)
                    ELSE /\ n \in Nat /\ IsDay(n, day, month)
                         /\ n < now => day = 29 /\ month = 2
                         /\ n >= now => \A k \in now..(n - 1) : ~IsDay(k, day, month)
  OBVIOUS
<1> DEFINE this == Date(Year(now), month, day)
           next == Date(Year(now) + 1, month, day)
<1>1. Year(now) \in Nat /\ Year(now) >= 2000
  BY InItsYear

\* A day that is so called is the date of its year.
<1>2. ASSUME NEW k \in Nat, IsDay(k, day, month)
      PROVE  day \in 1..31 /\ month \in 1..12 /\ k = Date(Year(k), month, day)
  BY <1>2, DaysAreDates DEF IsDay
<1>3. n = IF day \notin 1..31 \/ month \notin 1..12 \/ ~IsDay(this, day, month) THEN NoDate
          ELSE IF this < now /\ IsDay(next, day, month) THEN next ELSE this
  BY DEF CalendarDate
<1>4. CASE day \notin 1..31 \/ month \notin 1..12 \/ ~IsDay(this, day, month)
  <2>1. n = NoDate
    BY <1>3, <1>4
  <2>2. ASSUME NEW k \in Nat, Year(k) = Year(now), IsDay(k, day, month)
        PROVE  FALSE
    BY <1>2, <1>4, <2>2
  <2> QED
    BY <2>1, <2>2
<1>5. CASE day \in 1..31 /\ month \in 1..12 /\ IsDay(this, day, month)
  <2>1. /\ this \in Nat /\ next \in Nat /\ this < next
        /\ this < Date(Year(now), month + 1, 1)
    <3>1. this \in Nat /\ next \in Nat
      <4>1. \A y \in Nat : y >= 2000 => Date(y, month, day) \in Nat
        <5> TAKE y \in Nat
        <5> HAVE y >= 2000
        <5>1. Date(y, month, day) = Date(y, month, 1) + day - 1
          BY <1>5, DaysOfMonth
        <5>2. Date(y, month, 1) \in Nat
          BY <1>5, StartsInNat
        <5> QED
          BY <1>5, <5>1, <5>2
      <4>2. Year(now) + 1 \in Nat /\ Year(now) + 1 >= 2000
        BY <1>1
      <4> QED
        BY <1>1, <4>1, <4>2
    <3>2. Day(this) = day => this < Date(Year(now), month + 1, 1)
      BY <1>1, <1>5, DayOf
    <3>3. this < next
      BY <1>1, <1>5, DatesGrow
    <3> QED
      BY <1>5, <3>1, <3>2, <3>3 DEF IsDay
  <2>2. ASSUME NEW k \in Nat, now <= k, IsDay(k, day, month)
        PROVE  k = this \/ next <= k
    <3>1. Year(k) \in Nat /\ Year(now) <= Year(k)
      BY <2>2, InItsYear, YearsGrow
    <3>2. k = Date(Year(k), month, day)
      BY <1>2, <2>2
    <3>3. CASE Year(k) = Year(now)
      BY <3>2, <3>3
    <3>4. CASE Year(k) = Year(now) + 1
      BY <2>1, <3>2, <3>4
    <3>5. CASE Year(k) > Year(now) + 1
      <4>1. Year(now) + 1 \in Nat /\ Year(now) + 1 >= 2000
        BY <1>1
      <4>2. next < Date(Year(k), month, day)
        BY <1>5, <3>1, <3>5, <4>1, DatesGrow
      <4> QED
        BY <2>1, <3>2, <4>2
    <3> QED
      BY <1>1, <3>1, <3>3, <3>4, <3>5
  <2> HIDE DEF this, next
  <2>3. CASE this < now /\ IsDay(next, day, month)
    <3>1. n = next
      BY <1>3, <1>5, <2>3
    <3>2. n \in Nat /\ n # NoDate /\ IsDay(n, day, month)
      BY <2>1, <2>3, <3>1 DEF NoDate
    <3>3. next >= now
      <4> DEFINE y == Year(now)
      <4>1. PICK s \in Int : s = Date(y + 1, month, 1) /\ NewYear(y + 1) <= s
        BY <1>1, <1>5, MonthLength
      <4>2. next = s + day - 1
        BY <1>1, <1>5, <4>1, DaysOfMonth DEF next
      <4>3. now < NewYear(y + 1) /\ NewYear(y + 1) \in Int
        BY <1>1, InItsYear DEF NewYear
      <4> QED
        BY <1>5, <4>1, <4>2, <4>3
    <3>4. ASSUME NEW k \in now..(n - 1), IsDay(k, day, month)
          PROVE  FALSE
      BY <2>1, <2>2, <2>3, <3>1, <3>4
    <3> QED
      BY <2>1, <3>1, <3>2, <3>3, <3>4
  <2>4. CASE this >= now
    <3>1. n = this
      BY <1>3, <1>5, <2>1, <2>4
    <3>2. n \in Nat /\ n # NoDate /\ IsDay(n, day, month)
      BY <1>5, <2>1, <3>1 DEF NoDate
    <3>3. ASSUME NEW k \in now..(n - 1), IsDay(k, day, month)
          PROVE  FALSE
      BY <2>1, <2>2, <3>1, <3>3
    <3> QED
      BY <2>1, <2>4, <3>1, <3>2, <3>3
  <2>5. CASE this < now /\ ~IsDay(next, day, month)
    <3>1. n = this
      BY <1>3, <1>5, <2>5
    <3>2. n \in Nat /\ n # NoDate /\ IsDay(n, day, month)
      BY <1>5, <2>1, <3>1 DEF NoDate
    <3>3. day = 29 /\ month = 2
      <4>1. Year(now) + 1 \in Nat /\ Year(now) + 1 >= 2000
        BY <1>1
      <4>2. ~(next < Date(Year(now) + 1, month + 1, 1))
        BY <1>5, <2>5, <4>1, DayOf DEF next
      <4>3. Date(Year(now), month, day) < Date(Year(now), month + 1, 1)
        BY <2>1 DEF this
      <4>4. ~(Date(Year(now) + 1, month, day) < Date(Year(now) + 1, month + 1, 1))
        BY <4>2 DEF next
      <4>5. \A y \in Nat : /\ Date(y, month, day) < Date(y, month + 1, 1)
                           /\ ~(Date(y + 1, month, day) < Date(y + 1, month + 1, 1))
                           => day = 29 /\ month = 2
        BY <1>5, MissingDay
      <4> QED
        BY <1>1, <4>3, <4>4, <4>5
    <3> QED
      BY <2>1, <2>5, <3>1, <3>2, <3>3
  <2> QED
    BY <2>1, <2>3, <2>4, <2>5
<1> QED
  BY <1>4, <1>5

\* A day of the month alone (nextFutureDayOfMonth): the first day of that number from
\* now on, and always one for the days that every month has.
THEOREM NextDayOfMonthIsNext ==
  \A day \in Int, now \in Nat :
     LET n == NextDayOfMonth(day, now)
     IN  IF n = NoDate THEN day \notin 1..28
         ELSE /\ n \in Nat /\ n >= now /\ Day(n) = day
              /\ \A k \in now..(n - 1) : Day(k) # day
<1> SUFFICES ASSUME NEW day \in Int, NEW now \in Nat, NEW n,
                    n = NextDayOfMonth(day, now)
             PROVE  IF n = NoDate THEN day \notin 1..28
                    ELSE /\ n \in Nat /\ n >= now /\ Day(n) = day
                         /\ \A k \in now..(n - 1) : Day(k) # day
  OBVIOUS
<1>1. PICK y \in Nat, m \in 1..12 : y = Year(now) /\ y >= 2000 /\ m = Month(now)
  BY InItsYear, InItsMonth
<1>2. PICK z \in Nat, i \in 1..12 : z >= y /\ \A d \in Int : Date(y, m + 1, d) = Date(z, i, d)
  BY NextMonth
<1> DEFINE this == Date(y, m, day)
           next == Date(z, i, day)
<1>3. n = IF day \notin 1..31 THEN NoDate
          ELSE IF Day(this) = day /\ this >= now THEN this
          ELSE IF Day(next) = day THEN next ELSE NoDate
  BY <1>1, <1>2 DEF NextDayOfMonth
<1>4. CASE day \notin 1..31
  BY <1>3, <1>4
<1>5. CASE day \in 1..31
  <2>1. PICK s \in Nat, e \in Nat, f \in Nat :
           /\ s = Date(y, m, 1) /\ e = Date(y, m + 1, 1) /\ e = Date(z, i, 1)
           /\ f = Date(z, i + 1, 1) /\ s <= now /\ now < e /\ e + 28 <= f
    <3>1. Date(y, m, 1) \in Nat /\ Date(z, i, 1) \in Nat
      BY <1>1, <1>2, StartsInNat
    <3>2. Date(y, m + 1, 1) = Date(z, i, 1)
      BY <1>2
    <3>3. Date(z, i + 1, 1) \in Int /\ Date(z, i, 1) + 28 <= Date(z, i + 1, 1)
      BY MonthLength
    <3>4. Date(y, m, 1) <= now /\ now < Date(y, m + 1, 1)
      BY <1>1, InItsMonth
    <3> QED
      BY <3>1, <3>2, <3>3, <3>4
  <2>2. /\ this \in Nat /\ this = s + day - 1 /\ (Day(this) = day => this < e)
        /\ next \in Nat /\ next = e + day - 1 /\ (next < f => Day(next) = day)
        /\ (Day(next) = day => next < f)
    <3>1. z >= 2000 /\ day \in Int
      BY <1>1, <1>2
    <3>2. this = s + day - 1 /\ next = e + day - 1
      <4>1. \A x \in Nat, k \in 1..12 : Date(x, k, day) = Date(x, k, 1) + day - 1
        BY <3>1, DaysOfMonth
      <4> QED
        BY <2>1, <4>1
    <3>3. this \in Nat /\ next \in Nat
      BY <1>5, <3>2
    <3>4. Day(this) = day => this < e
      BY <1>1, <1>5, <2>1, DayOf
    <3>5. (next < f => Day(next) = day) /\ (Day(next) = day => next < f)
      BY <1>5, <2>1, <3>1, DayOf DEF IsDay
    <3> QED
      BY <3>2, <3>3, <3>4, <3>5
  <2>3. ASSUME NEW k \in Nat, s <= k, k < e, Day(k) = day
        PROVE  k = this
    <3>1. Day(k) = k - s + 1
      BY <1>1, <2>1, <2>3, ReadBack
    <3> QED
      BY <2>2, <2>3, <3>1
  <2>4. ASSUME NEW k \in Nat, e <= k, k < f, Day(k) = day
        PROVE  k = next
    <3>1. z >= 2000
      BY <1>1, <1>2
    <3>2. Day(k) = k - e + 1
      BY <2>1, <2>4, <3>1, ReadBack
    <3> QED
      BY <2>2, <2>4, <3>2
  <2> HIDE DEF this, next
  <2>5. CASE Day(this) = day /\ this >= now
    <3>1. n = this /\ n # NoDate
      BY <1>3, <1>5, <2>2, <2>5 DEF NoDate
    <3>2. ASSUME NEW k \in now..(n - 1), Day(k) = day
          PROVE  FALSE
      BY <2>1, <2>2, <2>3, <2>5, <3>1, <3>2
    <3> QED
      BY <2>2, <2>5, <3>1, <3>2
  <2>6. CASE ~(Day(this) = day /\ this >= now) /\ Day(next) = day
    <3>1. n = next /\ n # NoDate
      BY <1>3, <1>5, <2>2, <2>6 DEF NoDate
    <3>2. next >= now
      BY <1>5, <2>1, <2>2
    <3>3. ASSUME NEW k \in now..(n - 1), Day(k) = day
          PROVE  FALSE
      <4>1. k \in Nat /\ s <= k /\ now <= k /\ k < next /\ k < f
        BY <2>1, <2>2, <2>6, <3>1
      <4>2. CASE k < e
        BY <2>3, <2>6, <3>3, <4>1, <4>2
      <4>3. CASE e <= k
        BY <2>4, <3>3, <4>1, <4>3, <2>2
      <4> QED
        BY <2>1, <4>1, <4>2, <4>3
    <3> QED
      BY <2>2, <2>6, <3>1, <3>2, <3>3
  <2>7. CASE ~(Day(this) = day /\ this >= now) /\ Day(next) # day
    <3>1. n = NoDate
      BY <1>3, <1>5, <2>7
    <3>2. day \notin 1..28
      BY <2>1, <2>2, <2>7
    <3> QED
      BY <3>1, <3>2
  <2> QED
    BY <2>5, <2>6, <2>7
<1> QED
  BY <1>4, <1>5

-----------------------------------------------------------------------------
(* Induction over numbers, for sets and functions.                          *)

\* Induction up to a number, for a set of numbers.
LEMMA Induction ==
  ASSUME NEW n \in Nat, NEW P, 0 \in P, \A i \in 0..(n - 1) : i \in P => i + 1 \in P
  PROVE  \A i \in 0..n : i \in P
<1> DEFINE Bad == {i \in 0..n : i \notin P}
           R == OpToRel(<, Nat)
<1> SUFFICES ASSUME Bad # {} PROVE FALSE
  OBVIOUS
<1>1. Bad \subseteq Nat
  OBVIOUS
<1>2. IsWellFoundedOn(R, Nat)
  BY NatLessThanWellFounded
<1>3. \A i, k \in Nat : i < k => <<i, k>> \in R
  BY Zenon DEF OpToRel
<1> HIDE DEF R
<1>4. PICK i \in Bad : \A k \in Bad : ~(<<k, i>> \in R)
  <2> HIDE DEF Bad
  <2> QED
    BY <1>1, <1>2, WFMin
<1>5. i - 1 \in 0..(n - 1) /\ i - 1 \notin Bad
  <2>1. i \in Nat /\ i # 0 /\ i <= n
    OBVIOUS
  <2>2. i - 1 \in Nat /\ i - 1 < i /\ i - 1 \in 0..(n - 1)
    BY <2>1
  <2>3. <<i - 1, i>> \in R
    BY <1>3, <2>1, <2>2
  <2> HIDE DEF Bad
  <2>4. i - 1 \notin Bad
    BY <1>4, <2>3
  <2> QED
    BY <2>2, <2>4
<1> QED
  BY <1>5

\* A function that goes from each number to the next by a step exists.
Chained(f, n, base, step) == f[0] = base /\ \A i \in 1..n : f[i] = step[<<i, f[i - 1]>>]

\* There is a function that starts with base and goes on by step.
LEMMA Recursion ==
  ASSUME NEW n \in Nat, NEW T, NEW base \in T, NEW step \in [(1..n) \X T -> T]
  PROVE  \E f \in [0..n -> T] : Chained(f, n, base, step)
<1> USE DEF Chained
<1> DEFINE Holds(f, k) == Chained(f, k, base, step)
           P == {k \in 0..n : \E f \in [0..n -> T] : Holds(f, k)}
<1>1. 0 \in P
  <2> DEFINE f == [i \in 0..n |-> base]
  <2>1. f \in [0..n -> T] /\ f[0] = base
    OBVIOUS
  <2> HIDE DEF f
  <2>2. Holds(f, 0)
    BY <2>1
  <2>3. 0 \in 0..n
    OBVIOUS
  <2> QED
    BY <2>1, <2>2, <2>3
<1>2. ASSUME NEW k \in 0..(n - 1), k \in P
      PROVE  k + 1 \in P
  <2>1. PICK f \in [0..n -> T] : Holds(f, k)
    BY <1>2
  <2>2. k + 1 \in 1..n /\ f[k] \in T
    OBVIOUS
  <2>3. step[<<k + 1, f[k]>>] \in T
    BY <2>2
  <2> DEFINE g == [f EXCEPT ![k + 1] = step[<<k + 1, f[k]>>]]
  <2>4. g \in [0..n -> T] /\ g[k + 1] = step[<<k + 1, f[k]>>] /\ \A i \in 0..k : g[i] = f[i]
    BY <2>2, <2>3
  <2> HIDE DEF g
  <2>5. Holds(g, k + 1)
    <3>1. g[0] = base
      BY <2>1, <2>4
    <3>2. ASSUME NEW i \in 1..(k + 1)
          PROVE  g[i] = step[<<i, g[i - 1]>>]
      <4>1. CASE i = k + 1
        <5>1. i - 1 = k /\ k \in 0..k /\ g[k] = f[k]
          BY <2>4, <4>1
        <5> QED
          BY <2>4, <4>1, <5>1
      <4>2. CASE i # k + 1
        <5>1. i \in 1..k /\ i \in 0..k /\ i - 1 \in 0..k
          BY <4>2
        <5> QED
          BY <2>1, <2>4, <5>1
      <4> QED
        BY <4>1, <4>2
    <3> QED
      BY <3>1, <3>2
  <2> QED
    BY <2>2, <2>4, <2>5
<1>3. n \in P
  <2> HIDE DEF P
  <2>1. \A i \in 0..n : i \in P
    BY <1>1, <1>2, Induction
  <2> QED
    BY <2>1
<1> QED
  BY <1>3

-----------------------------------------------------------------------------
(* The distance of two words.                                               *)

\* The least of three numbers.
LEMMA LeastOfThree ==
  ASSUME NEW x \in Nat, NEW y \in Nat, NEW z \in Nat
  PROVE  /\ LeastOf({x, y, z}) \in {x, y, z} /\ LeastOf({x, y, z}) \in Nat
         /\ LeastOf({x, y, z}) <= x /\ LeastOf({x, y, z}) <= y /\ LeastOf({x, y, z}) <= z
<1>1. \E c \in {x, y, z} : \A d \in {x, y, z} : c <= d
  OBVIOUS
<1>2. /\ LeastOf({x, y, z}) \in {x, y, z}
      /\ \A d \in {x, y, z} : LeastOf({x, y, z}) <= d
  BY <1>1 DEF LeastOf
<1> QED
  BY <1>2

Cost(x, y) == IF x = y THEN 0 ELSE 1

\* A cell is the least of what its three neighbours allow: the one before it, the
\* same cell of the column before, and the one before that.
Least(c, x, y, z) ==
    /\ c \in Nat
    /\ c <= x + 1 /\ c <= y + 1 /\ c <= z
    /\ c = x + 1 \/ c = y + 1 \/ c = z

\* The columns of two words: what levenshteinDistance would fill in a table.
NextColumn(c, column, letter, i, b) ==
    /\ c \in [0..Len(b) -> Nat] /\ c[0] = i
    /\ \A j \in 1..Len(b) : Least(c[j], column[j], c[j - 1], column[j - 1] + Cost(letter, b[j]))

\* The loop over the letters of b: the cells up to j are of the new column, the
\* others of the old one, and the diagonal is the old cell at j.
Swept(s, j, column, letter, i, b) ==
    /\ s.prevDiagonal = column[j]
    /\ s.column[0] = i
    /\ \A k \in 1..j : Least(s.column[k], column[k], s.column[k - 1],
                              column[k - 1] + Cost(letter, b[k]))
    /\ \A k \in (j + 1)..Len(b) : s.column[k] = column[k]

Sweep(b) == [prevDiagonal : Nat, column : [0..Len(b) -> Nat]]

\* One turn of the loop.
LEMMA CellSweeps ==
  ASSUME NEW b, Len(b) \in Nat, NEW column \in [0..Len(b) -> Nat], NEW letter, NEW i \in Nat,
         NEW j \in 1..Len(b), NEW s \in Sweep(b)
  PROVE  /\ Cell(letter, b, s, j) \in Sweep(b)
         /\ Swept(s, j - 1, column, letter, i, b) => Swept(Cell(letter, b, s, j), j, column, letter, i, b)
<1>1. PICK x \in Nat, y \in Nat, z \in Nat :
         x = s.column[j] + 1 /\ y = s.column[j - 1] + 1 /\ z = s.prevDiagonal + Cost(letter, b[j])
  <2>1. s.column \in [0..Len(b) -> Nat] /\ s.prevDiagonal \in Nat
    BY DEF Sweep
  <2>2. j \in 0..Len(b) /\ j - 1 \in 0..Len(b)
    OBVIOUS
  <2>3. s.column[j] \in Nat /\ s.column[j - 1] \in Nat
    BY <2>1, <2>2
  <2>4. s.prevDiagonal + Cost(letter, b[j]) \in Nat
    BY <2>1 DEF Cost
  <2>5. \A k \in Nat : k + 1 \in Nat
    OBVIOUS
  <2> QED
    BY <2>3, <2>4, <2>5
<1>2. PICK c \in Nat : c = LeastOf({x, y, z}) /\ c <= x /\ c <= y /\ c <= z /\ c \in {x, y, z}
  BY LeastOfThree
<1>3. Cell(letter, b, s, j) = [prevDiagonal |-> s.column[j], column |-> [s.column EXCEPT ![j] = c]]
  BY <1>1, <1>2 DEF Cell, Cost
<1> DEFINE t == Cell(letter, b, s, j)
<1>4. /\ t \in Sweep(b) /\ t.prevDiagonal = s.column[j] /\ t.column[j] = c
      /\ \A k \in 0..Len(b) : k # j => t.column[k] = s.column[k]
  <2>1. s.column \in [0..Len(b) -> Nat] /\ s.prevDiagonal \in Nat /\ j \in 0..Len(b)
    BY DEF Sweep
  <2>2. t.prevDiagonal = s.column[j] /\ t.column = [s.column EXCEPT ![j] = c]
    BY <1>3
  <2>3. t.column \in [0..Len(b) -> Nat] /\ t.prevDiagonal \in Nat
    BY <1>2, <2>1, <2>2
  <2>4. t \in Sweep(b)
    BY <1>3, <2>2, <2>3 DEF Sweep
  <2> QED
    BY <2>1, <2>2, <2>4
<1> HIDE DEF t
<1>5. ASSUME Swept(s, j - 1, column, letter, i, b)
      PROVE  Swept(t, j, column, letter, i, b)
  <2>1. s.column[j] = column[j] /\ s.prevDiagonal = column[j - 1]
    <3>1. j \in ((j - 1) + 1)..Len(b)
      OBVIOUS
    <3> QED
      BY <1>5, <3>1 DEF Swept
  <2>2. t.column[0] = i
    BY <1>4, <1>5 DEF Swept
  <2>3. ASSUME NEW k \in 1..j
        PROVE  Least(t.column[k], column[k], t.column[k - 1], column[k - 1] + Cost(letter, b[k]))
    <3>1. t.column[k - 1] = s.column[k - 1]
      <4>1. k - 1 \in 0..Len(b) /\ k - 1 # j
        OBVIOUS
      <4> QED
        BY <1>4, <4>1
    <3>2. CASE k = j
      BY <1>1, <1>2, <1>4, <2>1, <3>1, <3>2 DEF Least
    <3>3. CASE k # j
      <4>1. k \in 1..(j - 1) /\ k \in 0..Len(b)
        BY <3>3
      <4>2. t.column[k] = s.column[k]
        BY <1>4, <3>3, <4>1
      <4> QED
        BY <1>5, <3>1, <4>1, <4>2 DEF Swept
    <3> QED
      BY <3>2, <3>3
  <2>4. ASSUME NEW k \in (j + 1)..Len(b)
        PROVE  t.column[k] = column[k]
    <3>1. k \in ((j - 1) + 1)..Len(b) /\ k \in 0..Len(b) /\ k # j
      OBVIOUS
    <3> QED
      BY <1>4, <1>5, <3>1 DEF Swept
  <2> QED
    BY <1>4, <2>1, <2>2, <2>3, <2>4 DEF Swept
<1> QED
  BY <1>4, <1>5 DEF t

\* The whole loop: levenshteinDistance's next column.
LEMMA ColumnFollows ==
  ASSUME NEW b, Len(b) \in Nat, NEW column \in [0..Len(b) -> Nat], NEW letter, NEW i \in Nat
  PROVE  NextColumn(ColumnAfter(letter, i, b, column), column, letter, i, b)
<1> DEFINE n == Len(b)
           T == Sweep(b)
           base == [prevDiagonal |-> column[0], column |-> [column EXCEPT ![0] = i]]
           step == [p \in (1..n) \X T |-> Cell(letter, b, p[2], p[1])]
           Runs(f) == f = [j \in 0..n |-> IF j = 0 THEN base ELSE Cell(letter, b, f[j - 1], j)]
<1>1. base \in T /\ base.prevDiagonal = column[0] /\ base.column[0] = i
      /\ \A k \in 1..n : base.column[k] = column[k]
  BY DEF Sweep
<1>2. \A j \in 1..n, s \in T : step[<<j, s>>] = Cell(letter, b, s, j) /\ step[<<j, s>>] \in T
  BY CellSweeps
<1>3. step \in [(1..n) \X T -> T]
  BY CellSweeps
<1> HIDE DEF T, base, step
<1>4. \E f : Runs(f)
  <2>1. PICK f \in [0..n -> T] : Chained(f, n, base, step)
    <3>1. n \in Nat /\ base \in T
      BY <1>1
    <3> HIDE DEF n
    <3> QED
      BY <1>3, <3>1, Recursion
  <2> USE DEF Chained
  <2>2. ASSUME NEW j \in 0..n
        PROVE  f[j] = IF j = 0 THEN base ELSE Cell(letter, b, f[j - 1], j)
    <3>1. CASE j = 0
      BY <2>1, <3>1
    <3>2. CASE j # 0
      <4>1. j \in 1..n /\ j - 1 \in 0..n
        BY <3>2
      <4>2. f[j - 1] \in T
        BY <2>1, <4>1
      <4> QED
        BY <1>2, <2>1, <3>2, <4>1, <4>2
    <3> QED
      BY <3>1, <3>2
  <2>3. Runs(f)
    BY <2>1, <2>2
  <2> QED
    BY <2>3
<1> DEFINE upTo == CHOOSE f : Runs(f)
<1>5. Runs(upTo)
  BY <1>4
<1>6. ColumnAfter(letter, i, b, column) = upTo[n].column
  BY DEF ColumnAfter, base
<1> HIDE DEF upTo
<1>7. upTo[0] = base /\ \A j \in 1..n : upTo[j] = Cell(letter, b, upTo[j - 1], j)
  BY <1>5
<1> DEFINE P == {j \in 0..n : upTo[j] \in T /\ Swept(upTo[j], j, column, letter, i, b)}
<1>8. 0 \in P
  BY <1>1, <1>7 DEF Swept
<1>9. ASSUME NEW j \in 0..(n - 1), j \in P PROVE j + 1 \in P
  <2>1. j + 1 \in 1..n /\ j + 1 \in 0..n /\ (j + 1) - 1 = j
    OBVIOUS
  <2>2. upTo[j + 1] = Cell(letter, b, upTo[j], j + 1)
    BY <1>7, <2>1
  <2>3. upTo[j] \in Sweep(b) /\ Swept(upTo[j], (j + 1) - 1, column, letter, i, b)
    BY <1>9, <2>1 DEF T
  <2>4. Cell(letter, b, upTo[j], j + 1) \in Sweep(b)
        /\ Swept(Cell(letter, b, upTo[j], j + 1), j + 1, column, letter, i, b)
    BY <2>1, <2>3, CellSweeps
  <2> QED
    BY <2>1, <2>2, <2>4 DEF T
<1>10. n \in P
  <2> HIDE DEF P
  <2>1. \A j \in 0..n : j \in P
    BY <1>8, <1>9, Induction
  <2> QED
    BY <2>1
<1>11. upTo[n] \in Sweep(b) /\ Swept(upTo[n], n, column, letter, i, b)
  BY <1>10 DEF T
<1> QED
  BY <1>6, <1>11 DEF NextColumn, Swept, Sweep

\* A table of two words: the columns that levenshteinDistance goes through.
Table(t, a, b) ==
    /\ t \in [0..Len(a) -> [0..Len(b) -> Nat]]
    /\ \A j \in 0..Len(b) : t[0][j] = j
    /\ \A i \in 1..Len(a) : NextColumn(t[i], t[i - 1], a[i], i, b)

\* The columns of the code are the usual table of two words.
LEMMA ColumnsAreTable ==
  ASSUME NEW a, NEW b, Len(a) \in Nat, Len(b) \in Nat
  PROVE  Table(Columns(a, b), a, b)
<1> DEFINE n == Len(a)
           T == [0..Len(b) -> Nat]
           base == [j \in 0..Len(b) |-> j]
           step == [p \in (1..n) \X T |-> ColumnAfter(a[p[1]], p[1], b, p[2])]
           Runs(f) == f = [i \in 0..n |-> IF i = 0 THEN base ELSE ColumnAfter(a[i], i, b, f[i - 1])]
<1>1. base \in T /\ \A j \in 0..Len(b) : base[j] = j
  OBVIOUS
<1>2. ASSUME NEW i \in 1..n, NEW column \in T
      PROVE  /\ step[<<i, column>>] = ColumnAfter(a[i], i, b, column)
             /\ ColumnAfter(a[i], i, b, column) \in T
             /\ NextColumn(ColumnAfter(a[i], i, b, column), column, a[i], i, b)
  <2>1. NextColumn(ColumnAfter(a[i], i, b, column), column, a[i], i, b)
    BY ColumnFollows
  <2> QED
    BY <2>1 DEF NextColumn
<1>3. step \in [(1..n) \X T -> T]
  BY <1>2
<1> HIDE DEF T, base, step
<1>4. \E f : Runs(f)
  <2>1. PICK f \in [0..n -> T] : Chained(f, n, base, step)
    <3>1. n \in Nat /\ base \in T
      BY <1>1
    <3> HIDE DEF n, Runs
    <3> QED
      BY <1>3, <3>1, Recursion
  <2> USE DEF Chained
  <2>2. ASSUME NEW i \in 0..n
        PROVE  f[i] = IF i = 0 THEN base ELSE ColumnAfter(a[i], i, b, f[i - 1])
    <3>1. CASE i = 0
      BY <2>1, <3>1
    <3>2. CASE i # 0
      <4>1. i \in 1..n /\ i - 1 \in 0..n
        BY <3>2
      <4>2. f[i - 1] \in T
        BY <2>1, <4>1
      <4> QED
        BY <1>2, <2>1, <3>2, <4>1, <4>2
    <3> QED
      BY <3>1, <3>2
  <2>3. Runs(f)
    BY <2>1, <2>2
  <2> QED
    BY <2>3
<1> DEFINE t == CHOOSE f : Runs(f)
<1>5. Runs(t)
  BY <1>4
<1>6. Columns(a, b) = t
  BY DEF Columns, base
<1> HIDE DEF t
<1>7. DOMAIN t = 0..n /\ t = [i \in 0..n |-> t[i]]
      /\ t[0] = base /\ \A i \in 1..n : t[i] = ColumnAfter(a[i], i, b, t[i - 1])
  BY <1>5
<1> DEFINE P == {i \in 0..n : t[i] \in T /\ (i # 0 => NextColumn(t[i], t[i - 1], a[i], i, b))}
<1>8. 0 \in P
  BY <1>1, <1>7
<1>9. ASSUME NEW i \in 0..(n - 1), i \in P PROVE i + 1 \in P
  <2>1. i + 1 \in 1..n /\ i + 1 \in 0..n /\ (i + 1) - 1 = i /\ t[i] \in T
    BY <1>9
  <2>2. t[i + 1] = ColumnAfter(a[i + 1], i + 1, b, t[i])
    BY <1>7, <2>1
  <2>3. t[i + 1] \in T /\ NextColumn(t[i + 1], t[i], a[i + 1], i + 1, b)
    BY <1>2, <2>1, <2>2
  <2> QED
    BY <2>1, <2>3
<1>10. \A i \in 0..n : i \in P
  <2> HIDE DEF P
  <2> QED
    BY <1>8, <1>9, Induction
<1>11. /\ \A i \in 0..n : t[i] \in T
       /\ \A i \in 1..n : NextColumn(t[i], t[i - 1], a[i], i, b)
  BY <1>10
<1>12. \A j \in 0..Len(b) : t[0][j] = j
  BY <1>1, <1>7
<1> QED
  BY <1>6, <1>7, <1>11, <1>12 DEF Table, T

\* What a table says of one cell.
LEMMA TableCell ==
  ASSUME NEW a, NEW b, Len(a) \in Nat, Len(b) \in Nat, NEW t, Table(t, a, b)
  PROVE  /\ \A i \in 0..Len(a), j \in 0..Len(b) : t[i][j] \in Nat
         /\ \A i \in 0..Len(a) : t[i][0] = i
         /\ \A j \in 0..Len(b) : t[0][j] = j
         /\ \A i \in 1..Len(a), j \in 1..Len(b) :
               Least(t[i][j], t[i - 1][j], t[i][j - 1], t[i - 1][j - 1] + Cost(a[i], b[j]))
<1>1. \A i \in 0..Len(a), j \in 0..Len(b) : t[i][j] \in Nat
  <2>1. t \in [0..Len(a) -> [0..Len(b) -> Nat]]
    BY DEF Table
  <2> QED
    BY <2>1
<1>2. ASSUME NEW i \in 0..Len(a) PROVE t[i][0] = i
  <2>1. CASE i = 0
    BY <2>1 DEF Table
  <2>2. CASE i # 0
    <3>1. i \in 1..Len(a)
      BY <2>2
    <3> QED
      BY <3>1 DEF Table, NextColumn
  <2> QED
    BY <2>1, <2>2
<1>3. \A i \in 1..Len(a), j \in 1..Len(b) :
         Least(t[i][j], t[i - 1][j], t[i][j - 1], t[i - 1][j - 1] + Cost(a[i], b[j]))
  BY DEF Table, NextColumn
<1> QED
  BY <1>1, <1>2, <1>3 DEF Table

\* Where the neighbours of a cell are no more than e greater than those of another,
\* the cell is no more than e greater.
LEMMA LeastWithin ==
  ASSUME NEW c, NEW x \in Nat, NEW y \in Nat, NEW z \in Nat, Least(c, x, y, z),
         NEW d, NEW v \in Nat, NEW w \in Nat, NEW q \in Nat, Least(d, v, w, q),
         NEW e \in Nat, x <= v + e, y <= w + e, z <= q + e
  PROVE  c <= d + e
BY DEF Least

\* The next cell of a row or a column is at most one more.
LEMMA CellSteps ==
  ASSUME NEW a, NEW b, Len(a) \in Nat, Len(b) \in Nat, NEW t, Table(t, a, b)
  PROVE  /\ \A i \in 0..(Len(a) - 1), j \in 0..Len(b) : t[i + 1][j] <= t[i][j] + 1
         /\ \A i \in 0..Len(a), j \in 0..(Len(b) - 1) : t[i][j + 1] <= t[i][j] + 1
<1>1. /\ \A i \in 0..Len(a), j \in 0..Len(b) : t[i][j] \in Nat
      /\ \A i \in 0..Len(a) : t[i][0] = i
      /\ \A j \in 0..Len(b) : t[0][j] = j
      /\ \A i \in 1..Len(a), j \in 1..Len(b) :
            Least(t[i][j], t[i - 1][j], t[i][j - 1], t[i - 1][j - 1] + Cost(a[i], b[j]))
  BY TableCell
<1>2. ASSUME NEW i \in 0..(Len(a) - 1), NEW j \in 0..Len(b)
      PROVE  t[i + 1][j] <= t[i][j] + 1
  <2>1. i + 1 \in 1..Len(a) /\ i + 1 \in 0..Len(a) /\ i \in 0..Len(a) /\ (i + 1) - 1 = i
    OBVIOUS
  <2>2. CASE j = 0
    BY <1>1, <2>1, <2>2
  <2>3. CASE j # 0
    <3>1. j \in 1..Len(b)
      BY <2>3
    <3> QED
      BY <1>1, <2>1, <3>1 DEF Least
  <2> QED
    BY <2>2, <2>3
<1>3. ASSUME NEW i \in 0..Len(a), NEW j \in 0..(Len(b) - 1)
      PROVE  t[i][j + 1] <= t[i][j] + 1
  <2>1. j + 1 \in 1..Len(b) /\ j + 1 \in 0..Len(b) /\ j \in 0..Len(b) /\ (j + 1) - 1 = j
    OBVIOUS
  <2>2. CASE i = 0
    BY <1>1, <2>1, <2>2
  <2>3. CASE i # 0
    <3>1. i \in 1..Len(a)
      BY <2>3
    <3> QED
      BY <1>1, <2>1, <3>1 DEF Least
  <2> QED
    BY <2>2, <2>3
<1> QED
  BY <1>2, <1>3

\* A row of one table is at most e greater than a row of another.
Near(t, i, u, k, b, e) == \A j \in 0..Len(b) : t[i][j] <= u[k][j] + e

\* Two words that go on with one letter keep their rows as near; so they do with any
\* two letters, if the rows before are equally near and one change is allowed.
LEMMA RowAdvances ==
  ASSUME NEW a, NEW c, NEW b, Len(a) \in Nat, Len(c) \in Nat, Len(b) \in Nat,
         NEW t, Table(t, a, b), NEW u, Table(u, c, b),
         NEW i \in 0..(Len(a) - 1), NEW k \in 0..(Len(c) - 1), NEW e \in Nat,
         \/ a[i + 1] = c[k + 1] /\ Near(t, i, u, k, b, e)
         \/ e = 1 /\ Near(t, i, u, k, b, 0)
  PROVE  Near(t, i + 1, u, k + 1, b, e)
<1>1. /\ i + 1 \in 1..Len(a) /\ i + 1 \in 0..Len(a) /\ i \in 0..Len(a) /\ (i + 1) - 1 = i
      /\ k + 1 \in 1..Len(c) /\ k + 1 \in 0..Len(c) /\ k \in 0..Len(c) /\ (k + 1) - 1 = k
  OBVIOUS
<1>2. \A j \in 0..Len(b) : /\ t[i][j] \in Nat /\ t[i + 1][j] \in Nat
                           /\ u[k][j] \in Nat /\ u[k + 1][j] \in Nat
  BY <1>1, TableCell
<1>3. t[i][0] = i /\ u[k][0] = k /\ t[i + 1][0] = i + 1 /\ u[k + 1][0] = k + 1
  BY <1>1, TableCell
<1>4. \A j \in 1..Len(b) :
         /\ Least(t[i + 1][j], t[i][j], t[i + 1][j - 1], t[i][j - 1] + Cost(a[i + 1], b[j]))
         /\ Least(u[k + 1][j], u[k][j], u[k + 1][j - 1], u[k][j - 1] + Cost(c[k + 1], b[j]))
  <2>1. \A j \in 1..Len(b) :
           Least(t[i + 1][j], t[(i + 1) - 1][j], t[i + 1][j - 1], t[(i + 1) - 1][j - 1] + Cost(a[i + 1], b[j]))
    BY <1>1, TableCell
  <2>2. \A j \in 1..Len(b) :
           Least(u[k + 1][j], u[(k + 1) - 1][j], u[k + 1][j - 1], u[(k + 1) - 1][j - 1] + Cost(c[k + 1], b[j]))
    BY <1>1, TableCell
  <2> QED
    BY <1>1, <2>1, <2>2
<1>5. ASSUME NEW j \in 0..Len(b) PROVE t[i][j] <= u[k][j] + e
  <2>1. t[i][j] <= u[k][j] + e \/ (e = 1 /\ t[i][j] <= u[k][j] + 0)
    BY DEF Near
  <2>2. PICK x \in Nat, y \in Nat : x = t[i][j] /\ y = u[k][j]
    BY <1>2
  <2>3. x <= y + e \/ (e = 1 /\ x <= y + 0)
    BY <2>1, <2>2
  <2>4. CASE e = 1 /\ x <= y + 0
    <3>1. y + 0 = y /\ y <= y + 1
      OBVIOUS
    <3> QED
      BY <2>2, <2>4, <3>1
  <2> QED
    BY <2>2, <2>3, <2>4
<1>6. ASSUME NEW j \in 1..Len(b)
      PROVE  /\ t[i][j - 1] + Cost(a[i + 1], b[j]) \in Nat /\ u[k][j - 1] + Cost(c[k + 1], b[j]) \in Nat
             /\ t[i][j - 1] + Cost(a[i + 1], b[j]) <= (u[k][j - 1] + Cost(c[k + 1], b[j])) + e
  <2>1. j - 1 \in 0..Len(b)
    OBVIOUS
  <2>2. t[i][j - 1] \in Nat /\ u[k][j - 1] \in Nat /\ t[i][j - 1] <= u[k][j - 1] + e
    BY <1>2, <1>5, <2>1
  <2>3. PICK x \in {0, 1}, y \in {0, 1} : x = Cost(a[i + 1], b[j]) /\ y = Cost(c[k + 1], b[j])
    BY DEF Cost
  <2>4. PICK v \in Nat, w \in Nat : v = t[i][j - 1] /\ w = u[k][j - 1]
    BY <2>2
  <2>5. v + x <= (w + y) + e
    <3>1. CASE a[i + 1] = c[k + 1]
      <4>1. x = y /\ v <= w + e
        BY <2>2, <2>3, <2>4, <3>1
      <4> QED
        BY <4>1
    <3>2. CASE e = 1 /\ Near(t, i, u, k, b, 0)
      <4>1. v <= w + 0
        BY <2>1, <2>4, <3>2 DEF Near
      <4> QED
        BY <3>2, <4>1
    <3> QED
      BY <3>1, <3>2
  <2>6. t[i][j - 1] + Cost(a[i + 1], b[j]) = v + x /\ u[k][j - 1] + Cost(c[k + 1], b[j]) = w + y
    BY <2>3, <2>4
  <2>7. v + x \in Nat /\ w + y \in Nat
    OBVIOUS
  <2> QED
    BY <2>5, <2>6, <2>7
<1> DEFINE P == {j \in 0..Len(b) : t[i + 1][j] <= u[k + 1][j] + e}
<1>7. 0 \in P
  <2>1. 0 \in 0..Len(b) /\ i <= k + e
    BY <1>3, <1>5
  <2> QED
    BY <1>3, <2>1
<1>8. ASSUME NEW j \in 0..(Len(b) - 1), j \in P PROVE j + 1 \in P
  <2>1. j + 1 \in 1..Len(b) /\ j + 1 \in 0..Len(b) /\ (j + 1) - 1 = j
    OBVIOUS
  <2>2. t[i][j + 1] <= u[k][j + 1] + e /\ t[i + 1][j] <= u[k + 1][j] + e
    BY <1>5, <1>8, <2>1
  <2> DEFINE z == t[i][j] + Cost(a[i + 1], b[j + 1])
             q == u[k][j] + Cost(c[k + 1], b[j + 1])
  <2>3. z \in Nat /\ q \in Nat /\ z <= q + e
    BY <1>6, <2>1
  <2>4. Least(t[i + 1][j + 1], t[i][j + 1], t[i + 1][j], z)
        /\ Least(u[k + 1][j + 1], u[k][j + 1], u[k + 1][j], q)
    BY <1>4, <2>1
  <2>5. t[i][j + 1] \in Nat /\ t[i + 1][j] \in Nat /\ u[k][j + 1] \in Nat /\ u[k + 1][j] \in Nat
    <3>1. t[i][j + 1] \in Nat /\ t[i + 1][j] \in Nat
      BY <1>2, <2>1
    <3>2. u[k][j + 1] \in Nat /\ u[k + 1][j] \in Nat
      BY <1>2, <2>1
    <3> QED
      BY <3>1, <3>2
  <2> HIDE DEF z, q
  <2>6. t[i + 1][j + 1] <= u[k + 1][j + 1] + e
    <3> DEFINE x == t[i][j + 1]
               y == t[i + 1][j]
               v == u[k][j + 1]
               w == u[k + 1][j]
               d == t[i + 1][j + 1]
               f == u[k + 1][j + 1]
    <3>1. /\ x \in Nat /\ y \in Nat /\ v \in Nat /\ w \in Nat
          /\ x <= v + e /\ y <= w + e /\ Least(d, x, y, z) /\ Least(f, v, w, q)
      BY <2>2, <2>4, <2>5
    <3> HIDE DEF x, y, v, w, d, f
    <3>2. d <= f + e
      BY <2>3, <3>1, LeastWithin
    <3> QED
      BY <3>2 DEF d, f
  <2> QED
    BY <2>1, <2>6
<1>9. \A j \in 0..Len(b) : j \in P
  <2> HIDE DEF P
  <2> QED
    BY <1>7, <1>8, Induction
<1> QED
  BY <1>9 DEF Near

\* A word goes on as another does, for some letters.
SameFrom(a, i, c, k, n) == \A r \in 1..n : a[i + r] = c[k + r]

\* Rows that are near each other stay so while the words go on alike.
LEMMA RowsAdvance ==
  ASSUME NEW a, NEW c, NEW b, Len(a) \in Nat, Len(c) \in Nat, Len(b) \in Nat,
         NEW t, Table(t, a, b), NEW u, Table(u, c, b),
         NEW i \in Nat, NEW k \in Nat, NEW n \in Nat, i + n <= Len(a), k + n <= Len(c),
         SameFrom(a, i, c, k, n), NEW e \in Nat, Near(t, i, u, k, b, e)
  PROVE  \A r \in 0..n : Near(t, i + r, u, k + r, b, e)
<1> DEFINE P == {r \in 0..n : Near(t, i + r, u, k + r, b, e)}
<1>1. 0 \in P
  <2>1. i + 0 = i /\ k + 0 = k /\ 0 \in 0..n
    OBVIOUS
  <2> QED
    BY <2>1
<1>2. ASSUME NEW r \in 0..(n - 1), r \in P PROVE r + 1 \in P
  <2>1. /\ i + r \in 0..(Len(a) - 1) /\ k + r \in 0..(Len(c) - 1)
        /\ r + 1 \in 1..n /\ r + 1 \in 0..n
        /\ (i + r) + 1 = i + (r + 1) /\ (k + r) + 1 = k + (r + 1)
    OBVIOUS
  <2>2. a[(i + r) + 1] = c[(k + r) + 1]
    <3>1. a[i + (r + 1)] = c[k + (r + 1)]
      BY <2>1 DEF SameFrom
    <3> QED
      BY <2>1, <3>1
  <2>3. Near(t, i + r, u, k + r, b, e)
    BY <1>2
  <2>4. Near(t, (i + r) + 1, u, (k + r) + 1, b, e)
    BY <2>1, <2>2, <2>3, RowAdvances
  <2> QED
    BY <2>1, <2>4
<1>3. \A r \in 0..n : r \in P
  <2> HIDE DEF P
  <2> QED
    BY <1>1, <1>2, Induction
<1> QED
  BY <1>3

\* Words with the same beginning have the same rows.
LEMMA SameBeginning ==
  ASSUME NEW a, NEW c, NEW b, Len(a) \in Nat, Len(c) \in Nat, Len(b) \in Nat,
         NEW t, Table(t, a, b), NEW u, Table(u, c, b),
         NEW p \in Nat, p <= Len(a), p <= Len(c), \A k \in 1..p : a[k] = c[k]
  PROVE  Near(t, p, u, p, b, 0)
<1>1. Near(t, 0, u, 0, b, 0)
  <2>1. \A j \in 0..Len(b) : t[0][j] = j /\ u[0][j] = j
    BY TableCell
  <2> QED
    BY <2>1 DEF Near
<1>2. SameFrom(a, 0, c, 0, p)
  BY DEF SameFrom
<1>3. 0 + p <= Len(a) /\ 0 + p <= Len(c) /\ p \in 0..p /\ 0 + p = p
  OBVIOUS
<1>4. \A r \in 0..p : Near(t, 0 + r, u, 0 + r, b, 0)
  BY <1>1, <1>2, <1>3, RowsAdvance
<1> QED
  BY <1>3, <1>4

\* A word has one letter less: the one at p.
Lacks(c, a, p) ==
    /\ Len(c) = Len(a) - 1
    /\ \A k \in 1..(p - 1) : c[k] = a[k]
    /\ \A k \in p..Len(c) : c[k] = a[k + 1]

\* A word has one letter changed, or one letter less or more.
Edited(a, c) ==
    \/ \E p \in 1..Len(a) : Len(c) = Len(a) /\ \A k \in 1..Len(a) : k # p => c[k] = a[k]
    \/ \E p \in 1..Len(a) : Lacks(c, a, p)
    \/ \E p \in 1..Len(c) : Lacks(a, c, p)

\* One edit of a word changes its distance from any other by one at most.
LEMMA EditMovesByOne ==
  ASSUME NEW a, NEW c, NEW b, Len(a) \in Nat, Len(c) \in Nat, Len(b) \in Nat,
         NEW t, Table(t, a, b), NEW u, Table(u, c, b), Edited(a, c)
  PROVE  t[Len(a)][Len(b)] <= u[Len(c)][Len(b)] + 1
<1>1. ASSUME NEW i \in Nat, NEW k \in Nat, NEW n \in Nat, i + n = Len(a), k + n = Len(c),
             SameFrom(a, i, c, k, n), Near(t, i, u, k, b, 1)
      PROVE  t[Len(a)][Len(b)] <= u[Len(c)][Len(b)] + 1
  <2>1. \A r \in 0..n : Near(t, i + r, u, k + r, b, 1)
    <3>1. i + n <= Len(a) /\ k + n <= Len(c) /\ 1 \in Nat
      BY <1>1
    <3> QED
      BY <1>1, <3>1, RowsAdvance
  <2>2. n \in 0..n
    OBVIOUS
  <2>3. Near(t, i + n, u, k + n, b, 1)
    BY <2>1, <2>2
  <2>4. Near(t, Len(a), u, Len(c), b, 1)
    BY <1>1, <2>3
  <2>5. Len(b) \in 0..Len(b)
    OBVIOUS
  <2> QED
    BY <2>4, <2>5 DEF Near
<1>2. ASSUME NEW p \in 1..Len(a), Len(c) = Len(a), \A k \in 1..Len(a) : k # p => c[k] = a[k]
      PROVE  t[Len(a)][Len(b)] <= u[Len(c)][Len(b)] + 1
  <2>1. /\ p - 1 \in Nat /\ p - 1 <= Len(a) /\ p - 1 <= Len(c) /\ p \in Nat /\ Len(a) - p \in Nat
        /\ p - 1 \in 0..(Len(a) - 1) /\ p - 1 \in 0..(Len(c) - 1) /\ (p - 1) + 1 = p
        /\ p + (Len(a) - p) = Len(a) /\ p + (Len(a) - p) = Len(c)
    BY <1>2
  <2>2. \A k \in 1..(p - 1) : a[k] = c[k]
    BY <1>2
  <2>3. Near(t, p - 1, u, p - 1, b, 0)
    BY <2>1, <2>2, SameBeginning
  <2>4. Near(t, (p - 1) + 1, u, (p - 1) + 1, b, 1)
    BY <2>1, <2>3, RowAdvances
  <2>5. SameFrom(a, p, c, p, Len(a) - p)
    <3> SUFFICES ASSUME NEW r \in 1..(Len(a) - p) PROVE a[p + r] = c[p + r]
      BY DEF SameFrom
    <3>1. p + r \in 1..Len(a) /\ p + r # p
      OBVIOUS
    <3> QED
      BY <1>2, <3>1
  <2> QED
    BY <1>1, <2>1, <2>4, <2>5
<1>3. ASSUME NEW p \in 1..Len(a), Lacks(c, a, p)
      PROVE  t[Len(a)][Len(b)] <= u[Len(c)][Len(b)] + 1
  <2>1. /\ p - 1 \in Nat /\ p - 1 <= Len(a) /\ p - 1 <= Len(c) /\ p \in Nat /\ Len(a) - p \in Nat
        /\ p - 1 \in 0..(Len(a) - 1) /\ (p - 1) + 1 = p /\ p - 1 \in 0..Len(c) /\ p \in 0..Len(a)
        /\ p + (Len(a) - p) = Len(a) /\ (p - 1) + (Len(a) - p) = Len(c)
    BY <1>3 DEF Lacks
  <2>2. \A k \in 1..(p - 1) : a[k] = c[k]
    BY <1>3 DEF Lacks
  <2>3. Near(t, p - 1, u, p - 1, b, 0)
    BY <2>1, <2>2, SameBeginning
  <2>4. Near(t, p, u, p - 1, b, 1)
    <3> SUFFICES ASSUME NEW j \in 0..Len(b) PROVE t[p][j] <= u[p - 1][j] + 1
      BY DEF Near
    <3>1. t[(p - 1) + 1][j] <= t[p - 1][j] + 1
      BY <2>1, CellSteps
    <3>2. t[p - 1][j] <= u[p - 1][j] + 0
      BY <2>3 DEF Near
    <3>3. PICK x \in Nat, y \in Nat, z \in Nat : x = t[p][j] /\ y = t[p - 1][j] /\ z = u[p - 1][j]
      <4>1. p - 1 \in 0..Len(a)
        BY <2>1
      <4>2. t[p][j] \in Nat /\ t[p - 1][j] \in Nat
        BY <2>1, <4>1, TableCell
      <4>3. u[p - 1][j] \in Nat
        BY <2>1, TableCell
      <4> QED
        BY <4>2, <4>3
    <3>4. x <= y + 1 /\ y <= z + 0
      BY <2>1, <3>1, <3>2, <3>3
    <3>5. x <= z + 1
      BY <3>4
    <3> QED
      BY <3>3, <3>5
  <2>5. SameFrom(a, p, c, p - 1, Len(a) - p)
    <3> SUFFICES ASSUME NEW r \in 1..(Len(a) - p) PROVE a[p + r] = c[(p - 1) + r]
      BY DEF SameFrom
    <3>1. (p - 1) + r \in p..Len(c) /\ ((p - 1) + r) + 1 = p + r
      BY <2>1
    <3> QED
      BY <1>3, <3>1 DEF Lacks
  <2> QED
    BY <1>1, <2>1, <2>4, <2>5
<1>4. ASSUME NEW p \in 1..Len(c), Lacks(a, c, p)
      PROVE  t[Len(a)][Len(b)] <= u[Len(c)][Len(b)] + 1
  <2>1. /\ p - 1 \in Nat /\ p - 1 <= Len(a) /\ p - 1 <= Len(c) /\ p \in Nat /\ Len(c) - p \in Nat
        /\ p - 1 \in 0..(Len(c) - 1) /\ (p - 1) + 1 = p /\ p - 1 \in 0..Len(a) /\ p \in 0..Len(c)
        /\ p \in 1..Len(c)
        /\ p + (Len(c) - p) = Len(c) /\ (p - 1) + (Len(c) - p) = Len(a)
    BY <1>4 DEF Lacks
  <2>2. \A k \in 1..(p - 1) : a[k] = c[k]
    BY <1>4 DEF Lacks
  <2>3. Near(t, p - 1, u, p - 1, b, 0)
    BY <2>1, <2>2, SameBeginning
  <2>4. Near(t, p - 1, u, p, b, 1)
    <3> DEFINE P == {j \in 0..Len(b) : t[p - 1][j] <= u[p][j] + 1}
    <3>1. /\ \A j \in 0..Len(b) : t[p - 1][j] \in Nat /\ u[p][j] \in Nat /\ u[p - 1][j] \in Nat
          /\ t[p - 1][0] = p - 1 /\ u[p][0] = p
      <4>1. p - 1 \in 0..Len(c)
        BY <2>1
      <4>2. (\A j \in 0..Len(b) : t[p - 1][j] \in Nat) /\ t[p - 1][0] = p - 1
        <5>1. /\ \A i \in 0..Len(a), j \in 0..Len(b) : t[i][j] \in Nat
              /\ \A i \in 0..Len(a) : t[i][0] = i
          BY TableCell
        <5> QED
          BY <2>1, <5>1
      <4>3. (\A j \in 0..Len(b) : u[p][j] \in Nat) /\ u[p][0] = p
        <5>1. /\ \A i \in 0..Len(c), j \in 0..Len(b) : u[i][j] \in Nat
              /\ \A i \in 0..Len(c) : u[i][0] = i
          BY TableCell
        <5> QED
          BY <2>1, <5>1
      <4>4. \A j \in 0..Len(b) : u[p - 1][j] \in Nat
        BY <4>1, TableCell
      <4> QED
        BY <4>2, <4>3, <4>4
    <3>2. 0 \in P
      BY <2>1, <3>1
    <3>3. ASSUME NEW j \in 0..(Len(b) - 1), j \in P PROVE j + 1 \in P
      <4>1. j + 1 \in 1..Len(b) /\ j + 1 \in 0..Len(b) /\ j \in 0..Len(b) /\ (j + 1) - 1 = j
        OBVIOUS
      <4>2. PICK x \in Nat, y \in Nat, v \in Nat, w \in Nat, q \in Nat, r \in Nat :
               /\ x = t[p - 1][j + 1] /\ y = t[p - 1][j]
               /\ v = u[p][j + 1] /\ w = u[p][j] /\ q = u[p - 1][j + 1] /\ r = u[p - 1][j]
        BY <3>1, <4>1
      <4>3. x <= y + 1
        BY <2>1, <4>2, CellSteps
      <4>4. x <= q + 0 /\ y <= r + 0 /\ y <= w + 1
        BY <2>3, <3>3, <4>1, <4>2 DEF Near
      <4>5. Least(v, q, w, r + Cost(c[p], b[j + 1]))
        <5>1. Least(u[p][j + 1], u[p - 1][j + 1], u[p][(j + 1) - 1], u[p - 1][(j + 1) - 1] + Cost(c[p], b[j + 1]))
          BY <2>1, <4>1, TableCell
        <5> QED
          BY <4>1, <4>2, <5>1
      <4>6. PICK z \in {0, 1} : z = Cost(c[p], b[j + 1])
        BY DEF Cost
      <4>7. x <= v + 1
        BY <4>3, <4>4, <4>5, <4>6 DEF Least
      <4> QED
        BY <4>1, <4>2, <4>7
    <3>4. \A j \in 0..Len(b) : j \in P
      <4> HIDE DEF P
      <4> QED
        BY <3>2, <3>3, Induction
    <3> QED
      BY <3>4 DEF Near
  <2>5. SameFrom(a, p - 1, c, p, Len(c) - p)
    <3> SUFFICES ASSUME NEW r \in 1..(Len(c) - p) PROVE a[(p - 1) + r] = c[p + r]
      BY DEF SameFrom
    <3>1. (p - 1) + r \in p..Len(a) /\ ((p - 1) + r) + 1 = p + r
      BY <2>1
    <3> QED
      BY <1>4, <3>1 DEF Lacks
  <2> QED
    BY <1>1, <2>1, <2>4, <2>5
<1> QED
  BY <1>2, <1>3, <1>4 DEF Edited

Spelled == Seq(Alphabet)

\* What the edits of a word are, letter by letter.
LEMMA Removed ==
  ASSUME NEW w \in Spelled, NEW i \in 1..Len(w)
  PROVE  RemoveAt(w, i) \in Spelled /\ Lacks(RemoveAt(w, i), w, i)
<1> DEFINE s == SubSeq(w, 1, i - 1)
           t == SubSeq(w, i + 1, Len(w))
<1>1. /\ s \in Spelled /\ Len(s) = i - 1 /\ \A k \in 1..(i - 1) : s[k] = w[k]
      /\ t \in Spelled /\ Len(t) = Len(w) - i /\ \A k \in 1..(Len(w) - i) : t[k] = w[i + k]
  BY DEF Spelled
<1> HIDE DEF s, t
<1>2. /\ s \o t \in Spelled /\ Len(s \o t) = Len(w) - 1
      /\ \A k \in 1..(Len(w) - 1) : (s \o t)[k] = IF k <= i - 1 THEN s[k] ELSE t[k - (i - 1)]
  <2>1. Len(s) + Len(t) = Len(w) - 1
    BY <1>1 DEF Spelled
  <2>2. /\ s \o t \in Spelled /\ Len(s \o t) = Len(s) + Len(t)
        /\ \A k \in 1..(Len(s) + Len(t)) : (s \o t)[k] = IF k <= Len(s) THEN s[k] ELSE t[k - Len(s)]
    BY <1>1, ConcatProperties DEF Spelled
  <2> QED
    BY <1>1, <2>1, <2>2
<1>3. \A k \in 1..(i - 1) : (s \o t)[k] = w[k]
  BY <1>1, <1>2 DEF Spelled
<1>4. ASSUME NEW k \in i..(Len(w) - 1) PROVE (s \o t)[k] = w[k + 1]
  <2>1. /\ k \in 1..(Len(w) - 1) /\ ~(k <= i - 1) /\ k - (i - 1) \in 1..(Len(w) - i)
        /\ i + (k - (i - 1)) = k + 1
    BY DEF Spelled
  <2> QED
    BY <1>1, <1>2, <2>1
<1>5. RemoveAt(w, i) = s \o t
  BY DEF RemoveAt, s, t
<1> QED
  BY <1>2, <1>3, <1>4, <1>5 DEF Lacks

\* The word with one letter changed.
LEMMA Replaced ==
  ASSUME NEW w \in Spelled, NEW i \in 1..Len(w), NEW x \in Alphabet
  PROVE  /\ ReplaceAt(w, i, x) \in Spelled /\ Len(ReplaceAt(w, i, x)) = Len(w)
         /\ \A k \in 1..Len(w) : ReplaceAt(w, i, x)[k] = IF k = i THEN x ELSE w[k]
BY ExceptSeq DEF Spelled, ReplaceAt

\* The word with a letter inserted is the word when that letter is removed again.
LEMMA Inserted ==
  ASSUME NEW w \in Spelled, NEW i \in 1..(Len(w) + 1), NEW x \in Alphabet
  PROVE  /\ InsertAt(w, i, x) \in Spelled /\ Len(InsertAt(w, i, x)) = Len(w) + 1
         /\ InsertAt(w, i, x)[i] = x /\ Lacks(w, InsertAt(w, i, x), i)
<1> DEFINE s == SubSeq(w, 1, i - 1)
           t == SubSeq(w, i, Len(w))
<1>1. /\ s \in Spelled /\ Len(s) = i - 1 /\ \A k \in 1..(i - 1) : s[k] = w[k]
      /\ t \in Spelled /\ Len(t) = (Len(w) - i) + 1
      /\ \A k \in 1..((Len(w) - i) + 1) : t[k] = w[(i + k) - 1]
      /\ <<x>> \in Spelled /\ Len(<<x>>) = 1 /\ <<x>>[1] = x
  BY DEF Spelled
<1> DEFINE u == <<x>>
<1> HIDE DEF s, t, u
<1>2. /\ s \o u \in Spelled /\ Len(s \o u) = i
      /\ \A k \in 1..i : (s \o u)[k] = IF k <= i - 1 THEN s[k] ELSE u[k - (i - 1)]
  <2>1. u \in Spelled /\ Len(u) = 1 /\ Len(s) + Len(u) = i
    BY <1>1 DEF u
  <2>2. /\ s \o u \in Spelled /\ Len(s \o u) = Len(s) + Len(u)
        /\ \A k \in 1..(Len(s) + Len(u)) : (s \o u)[k] = IF k <= Len(s) THEN s[k] ELSE u[k - Len(s)]
    BY <1>1, <2>1, ConcatProperties DEF Spelled
  <2> QED
    BY <1>1, <2>1, <2>2
<1> DEFINE v == s \o u
<1>3. v \in Spelled /\ Len(v) = i /\ v[i] = x /\ \A k \in 1..(i - 1) : v[k] = w[k]
  <2>1. u[1] = x /\ i - (i - 1) = 1 /\ ~(i <= i - 1) /\ i \in 1..i
    BY <1>1 DEF u
  <2>2. v[i] = x
    BY <1>2, <2>1
  <2>3. \A k \in 1..(i - 1) : k \in 1..i /\ k <= i - 1
    OBVIOUS
  <2>4. \A k \in 1..(i - 1) : v[k] = w[k]
    BY <1>1, <1>2, <2>3
  <2> QED
    BY <1>2, <2>2, <2>4
<1> HIDE DEF v
<1>4. /\ v \o t \in Spelled /\ Len(v \o t) = Len(w) + 1
      /\ \A k \in 1..(Len(w) + 1) : (v \o t)[k] = IF k <= i THEN v[k] ELSE t[k - i]
  <2>1. Len(v) + Len(t) = Len(w) + 1
    BY <1>1, <1>3 DEF Spelled
  <2>2. /\ v \o t \in Spelled /\ Len(v \o t) = Len(v) + Len(t)
        /\ \A k \in 1..(Len(v) + Len(t)) : (v \o t)[k] = IF k <= Len(v) THEN v[k] ELSE t[k - Len(v)]
    BY <1>1, <1>3, ConcatProperties DEF Spelled
  <2> QED
    BY <1>3, <2>1, <2>2
<1>5. (v \o t)[i] = x /\ \A k \in 1..(i - 1) : (v \o t)[k] = w[k]
  BY <1>3, <1>4 DEF Spelled
<1>6. ASSUME NEW k \in i..Len(w) PROVE (v \o t)[k + 1] = w[k]
  <2>1. /\ k + 1 \in 1..(Len(w) + 1) /\ ~(k + 1 <= i) /\ (k + 1) - i \in 1..((Len(w) - i) + 1)
        /\ (i + ((k + 1) - i)) - 1 = k
    BY DEF Spelled
  <2> QED
    BY <1>1, <1>4, <2>1
<1>7. InsertAt(w, i, x) = v \o t
  BY DEF InsertAt, s, t, u, v
<1>8. Len(w) = (Len(w) + 1) - 1
  BY DEF Spelled
<1> QED
  BY <1>4, <1>5, <1>6, <1>7, <1>8 DEF Lacks

\* A word that lacks the letter at p is known by that.
LEMMA LackedOnce ==
  ASSUME NEW w \in Spelled, NEW p, NEW c \in Spelled, NEW d \in Spelled, Lacks(c, w, p), Lacks(d, w, p), p \in Nat
  PROVE  c = d
<1>1. Len(c) = Len(d)
  BY DEF Lacks
<1>2. ASSUME NEW k \in 1..Len(c) PROVE c[k] = d[k]
  <2>1. k \in 1..(p - 1) \/ k \in p..Len(c)
    BY DEF Spelled
  <2> QED
    BY <1>1, <2>1 DEF Lacks
<1> QED
  BY <1>1, <1>2, SeqEqual DEF Spelled

\* Two words are close when one edit at most makes the second of the first.
Close(w, c) == c = w \/ Edited(w, c)

\* The edits of the model are these.
LEMMA OneEditMeans ==
  ASSUME NEW w \in Spelled
  PROVE  \A c : c \in OneEdit(w) <=> c \in Spelled /\ Close(w, c)
<1> SUFFICES ASSUME NEW c
             PROVE  c \in OneEdit(w) <=> c \in Spelled /\ Close(w, c)
  OBVIOUS
<1>1. /\ Len(w) \in Nat /\ DOMAIN w = 1..Len(w)
  BY DEF Spelled
<1>2. c \in OneEdit(w) <=> \/ c = w
                           \/ \E i \in 1..Len(w) : c = RemoveAt(w, i)
                           \/ \E i \in 1..Len(w), x \in Alphabet : c = ReplaceAt(w, i, x)
                           \/ \E i \in 1..(Len(w) + 1), x \in Alphabet : c = InsertAt(w, i, x)
  <2> DEFINE R == {RemoveAt(w, i) : i \in DOMAIN w}
             P == {ReplaceAt(w, i, x) : i \in DOMAIN w, x \in Alphabet}
             I == {InsertAt(w, i, x) : i \in 1..(Len(w) + 1), x \in Alphabet}
  <2>1. c \in R <=> \E i \in 1..Len(w) : c = RemoveAt(w, i)
    BY <1>1
  <2>2. c \in P <=> \E i \in 1..Len(w), x \in Alphabet : c = ReplaceAt(w, i, x)
    BY <1>1
  <2>3. c \in I <=> \E i \in 1..(Len(w) + 1), x \in Alphabet : c = InsertAt(w, i, x)
    OBVIOUS
  <2>4. OneEdit(w) = {w} \cup R \cup P \cup I
    BY DEF OneEdit
  <2> HIDE DEF R, P, I
  <2>5. c \in OneEdit(w) <=> c = w \/ c \in R \/ c \in P \/ c \in I
    BY <2>4
  <2> QED
    BY <2>1, <2>2, <2>3, <2>5
<1>3. ASSUME NEW i \in 1..Len(w), c = RemoveAt(w, i) PROVE c \in Spelled /\ Edited(w, c)
  BY <1>3, Removed DEF Edited
<1>4. ASSUME NEW i \in 1..Len(w), NEW x \in Alphabet, c = ReplaceAt(w, i, x) PROVE c \in Spelled /\ Edited(w, c)
  <2>1. c \in Spelled /\ Len(c) = Len(w) /\ \A k \in 1..Len(w) : k # i => c[k] = w[k]
    BY <1>4, Replaced
  <2> QED
    BY <2>1 DEF Edited
<1>5. ASSUME NEW i \in 1..(Len(w) + 1), NEW x \in Alphabet, c = InsertAt(w, i, x) PROVE c \in Spelled /\ Edited(w, c)
  <2>1. c \in Spelled /\ Len(c) = Len(w) + 1 /\ Lacks(w, c, i)
    BY <1>5, Inserted
  <2> QED
    BY <2>1 DEF Edited
<1>6. ASSUME c \in Spelled, NEW p \in 1..Len(w), Len(c) = Len(w), \A k \in 1..Len(w) : k # p => c[k] = w[k]
      PROVE  \E i \in 1..Len(w), x \in Alphabet : c = ReplaceAt(w, i, x)
  <2>1. c[p] \in Alphabet
    BY <1>6 DEF Spelled
  <2> DEFINE d == ReplaceAt(w, p, c[p])
  <2>2. d \in Spelled /\ Len(d) = Len(w) /\ \A k \in 1..Len(w) : d[k] = IF k = p THEN c[p] ELSE w[k]
    BY <2>1, Replaced
  <2> HIDE DEF d
  <2>3. \A k \in 1..Len(c) : c[k] = d[k]
    BY <1>6, <2>2
  <2>4. c = d
    BY <1>6, <2>2, <2>3, SeqEqual DEF Spelled
  <2> QED
    BY <2>1, <2>4 DEF d
<1>7. ASSUME c \in Spelled, NEW p \in 1..Len(w), Lacks(c, w, p)
      PROVE  \E i \in 1..Len(w) : c = RemoveAt(w, i)
  <2>1. RemoveAt(w, p) \in Spelled /\ Lacks(RemoveAt(w, p), w, p) /\ p \in Nat
    BY Removed
  <2>2. c = RemoveAt(w, p)
    BY <1>7, <2>1, LackedOnce
  <2> QED
    BY <2>2
<1>8. ASSUME c \in Spelled, NEW p \in 1..Len(c), Lacks(w, c, p)
      PROVE  \E i \in 1..(Len(w) + 1), x \in Alphabet : c = InsertAt(w, i, x)
  <2>1. c[p] \in Alphabet /\ Len(c) \in Nat /\ Len(w) = Len(c) - 1 /\ p \in 1..(Len(w) + 1)
    BY <1>8 DEF Spelled, Lacks
  <2> DEFINE d == InsertAt(w, p, c[p])
  <2>2. d \in Spelled /\ Len(d) = Len(w) + 1 /\ d[p] = c[p] /\ Lacks(w, d, p)
    BY <2>1, Inserted
  <2> HIDE DEF d
  <2>3. Len(c) = Len(d)
    BY <2>1, <2>2
  <2>4. ASSUME NEW k \in 1..Len(c) PROVE c[k] = d[k]
    <3>1. CASE k = p
      BY <2>2, <3>1
    <3>2. CASE k < p
      <4>1. k \in 1..(p - 1)
        BY <3>2
      <4> QED
        BY <1>8, <2>2, <4>1 DEF Lacks
    <3>3. CASE k > p
      <4>1. k - 1 \in p..Len(w) /\ (k - 1) + 1 = k
        BY <2>1, <3>3
      <4> QED
        BY <1>8, <2>2, <4>1 DEF Lacks
    <3> QED
      BY <2>1, <3>1, <3>2, <3>3
  <2>5. c = d
    BY <1>8, <2>2, <2>3, <2>4, SeqEqual DEF Spelled
  <2> QED
    BY <2>1, <2>5 DEF d
<1>9. c \in OneEdit(w) => c \in Spelled /\ Close(w, c)
  BY <1>2, <1>3, <1>4, <1>5 DEF Close
<1>10. c \in Spelled /\ Close(w, c) => c \in OneEdit(w)
  BY <1>2, <1>6, <1>7, <1>8 DEF Close, Edited
<1> QED
  BY <1>9, <1>10

\* What one letter more at the end is to an edit.
LEMMA EditsAppend ==
  ASSUME NEW w \in Spelled, NEW c \in Spelled, NEW x \in Alphabet, NEW y \in Alphabet
  PROVE  /\ Close(w, c) => Close(Append(w, x), Append(c, x))
         /\ Close(Append(w, x), Append(w, y))
         /\ Close(Append(w, x), w)
         /\ Close(w, Append(w, y))
<1>1. /\ Len(w) \in Nat /\ Len(c) \in Nat
      /\ Len(Append(w, x)) = Len(w) + 1 /\ Len(Append(w, y)) = Len(w) + 1 /\ Len(Append(c, x)) = Len(c) + 1
  BY DEF Spelled
<1>2. /\ Append(w, x)[Len(w) + 1] = x /\ \A k \in 1..Len(w) : Append(w, x)[k] = w[k]
      /\ Append(w, y)[Len(w) + 1] = y /\ \A k \in 1..Len(w) : Append(w, y)[k] = w[k]
      /\ Append(c, x)[Len(c) + 1] = x /\ \A k \in 1..Len(c) : Append(c, x)[k] = c[k]
  BY DEF Spelled
<1> DEFINE wx == Append(w, x)
           wy == Append(w, y)
           cx == Append(c, x)
<1> HIDE DEF wx, wy, cx
<1>3. /\ Len(wx) = Len(w) + 1 /\ wx[Len(w) + 1] = x /\ \A k \in 1..Len(w) : wx[k] = w[k]
      /\ Len(wy) = Len(w) + 1 /\ wy[Len(w) + 1] = y /\ \A k \in 1..Len(w) : wy[k] = w[k]
      /\ Len(cx) = Len(c) + 1 /\ cx[Len(c) + 1] = x /\ \A k \in 1..Len(c) : cx[k] = c[k]
  BY <1>1, <1>2 DEF wx, wy, cx
<1>4. ASSUME NEW u, NEW v, NEW ux, NEW vx, Len(u) \in Nat, Len(v) \in Nat, NEW p \in 1..Len(u), Lacks(v, u, p),
             Len(ux) = Len(u) + 1, ux[Len(u) + 1] = x, \A k \in 1..Len(u) : ux[k] = u[k],
             Len(vx) = Len(v) + 1, vx[Len(v) + 1] = x, \A k \in 1..Len(v) : vx[k] = v[k]
      PROVE  p \in 1..Len(ux) /\ Lacks(vx, ux, p)
  <2>1. Len(u) = Len(v) + 1 /\ Len(vx) = Len(ux) - 1 /\ p \in 1..Len(ux)
    BY <1>4 DEF Lacks
  <2>2. ASSUME NEW k \in 1..(p - 1) PROVE vx[k] = ux[k]
    <3>1. k \in 1..Len(u) /\ k \in 1..Len(v)
      BY <1>4, <2>1
    <3> QED
      BY <1>4, <3>1 DEF Lacks
  <2>3. ASSUME NEW k \in p..Len(vx) PROVE vx[k] = ux[k + 1]
    <3>1. CASE k = Len(v) + 1
      BY <1>4, <2>1, <3>1
    <3>2. CASE k # Len(v) + 1
      <4>1. k \in p..Len(v) /\ k \in 1..Len(v) /\ k + 1 \in 1..Len(u)
        BY <1>4, <2>1, <3>2
      <4> QED
        BY <1>4, <4>1 DEF Lacks
    <3> QED
      BY <3>1, <3>2
  <2> QED
    BY <2>1, <2>2, <2>3 DEF Lacks
<1>5. ASSUME Edited(w, c) PROVE Edited(wx, cx)
  <2>1. ASSUME NEW p \in 1..Len(w), Len(c) = Len(w), \A k \in 1..Len(w) : k # p => c[k] = w[k]
        PROVE  Edited(wx, cx)
    <3>1. p \in 1..Len(wx) /\ Len(cx) = Len(wx)
      BY <1>1, <1>3, <2>1
    <3>2. ASSUME NEW k \in 1..Len(wx), k # p PROVE cx[k] = wx[k]
      <4>1. k = Len(w) + 1 \/ k \in 1..Len(w)
        BY <1>1, <1>3
      <4> QED
        BY <1>3, <2>1, <3>2, <4>1
    <3> QED
      BY <3>1, <3>2 DEF Edited
  <2>2. ASSUME NEW p \in 1..Len(w), Lacks(c, w, p) PROVE Edited(wx, cx)
    <3>1. p \in 1..Len(wx) /\ Lacks(cx, wx, p)
      BY <1>1, <1>3, <1>4, <2>2
    <3> QED
      BY <3>1 DEF Edited
  <2>3. ASSUME NEW p \in 1..Len(c), Lacks(w, c, p) PROVE Edited(wx, cx)
    <3>1. p \in 1..Len(cx) /\ Lacks(wx, cx, p)
      BY <1>1, <1>3, <1>4, <2>3
    <3> QED
      BY <3>1 DEF Edited
  <2> QED
    BY <1>5, <2>1, <2>2, <2>3 DEF Edited
<1>6. Edited(wx, wy)
  <2>1. Len(w) + 1 \in 1..Len(wx) /\ Len(wy) = Len(wx)
    BY <1>1, <1>3
  <2>2. \A k \in 1..Len(wx) : k # Len(w) + 1 => k \in 1..Len(w)
    BY <1>1, <1>3
  <2>3. \A k \in 1..Len(wx) : k # Len(w) + 1 => wy[k] = wx[k]
    BY <1>3, <2>2
  <2> QED
    BY <2>1, <2>3 DEF Edited
<1>7. ASSUME NEW u, Len(u) = Len(w) + 1, \A k \in 1..Len(w) : u[k] = w[k]
      PROVE  Len(w) + 1 \in 1..Len(u) /\ Lacks(w, u, Len(w) + 1)
  BY <1>1, <1>7 DEF Lacks
<1>8. Edited(wx, w)
  <2>1. Len(w) + 1 \in 1..Len(wx) /\ Lacks(w, wx, Len(w) + 1)
    BY <1>3, <1>7
  <2> QED
    BY <2>1 DEF Edited
<1>9. Edited(w, wy)
  <2>1. Len(w) + 1 \in 1..Len(wy) /\ Lacks(w, wy, Len(w) + 1)
    BY <1>3, <1>7
  <2> QED
    BY <2>1 DEF Edited
<1> QED
  BY <1>5, <1>6, <1>8, <1>9 DEF Close, wx, wy, cx

\* What is within no, one and two edits of a word.
LEMMA WithinMeans ==
  ASSUME NEW a \in Spelled
  PROVE  /\ \A c : c \in Within(0, a) <=> c = a
         /\ \A c : c \in Within(1, a) <=> c \in Spelled /\ Close(a, c)
         /\ \A c : c \in Within(2, a) <=> c \in Spelled /\ \E v \in Spelled : Close(a, v) /\ Close(v, c)
<1>1. Within(0, a) = {a} /\ Within(1, a) = OneEdit(a) /\ Within(2, a) = UNION {OneEdit(w) : w \in OneEdit(a)}
  BY DEF Within
<1>2. ASSUME NEW c
      PROVE  c \in Within(2, a) <=> c \in Spelled /\ \E v \in Spelled : Close(a, v) /\ Close(v, c)
  <2>1. c \in Within(2, a) <=> \E v \in OneEdit(a) : c \in OneEdit(v)
    BY <1>1
  <2>2. \A v \in Spelled : c \in OneEdit(v) <=> c \in Spelled /\ Close(v, c)
    BY OneEditMeans
  <2>3. \A v : v \in OneEdit(a) <=> v \in Spelled /\ Close(a, v)
    BY OneEditMeans
  <2> QED
    BY <2>1, <2>2, <2>3
<1>3. \A c : c \in Within(1, a) <=> c \in Spelled /\ Close(a, c)
  BY <1>1, OneEditMeans
<1> QED
  BY <1>1, <1>2, <1>3

\* What one letter more at the end is to two words a few edits apart.
LEMMA WithinAppend ==
  ASSUME NEW a \in Spelled, NEW c \in Spelled, NEW x \in Alphabet, NEW y \in Alphabet
  PROVE  /\ \A n \in 0..2 : c \in Within(n, a) => Append(c, x) \in Within(n, Append(a, x))
         /\ \A n \in 0..1 : c \in Within(n, a) =>
               /\ c \in Within(n + 1, Append(a, x))
               /\ Append(c, y) \in Within(n + 1, a)
               /\ Append(c, y) \in Within(n + 1, Append(a, x))
<1>1. Append(a, x) \in Spelled /\ Append(c, x) \in Spelled /\ Append(c, y) \in Spelled
  BY DEF Spelled
<1>2. /\ Close(Append(a, x), a) /\ Close(Append(c, x), Append(c, y)) /\ Close(c, Append(c, y))
      /\ Close(Append(a, x), Append(a, y)) /\ Close(a, Append(a, y))
  BY EditsAppend
<1>3. ASSUME NEW u \in Spelled, NEW v \in Spelled, Close(u, v) PROVE Close(Append(u, x), Append(v, x))
  BY <1>3, EditsAppend
<1>4. ASSUME c \in Within(0, a)
      PROVE  /\ Append(c, x) \in Within(0, Append(a, x)) /\ c \in Within(1, Append(a, x))
             /\ Append(c, y) \in Within(1, a) /\ Append(c, y) \in Within(1, Append(a, x))
  <2>1. c = a
    BY <1>4, WithinMeans
  <2>2. c \in Within(1, Append(a, x)) /\ Append(c, y) \in Within(1, Append(a, x))
    BY <1>1, <1>2, <2>1, WithinMeans
  <2>3. Append(c, y) \in Within(1, a)
    BY <1>1, <1>2, <2>1, WithinMeans
  <2>4. Append(c, x) \in Within(0, Append(a, x))
    BY <1>1, <2>1, WithinMeans
  <2> QED
    BY <2>2, <2>3, <2>4
<1>5. ASSUME c \in Within(1, a)
      PROVE  /\ Append(c, x) \in Within(1, Append(a, x)) /\ c \in Within(2, Append(a, x))
             /\ Append(c, y) \in Within(2, a) /\ Append(c, y) \in Within(2, Append(a, x))
  <2>1. Close(a, c)
    BY <1>5, WithinMeans
  <2>2. Close(Append(a, x), Append(c, x))
    BY <1>3, <2>1
  <2>3. Append(c, x) \in Within(1, Append(a, x))
    BY <1>1, <2>2, WithinMeans
  <2>4. c \in Within(2, Append(a, x))
    BY <1>1, <1>2, <2>1, WithinMeans
  <2>5. Append(c, y) \in Within(2, a)
    BY <1>1, <1>2, <2>1, WithinMeans
  <2>6. Append(c, y) \in Within(2, Append(a, x))
    BY <1>1, <1>2, <2>2, WithinMeans
  <2> QED
    BY <2>3, <2>4, <2>5, <2>6
<1>6. ASSUME c \in Within(2, a)
      PROVE  Append(c, x) \in Within(2, Append(a, x))
  <2>1. PICK v \in Spelled : Close(a, v) /\ Close(v, c)
    BY <1>6, WithinMeans
  <2>2. /\ Append(v, x) \in Spelled
        /\ Close(Append(a, x), Append(v, x)) /\ Close(Append(v, x), Append(c, x))
    BY <1>3, <2>1 DEF Spelled
  <2> QED
    BY <1>1, <2>2, WithinMeans
<1>7. \A n \in 0..1 : n = 0 \/ n = 1
  OBVIOUS
<1>8. \A n \in 0..2 : n = 0 \/ n = 1 \/ n = 2
  OBVIOUS
<1>9. 0 + 1 = 1 /\ 1 + 1 = 2
  OBVIOUS
<1> HIDE DEF Spelled
<1>10. \A n \in 0..2 : c \in Within(n, a) => Append(c, x) \in Within(n, Append(a, x))
  BY <1>4, <1>5, <1>6, <1>8
<1> QED
  BY <1>4, <1>5, <1>7, <1>9, <1>10

\* The beginning of a word, and its next letter.
Beginning(w, n) == SubSeq(w, 1, n)

\* A beginning grows by the next letter, from no letters to the whole word.
LEMMA Beginnings ==
  ASSUME NEW w \in Spelled
  PROVE  /\ Beginning(w, 0) = <<>> /\ Beginning(w, Len(w)) = w
         /\ \A n \in 0..Len(w) : Beginning(w, n) \in Spelled
         /\ \A n \in 0..(Len(w) - 1) : /\ w[n + 1] \in Alphabet
                                       /\ Beginning(w, n + 1) = Append(Beginning(w, n), w[n + 1])
<1>1. Len(w) \in Nat
  BY DEF Spelled
<1>2. ASSUME NEW n \in 0..Len(w)
      PROVE  /\ Beginning(w, n) \in Spelled /\ Len(Beginning(w, n)) = n
             /\ \A k \in 1..n : Beginning(w, n)[k] = w[k]
  BY <1>1 DEF Spelled, Beginning
<1>3. Beginning(w, 0) = <<>>
  BY SubSeqEmpty DEF Beginning
<1>4. Beginning(w, Len(w)) = w
  BY <1>1, <1>2, SeqEqual DEF Spelled
<1>5. ASSUME NEW n \in 0..(Len(w) - 1)
      PROVE  w[n + 1] \in Alphabet /\ Beginning(w, n + 1) = Append(Beginning(w, n), w[n + 1])
  <2> DEFINE s == Beginning(w, n)
             t == Beginning(w, n + 1)
  <2>1. n \in 0..Len(w) /\ n + 1 \in 0..Len(w) /\ n + 1 \in 1..Len(w)
    BY <1>1
  <2>2. w[n + 1] \in Alphabet
    BY <2>1 DEF Spelled
  <2>3. /\ s \in Spelled /\ Len(s) = n /\ \A k \in 1..n : s[k] = w[k]
        /\ t \in Spelled /\ Len(t) = n + 1 /\ \A k \in 1..(n + 1) : t[k] = w[k]
    BY <1>2, <2>1
  <2> HIDE DEF s, t
  <2> DEFINE u == Append(s, w[n + 1])
  <2>4. u \in Spelled /\ Len(u) = n + 1 /\ u[n + 1] = w[n + 1] /\ \A k \in 1..n : u[k] = s[k]
    BY <2>2, <2>3 DEF Spelled
  <2> HIDE DEF u
  <2>5. \A k \in 1..(n + 1) : k = n + 1 \/ k \in 1..n
    OBVIOUS
  <2>6. \A k \in 1..(n + 1) : t[k] = u[k]
    BY <2>3, <2>4, <2>5
  <2>7. t = u
    BY <2>3, <2>4, <2>6, SeqEqual DEF Spelled
  <2> QED
    BY <2>2, <2>7 DEF s, t, u
<1> QED
  BY <1>2, <1>3, <1>4, <1>5

\* A cell of two words' table that is two or less has as many edits behind it.
Reached(t, a, b, i, j) == \A n \in 0..2 : t[i][j] <= n => Beginning(b, j) \in Within(n, Beginning(a, i))

\* The cell after another: one edit more, or none where the letters are the same.
LEMMA ReachedNext ==
  ASSUME NEW a \in Spelled, NEW b \in Spelled, NEW t, Table(t, a, b)
  PROVE  /\ \A i \in 0..(Len(a) - 1), j \in 0..Len(b) :
               Reached(t, a, b, i, j) /\ t[i + 1][j] = t[i][j] + 1 => Reached(t, a, b, i + 1, j)
         /\ \A i \in 0..Len(a), j \in 0..(Len(b) - 1) :
               Reached(t, a, b, i, j) /\ t[i][j + 1] = t[i][j] + 1 => Reached(t, a, b, i, j + 1)
         /\ \A i \in 0..(Len(a) - 1), j \in 0..(Len(b) - 1) :
               Reached(t, a, b, i, j) /\ t[i + 1][j + 1] = t[i][j] + Cost(a[i + 1], b[j + 1])
                  => Reached(t, a, b, i + 1, j + 1)
<1>1. Len(a) \in Nat /\ Len(b) \in Nat
  BY DEF Spelled
<1>2. \A i \in 0..Len(a), j \in 0..Len(b) : t[i][j] \in Nat
  BY <1>1, TableCell
<1>3. \A n \in 0..2, x \in Nat : x + 1 <= n => n - 1 \in 0..1 /\ n - 1 \in 0..2 /\ x <= n - 1 /\ (n - 1) + 1 = n
  OBVIOUS
<1>4. ASSUME NEW i \in 0..(Len(a) - 1), NEW j \in 0..Len(b),
             Reached(t, a, b, i, j), t[i + 1][j] = t[i][j] + 1,
             NEW n \in 0..2, t[i + 1][j] <= n
      PROVE  Beginning(b, j) \in Within(n, Beginning(a, i + 1))
  <2>1. PICK x \in Nat : x = t[i][j]
    <3>1. i \in 0..Len(a)
      BY <1>1
    <3> QED
      BY <1>2, <3>1
  <2>2. n - 1 \in 0..1 /\ n - 1 \in 0..2 /\ x <= n - 1 /\ (n - 1) + 1 = n
    BY <1>3, <1>4, <2>1
  <2>3. Beginning(b, j) \in Within(n - 1, Beginning(a, i))
    BY <1>4, <2>1, <2>2 DEF Reached
  <2>4. Beginning(b, j) \in Spelled
    BY <1>1, Beginnings
  <2>5. /\ Beginning(a, i) \in Spelled /\ a[i + 1] \in Alphabet
        /\ Beginning(a, i + 1) = Append(Beginning(a, i), a[i + 1])
    <3>1. i \in 0..Len(a)
      BY <1>1
    <3> QED
      BY <1>1, <3>1, Beginnings
  <2> QED
    BY <2>2, <2>3, <2>4, <2>5, WithinAppend
<1>5. ASSUME NEW i \in 0..Len(a), NEW j \in 0..(Len(b) - 1),
             Reached(t, a, b, i, j), t[i][j + 1] = t[i][j] + 1,
             NEW n \in 0..2, t[i][j + 1] <= n
      PROVE  Beginning(b, j + 1) \in Within(n, Beginning(a, i))
  <2>1. PICK x \in Nat : x = t[i][j]
    <3>1. j \in 0..Len(b)
      BY <1>1
    <3> QED
      BY <1>2, <3>1
  <2>2. n - 1 \in 0..1 /\ n - 1 \in 0..2 /\ x <= n - 1 /\ (n - 1) + 1 = n
    BY <1>3, <1>5, <2>1
  <2>3. Beginning(b, j) \in Within(n - 1, Beginning(a, i))
    BY <1>5, <2>1, <2>2 DEF Reached
  <2>4. Beginning(a, i) \in Spelled
    BY <1>1, Beginnings
  <2>5. /\ Beginning(b, j) \in Spelled /\ b[j + 1] \in Alphabet
        /\ Beginning(b, j + 1) = Append(Beginning(b, j), b[j + 1])
    <3>1. j \in 0..Len(b)
      BY <1>1
    <3> QED
      BY <1>1, <3>1, Beginnings
  <2> QED
    BY <2>2, <2>3, <2>4, <2>5, WithinAppend
<1>6. ASSUME NEW i \in 0..(Len(a) - 1), NEW j \in 0..(Len(b) - 1),
             Reached(t, a, b, i, j), t[i + 1][j + 1] = t[i][j] + Cost(a[i + 1], b[j + 1]),
             NEW n \in 0..2, t[i + 1][j + 1] <= n
      PROVE  Beginning(b, j + 1) \in Within(n, Beginning(a, i + 1))
  <2>1. PICK x \in Nat : x = t[i][j]
    <3>1. i \in 0..Len(a) /\ j \in 0..Len(b)
      BY <1>1
    <3> QED
      BY <1>2, <3>1
  <2>2. /\ Beginning(a, i) \in Spelled /\ a[i + 1] \in Alphabet
        /\ Beginning(a, i + 1) = Append(Beginning(a, i), a[i + 1])
    BY <1>1, Beginnings
  <2>3. /\ Beginning(b, j) \in Spelled /\ b[j + 1] \in Alphabet
        /\ Beginning(b, j + 1) = Append(Beginning(b, j), b[j + 1])
    BY <1>1, Beginnings
  <2>4. CASE a[i + 1] = b[j + 1]
    <3>1. x <= n
      BY <1>6, <2>1, <2>4 DEF Cost
    <3>2. Beginning(b, j) \in Within(n, Beginning(a, i))
      BY <1>6, <2>1, <3>1 DEF Reached
    <3> QED
      BY <2>2, <2>3, <2>4, <3>2, WithinAppend
  <2>5. CASE a[i + 1] # b[j + 1]
    <3>1. x + 1 <= n
      BY <1>6, <2>1, <2>5 DEF Cost
    <3>2. n - 1 \in 0..1 /\ n - 1 \in 0..2 /\ x <= n - 1 /\ (n - 1) + 1 = n
      BY <1>3, <3>1
    <3>3. Beginning(b, j) \in Within(n - 1, Beginning(a, i))
      BY <1>6, <2>1, <3>2 DEF Reached
    <3> QED
      BY <2>2, <2>3, <3>2, <3>3, WithinAppend
  <2> QED
    BY <2>4, <2>5
<1>7. ASSUME NEW i \in 0..(Len(a) - 1), NEW j \in 0..Len(b),
             Reached(t, a, b, i, j), t[i + 1][j] = t[i][j] + 1
      PROVE  Reached(t, a, b, i + 1, j)
  BY <1>4, <1>7 DEF Reached
<1>8. ASSUME NEW i \in 0..Len(a), NEW j \in 0..(Len(b) - 1),
             Reached(t, a, b, i, j), t[i][j + 1] = t[i][j] + 1
      PROVE  Reached(t, a, b, i, j + 1)
  BY <1>5, <1>8 DEF Reached
<1>9. ASSUME NEW i \in 0..(Len(a) - 1), NEW j \in 0..(Len(b) - 1),
             Reached(t, a, b, i, j), t[i + 1][j + 1] = t[i][j] + Cost(a[i + 1], b[j + 1])
      PROVE  Reached(t, a, b, i + 1, j + 1)
  BY <1>6, <1>9 DEF Reached
<1> QED
  BY <1>7, <1>8, <1>9

\* Whatever the table puts at most two apart is as few edits apart.
LEMMA AllReached ==
  ASSUME NEW a \in Spelled, NEW b \in Spelled, NEW t, Table(t, a, b)
  PROVE  \A i \in 0..Len(a) : \A j \in 0..Len(b) : Reached(t, a, b, i, j)
<1> DEFINE P == {i \in 0..Len(a) : \A j \in 0..Len(b) : Reached(t, a, b, i, j)}
<1>1. Len(a) \in Nat /\ Len(b) \in Nat
  BY DEF Spelled
<1>2. /\ \A i \in 0..Len(a), j \in 0..Len(b) : t[i][j] \in Nat
      /\ \A i \in 0..Len(a) : t[i][0] = i
      /\ \A j \in 0..Len(b) : t[0][j] = j
      /\ \A i \in 1..Len(a), j \in 1..Len(b) :
            Least(t[i][j], t[i - 1][j], t[i][j - 1], t[i - 1][j - 1] + Cost(a[i], b[j]))
  BY <1>1, TableCell
<1>3. 0 \in P
  <2> DEFINE Q == {j \in 0..Len(b) : Reached(t, a, b, 0, j)}
  <2>1. 0 \in Q
    <3>1. Beginning(a, 0) = <<>> /\ Beginning(b, 0) = <<>> /\ <<>> \in Spelled
      BY Beginnings DEF Spelled
    <3>2. Close(<<>>, <<>>)
      BY DEF Close
    <3>3. <<>> \in Within(0, <<>>) /\ <<>> \in Within(1, <<>>)
      BY <3>1, <3>2, WithinMeans
    <3>4. <<>> \in Within(2, <<>>)
      BY <3>1, <3>2, WithinMeans
    <3>5. \A n \in 0..2 : n = 0 \/ n = 1 \/ n = 2
      OBVIOUS
    <3>6. \A n \in 0..2 : <<>> \in Within(n, <<>>)
      BY <3>3, <3>4, <3>5
    <3> QED
      BY <1>1, <3>1, <3>6 DEF Reached
  <2>2. ASSUME NEW j \in 0..(Len(b) - 1), j \in Q PROVE j + 1 \in Q
    <3>1. j \in 0..Len(b) /\ j + 1 \in 0..Len(b) /\ 0 \in 0..Len(a)
      BY <1>1
    <3>2. t[0][j + 1] = t[0][j] + 1
      BY <1>2, <3>1
    <3>3. Reached(t, a, b, 0, j + 1)
      BY <2>2, <3>1, <3>2, ReachedNext
    <3> QED
      BY <3>1, <3>3
  <2>3. \A j \in 0..Len(b) : j \in Q
    <3> HIDE DEF Q
    <3> QED
      BY <1>1, <2>1, <2>2, Induction
  <2> QED
    BY <1>1, <2>3
<1>4. ASSUME NEW i \in 0..(Len(a) - 1), i \in P PROVE i + 1 \in P
  <2> DEFINE Q == {j \in 0..Len(b) : Reached(t, a, b, i + 1, j)}
  <2>1. i \in 0..Len(a) /\ i + 1 \in 0..Len(a) /\ i + 1 \in 1..Len(a) /\ (i + 1) - 1 = i
    BY <1>1
  <2>2. \A j \in 0..Len(b) : Reached(t, a, b, i, j)
    BY <1>4
  <2>3. 0 \in Q
    <3>1. t[i + 1][0] = t[i][0] + 1 /\ 0 \in 0..Len(b)
      BY <1>1, <1>2, <2>1
    <3>2. Reached(t, a, b, i + 1, 0)
      BY <2>2, <3>1, ReachedNext
    <3> QED
      BY <3>1, <3>2
  <2>4. ASSUME NEW j \in 0..(Len(b) - 1), j \in Q PROVE j + 1 \in Q
    <3>1. j \in 0..Len(b) /\ j + 1 \in 0..Len(b) /\ j + 1 \in 1..Len(b) /\ (j + 1) - 1 = j
      BY <1>1
    <3>2. Least(t[i + 1][j + 1], t[i][j + 1], t[i + 1][j], t[i][j] + Cost(a[i + 1], b[j + 1]))
      <4>1. Least(t[i + 1][j + 1], t[(i + 1) - 1][j + 1], t[i + 1][(j + 1) - 1],
                  t[(i + 1) - 1][(j + 1) - 1] + Cost(a[i + 1], b[j + 1]))
        BY <1>2, <2>1, <3>1
      <4> QED
        BY <2>1, <3>1, <4>1
    <3>3. CASE t[i + 1][j + 1] = t[i][j + 1] + 1
      <4>1. Reached(t, a, b, i, j + 1)
        BY <2>2, <3>1
      <4> QED
        BY <3>1, <3>3, <4>1, ReachedNext
    <3>4. CASE t[i + 1][j + 1] = t[i + 1][j] + 1
      <4>1. Reached(t, a, b, i + 1, j)
        BY <2>4
      <4> QED
        BY <2>1, <3>1, <3>4, <4>1, ReachedNext
    <3>5. CASE t[i + 1][j + 1] = t[i][j] + Cost(a[i + 1], b[j + 1])
      <4>1. Reached(t, a, b, i, j)
        BY <2>2, <3>1
      <4> QED
        BY <3>1, <3>5, <4>1, ReachedNext
    <3> QED
      BY <3>2, <3>3, <3>4, <3>5 DEF Least
  <2>5. \A j \in 0..Len(b) : j \in Q
    <3> HIDE DEF Q
    <3> QED
      BY <1>1, <2>3, <2>4, Induction
  <2> QED
    BY <2>1, <2>5
<1>5. \A i \in 0..Len(a) : i \in P
  <2> HIDE DEF P
  <2> QED
    BY <1>1, <1>3, <1>4, Induction
<1> QED
  BY <1>5

\* The table of a word and itself.
LEMMA OwnTable ==
  ASSUME NEW b \in Spelled, NEW t, Table(t, b, b)
  PROVE  t[Len(b)][Len(b)] = 0
<1> DEFINE P == {i \in 0..Len(b) : t[i][i] = 0}
<1>1. Len(b) \in Nat
  BY DEF Spelled
<1>2. /\ \A i \in 0..Len(b), j \in 0..Len(b) : t[i][j] \in Nat
      /\ \A i \in 0..Len(b) : t[i][0] = i
      /\ \A i \in 1..Len(b), j \in 1..Len(b) :
            Least(t[i][j], t[i - 1][j], t[i][j - 1], t[i - 1][j - 1] + Cost(b[i], b[j]))
  BY <1>1, TableCell
<1>3. 0 \in P
  BY <1>1, <1>2
<1>4. ASSUME NEW i \in 0..(Len(b) - 1), i \in P PROVE i + 1 \in P
  <2>1. i + 1 \in 1..Len(b) /\ i + 1 \in 0..Len(b) /\ (i + 1) - 1 = i /\ t[i][i] = 0
    BY <1>1, <1>4
  <2>2. t[(i + 1) - 1][(i + 1) - 1] + Cost(b[i + 1], b[i + 1]) = 0
    BY <2>1 DEF Cost
  <2>3. t[i + 1][i + 1] \in Nat /\ t[i + 1][i + 1] <= 0
    BY <1>2, <2>1, <2>2 DEF Least
  <2>4. t[i + 1][i + 1] = 0
    BY <2>3
  <2> QED
    BY <2>1, <2>4
<1>5. \A i \in 0..Len(b) : i \in P
  <2> HIDE DEF P
  <2> QED
    BY <1>1, <1>3, <1>4, Induction
<1>6. Len(b) \in P
  <2> HIDE DEF P
  <2> QED
    BY <1>1, <1>5
<1> QED
  BY <1>6

\* Close words have lengths that differ by one at most.
LEMMA CloseLengths ==
  ASSUME NEW w \in Spelled, NEW c \in Spelled, Close(w, c)
  PROVE  Len(w) - Len(c) \in -1..1
<1>1. Len(w) \in Nat /\ Len(c) \in Nat
  BY DEF Spelled
<1> QED
  BY <1>1 DEF Close, Edited, Lacks

\* The distance is exact for all words: it is at most n, for n of two or less, just
\* where n edits make the one word of the other (levenshteinDistance's table of one
\* column, its early return for words of other lengths included).
THEOREM DistanceIsExact ==
  ASSUME NEW a \in Spelled, NEW b \in Spelled, NEW n \in 0..2
  PROVE  LevenshteinDistance(a, b) <= n <=> b \in Within(n, a)
<1>1. Len(a) \in Nat /\ Len(b) \in Nat
  BY DEF Spelled
<1>2. n = 0 \/ n = 1 \/ n = 2
  OBVIOUS
<1> DEFINE D(u) == Columns(u, b)[Len(u)][Len(b)]
<1>3. ASSUME NEW u \in Spelled PROVE Len(u) \in Nat /\ Table(Columns(u, b), u, b) /\ D(u) \in Nat
  <2>1. Len(u) \in Nat
    BY DEF Spelled
  <2>2. Table(Columns(u, b), u, b)
    BY <1>1, <2>1, ColumnsAreTable
  <2>3. D(u) \in Nat
    BY <1>1, <2>1, <2>2, TableCell
  <2> QED
    BY <2>1, <2>2, <2>3
<1>4. ASSUME NEW u \in Spelled, NEW v \in Spelled, Close(u, v) PROVE D(u) <= D(v) + 1
  <2>1. CASE u = v
    BY <1>3, <2>1
  <2>2. CASE Edited(u, v)
    BY <1>1, <1>3, <2>2, EditMovesByOne
  <2> QED
    BY <1>4, <2>1, <2>2 DEF Close
<1>5. D(b) = 0
  BY <1>3, OwnTable
<1>6. D(a) <= n => b \in Within(n, a)
  <2>1. Reached(Columns(a, b), a, b, Len(a), Len(b))
    BY <1>1, <1>3, AllReached
  <2> QED
    BY <2>1, Beginnings DEF Reached
<1> HIDE DEF D
<1>7. b \in Within(n, a) => D(a) <= n
  <2>1. ASSUME b \in Within(0, a) PROVE D(a) <= 0
    <3>1. b = a
      BY <2>1, WithinMeans
    <3> QED
      BY <1>5, <3>1
  <2>2. ASSUME b \in Within(1, a) PROVE D(a) <= 1
    <3>1. Close(a, b)
      BY <2>2, WithinMeans
    <3> QED
      BY <1>3, <1>4, <1>5, <3>1
  <2>3. ASSUME b \in Within(2, a) PROVE D(a) <= 2
    <3>1. PICK v \in Spelled : Close(a, v) /\ Close(v, b)
      BY <2>3, WithinMeans
    <3>2. D(a) <= D(v) + 1 /\ D(v) <= D(b) + 1 /\ D(a) \in Nat /\ D(v) \in Nat
      BY <1>3, <1>4, <3>1
    <3> QED
      BY <1>5, <3>2
  <2> QED
    BY <1>2, <2>1, <2>2, <2>3
<1>8. b \in Within(n, a) => Len(a) - Len(b) \in -2..2
  <2>1. ASSUME b \in Within(0, a) PROVE Len(a) - Len(b) \in -2..2
    <3>1. b = a
      BY <2>1, WithinMeans
    <3> QED
      BY <1>1, <3>1
  <2>2. ASSUME b \in Within(1, a) PROVE Len(a) - Len(b) \in -2..2
    <3>1. Close(a, b)
      BY <2>2, WithinMeans
    <3> QED
      BY <1>1, <3>1, CloseLengths
  <2>3. ASSUME b \in Within(2, a) PROVE Len(a) - Len(b) \in -2..2
    <3>1. PICK v \in Spelled : Close(a, v) /\ Close(v, b)
      BY <2>3, WithinMeans
    <3>2. Len(a) - Len(v) \in -1..1 /\ Len(v) - Len(b) \in -1..1 /\ Len(v) \in Nat
      BY <1>3, <3>1, CloseLengths
    <3> QED
      BY <1>1, <3>2
  <2> QED
    BY <1>2, <2>1, <2>2, <2>3
<1>9. CASE Len(a) - Len(b) \notin -2..2 /\ a # <<>> /\ b # <<>>
  <2>1. LevenshteinDistance(a, b) = 3
    BY <1>9 DEF LevenshteinDistance
  <2> QED
    BY <1>8, <1>9, <2>1
<1>10. CASE ~(Len(a) - Len(b) \notin -2..2 /\ a # <<>> /\ b # <<>>)
  <2>1. LevenshteinDistance(a, b) = D(a)
    BY <1>10, Zenon DEF LevenshteinDistance, D
  <2> QED
    BY <1>6, <1>7, <2>1
<1> QED
  BY <1>9, <1>10

\* Whatever two words are compared, the distance says which edits are between them.
THEOREM DistanceExactHolds == Spec => []DistanceExact
<1> DEFINE Compares == \E a, b \in Spelled :
              compared = [a |-> a, b |-> b, distance |-> LevenshteinDistance(a, b)]
<1>1. compared = NotCompared => Compares
  <2>1. <<>> \in Spelled
    BY DEF Spelled
  <2>2. <<>> \in Within(0, <<>>)
    BY <2>1, WithinMeans
  <2>3. LevenshteinDistance(<<>>, <<>>) = 0
    <3>1. Table(Columns(<<>>, <<>>), <<>>, <<>>) /\ Len(<<>>) = 0
      BY ColumnsAreTable
    <3>2. Columns(<<>>, <<>>)[Len(<<>>)][Len(<<>>)] = 0
      BY <2>1, <3>1, OwnTable
    <3> QED
      BY <3>2 DEF LevenshteinDistance
  <2> QED
    BY <2>1, <2>3 DEF NotCompared
<1>2. Init => Compares
  BY <1>1 DEF Init
<1>3. Compares /\ [Next]_vars => Compares'
  <2> SUFFICES ASSUME Compares, [Next]_vars PROVE Compares'
    OBVIOUS
  <2>1. CASE compared' = compared
    BY <2>1
  <2>2. ASSUME NEW a \in Spellings, NEW b \in Spellings, Compare(a, b) PROVE Compares'
    <3>1. \A n \in 0..4 : [1..n -> Alphabet] \subseteq Spelled
      BY DEF Spelled
    <3>2. a \in Spelled /\ b \in Spelled
      BY <3>1 DEF Spellings
    <3> QED
      BY <2>2, <3>2 DEF Compare
  <2> QED
    BY <2>1, <2>2 DEF Next, Say, Clean, DayPasses, vars
<1>4. Compares => DistanceExact
  <2> SUFFICES ASSUME Compares, NEW n \in 0..2
               PROVE  compared.distance <= n <=> compared.b \in Within(n, compared.a)
    BY DEF DistanceExact
  <2>1. PICK a \in Spelled, b \in Spelled : compared = [a |-> a, b |-> b, distance |-> LevenshteinDistance(a, b)]
    OBVIOUS
  <2>2. LevenshteinDistance(a, b) <= n <=> b \in Within(n, a)
    BY DistanceIsExact
  <2> QED
    BY <2>1, <2>2
<1> QED
  BY <1>2, <1>3, <1>4, PTL DEF Spec

-----------------------------------------------------------------------------
(* Folds and texts.                                                         *)

\* A set of numbers up to n has a greatest and a least one.
LEMMA GreatestOf ==
  ASSUME NEW n \in Nat, NEW s \in SUBSET (1..n), s # {}
  PROVE  Max(s) \in s /\ \A k \in s : k <= Max(s)
<1> DEFINE P == {k \in 0..n : \A t \in SUBSET (1..k) : t # {} => \E x \in t : \A y \in t : x >= y}
<1>1. 0 \in P
  <2>1. 0 \in 0..n
    OBVIOUS
  <2>2. \A t \in SUBSET (1..0) : t = {}
    OBVIOUS
  <2> QED
    BY <2>1, <2>2
<1>2. ASSUME NEW k \in 0..(n - 1), k \in P PROVE k + 1 \in P
  <2> SUFFICES ASSUME NEW t \in SUBSET (1..(k + 1)), t # {} PROVE \E x \in t : \A y \in t : x >= y
    OBVIOUS
  <2>1. CASE k + 1 \in t
    BY <2>1
  <2>2. CASE k + 1 \notin t
    <3>1. t \in SUBSET (1..k)
      BY <2>2
    <3> QED
      BY <1>2, <3>1
  <2> QED
    BY <2>1, <2>2
<1>3. n \in P
  <2>1. \A k \in 0..n : k \in P
    <3> HIDE DEF P
    <3> QED
      BY <1>1, <1>2, Induction
  <2>2. n \in 0..n
    OBVIOUS
  <2> QED
    BY <2>1, <2>2, Zenon
<1>4. \E x \in s : \A y \in s : x >= y
  BY <1>3
<1>5. Max(s) \in s /\ \A y \in s : Max(s) >= y
  BY <1>4 DEF Max
<1> QED
  BY <1>5

\* Min and First return the least of some numbers.
LEMMA LeastIn ==
  ASSUME NEW s \in SUBSET Nat, s # {}
  PROVE  Min(s) \in s /\ First(s) \in s /\ \A k \in s : Min(s) <= k
<1> DEFINE R == OpToRel(<, Nat)
<1>1. IsWellFoundedOn(R, Nat)
  BY NatLessThanWellFounded
<1>2. \A i, k \in Nat : i < k => <<i, k>> \in R
  BY Zenon DEF OpToRel
<1> HIDE DEF R
<1>3. PICK i \in s : \A k \in s : ~(<<k, i>> \in R)
  BY <1>1, WFMin
<1>4. ASSUME NEW k \in s PROVE i <= k
  <2>1. i \in Nat /\ k \in Nat
    OBVIOUS
  <2>2. ~(k < i)
    BY <1>2, <1>3, <2>1
  <2> QED
    BY <2>1, <2>2
<1>5. \E x \in s : \A y \in s : x <= y
  BY <1>3, <1>4
<1> QED
  BY <1>5 DEF Min, First

\* A function that folds a sequence's first fields, for all sets of them, exists.
Folded(f, n, base, step) ==
    \A s \in SUBSET (1..n) : f[s] = IF s = {} THEN base ELSE step[<<Max(s), f[s \ {Max(s)}]>>]

\* There is a function that folds the fields by step, the greatest place last.
LEMMA Folding ==
  ASSUME NEW n \in Nat, NEW T, NEW base \in T, NEW step \in [(1..n) \X T -> T]
  PROVE  \E f \in [SUBSET (1..n) -> T] : Folded(f, n, base, step)
<1> USE DEF Folded
<1> DEFINE Is(f, k) == \A s \in SUBSET (1..k) :
                          f[s] = IF s = {} THEN base ELSE step[<<Max(s), f[s \ {Max(s)}]>>]
           P == {k \in 0..n : \E f \in [SUBSET (1..k) -> T] : Is(f, k)}
<1>1. 0 \in P
  <2> DEFINE f == [s \in SUBSET (1..0) |-> base]
  <2>1. f \in [SUBSET (1..0) -> T] /\ \A s \in SUBSET (1..0) : s = {} /\ f[s] = base
    OBVIOUS
  <2> HIDE DEF f
  <2>2. Is(f, 0) /\ 0 \in 0..n
    BY <2>1
  <2> HIDE DEF Is
  <2> QED
    BY <2>1, <2>2
<1>2. ASSUME NEW k \in 0..(n - 1), k \in P PROVE k + 1 \in P
  <2>1. PICK f \in [SUBSET (1..k) -> T] : Is(f, k)
    BY <1>2
  <2> DEFINE g == [s \in SUBSET (1..(k + 1)) |->
                      IF k + 1 \in s THEN step[<<k + 1, f[s \ {k + 1}]>>] ELSE f[s]]
  <2>2. k + 1 \in 1..n /\ k \in Nat
    OBVIOUS
  <2>3. ASSUME NEW s \in SUBSET (1..(k + 1))
        PROVE  /\ k + 1 \in s => s \ {k + 1} \in SUBSET (1..k)
               /\ k + 1 \notin s => s \in SUBSET (1..k)
    OBVIOUS
  <2>4. g \in [SUBSET (1..(k + 1)) -> T]
    <3>1. ASSUME NEW s \in SUBSET (1..(k + 1))
          PROVE  (IF k + 1 \in s THEN step[<<k + 1, f[s \ {k + 1}]>>] ELSE f[s]) \in T
      BY <2>2, <2>3
    <3> QED
      BY <3>1
  <2>5. ASSUME NEW s \in SUBSET (1..k) PROVE s \in SUBSET (1..(k + 1)) /\ g[s] = f[s]
    OBVIOUS
  <2>6. ASSUME NEW s \in SUBSET (1..(k + 1)), k + 1 \in s
        PROVE  g[s] = step[<<k + 1, f[s \ {k + 1}]>>]
    BY <2>6
  <2> HIDE DEF g
  <2>7. ASSUME NEW s \in SUBSET (1..(k + 1))
        PROVE  g[s] = IF s = {} THEN base ELSE step[<<Max(s), g[s \ {Max(s)}]>>]
    <3>1. CASE k + 1 \in s
      <4>1. k + 1 \in Nat /\ s # {}
        BY <3>1
      <4>2. Max(s) \in s /\ \A i \in s : i <= Max(s)
        BY <4>1, GreatestOf
      <4>3. Max(s) = k + 1
        <5>1. Max(s) \in 1..(k + 1) /\ k + 1 <= Max(s)
          BY <3>1, <4>2
        <5> QED
          BY <5>1
      <4>4. g[s \ {k + 1}] = f[s \ {k + 1}]
        BY <2>3, <2>5, <3>1
      <4> QED
        BY <2>6, <3>1, <4>1, <4>3, <4>4
    <3>2. CASE k + 1 \notin s
      <4>1. s \in SUBSET (1..k) /\ \A x : s \ {x} \in SUBSET (1..k)
        BY <2>3, <3>2
      <4>2. f[s] = IF s = {} THEN base ELSE step[<<Max(s), f[s \ {Max(s)}]>>]
        BY <2>1, <4>1
      <4>3. g[s] = f[s] /\ g[s \ {Max(s)}] = f[s \ {Max(s)}]
        BY <2>5, <4>1
      <4> QED
        BY <4>2, <4>3
    <3> QED
      BY <3>1, <3>2
  <2>8. Is(g, k + 1) /\ k + 1 \in 0..n
    BY <2>2, <2>7
  <2> HIDE DEF Is
  <2> QED
    BY <2>4, <2>8
<1>3. n \in P
  <2>1. \A k \in 0..n : k \in P
    <3> HIDE DEF P
    <3> QED
      BY <1>1, <1>2, Induction
  <2>2. n \in 0..n
    OBVIOUS
  <2> QED
    BY <2>1, <2>2, Zenon
<1> QED
  BY <1>3

\* A fold that starts in a set and whose steps stay there ends there.
LEMMA FoldStays ==
  ASSUME NEW n \in Nat, NEW T, NEW f, f[{}] \in T,
         \A s \in SUBSET (1..n) : s # {} /\ f[s \ {Max(s)}] \in T => f[s] \in T
  PROVE  f[1..n] \in T
<1> DEFINE P == {k \in 0..n : f[1..k] \in T}
<1>1. 0 \in P
  <2>1. 1..0 = {}
    OBVIOUS
  <2> QED
    BY <2>1
<1>2. ASSUME NEW k \in 0..(n - 1), k \in P PROVE k + 1 \in P
  <2>1. 1..(k + 1) \in SUBSET (1..n) /\ k + 1 \in Nat /\ 1..(k + 1) # {} /\ k + 1 \in 1..(k + 1)
    OBVIOUS
  <2>2. Max(1..(k + 1)) \in 1..(k + 1) /\ \A i \in 1..(k + 1) : i <= Max(1..(k + 1))
    BY <2>1, GreatestOf
  <2>3. Max(1..(k + 1)) = k + 1
    BY <2>1, <2>2
  <2>4. (1..(k + 1)) \ {k + 1} = 1..k
    OBVIOUS
  <2>5. f[(1..(k + 1)) \ {Max(1..(k + 1))}] \in T
    BY <1>2, <2>3, <2>4
  <2>6. f[1..(k + 1)] \in T
    BY <2>1, <2>5
  <2> QED
    BY <2>6
<1>3. n \in P
  <2>1. \A k \in 0..n : k \in P
    <3> HIDE DEF P
    <3> QED
      BY <1>1, <1>2, Induction
  <2>2. n \in 0..n
    OBVIOUS
  <2> QED
    BY <2>1, <2>2, Zenon
<1> QED
  BY <1>3

Jumped(f, n, ends, base, next, step) ==
    \A i \in 1..n : f[i] = IF i \in ends THEN base[i] ELSE step[<<i, f[next[i]]>>]

\* The same for a function whose values come from values further on: at some numbers
\* from none, elsewhere from one.
LEMMA Jumping ==
  ASSUME NEW n \in Nat, NEW T, NEW base \in [1..n -> T], NEW step \in [(1..n) \X T -> T],
         NEW ends \in SUBSET (1..n), NEW next, \A i \in (1..n) \ ends : next[i] \in (i + 1)..n
  PROVE  \E f \in [1..n -> T] : Jumped(f, n, ends, base, next, step)
<1> DEFINE Is(f, i) == f[i] = IF i \in ends THEN base[i] ELSE step[<<i, f[next[i]]>>]
           From(f, m) == f \in [m..n -> T] /\ \A i \in m..n : Is(f, i)
           P == {k \in 0..n : \E f : From(f, (n + 1) - k)}
<1>1. 0 \in P
  <2> DEFINE f == [i \in (n + 1)..n |-> base[i]]
  <2>1. (n + 1)..n = {} /\ (n + 1) - 0 = n + 1 /\ 0 \in 0..n
    OBVIOUS
  <2>2. From(f, n + 1)
    BY <2>1
  <2> HIDE DEF From
  <2> QED
    BY <2>1, <2>2
<1>2. ASSUME NEW k \in 0..(n - 1), k \in P PROVE k + 1 \in P
  <2> DEFINE m == n - k
  <2>1. m \in 1..n /\ (n + 1) - k = m + 1 /\ (n + 1) - (k + 1) = m /\ k + 1 \in 0..n
    OBVIOUS
  <2> HIDE DEF m
  <2>2. PICK f : From(f, m + 1)
    BY <1>2, <2>1
  <2> DEFINE v == IF m \in ends THEN base[m] ELSE step[<<m, f[next[m]]>>]
             g == [i \in m..n |-> IF i = m THEN v ELSE f[i]]
  <2>3. v \in T
    <3>1. CASE m \in ends
      BY <2>1, <3>1
    <3>2. CASE m \notin ends
      <4>1. next[m] \in (m + 1)..n
        BY <2>1, <3>2
      <4>2. f[next[m]] \in T
        BY <2>2, <4>1
      <4> QED
        BY <2>1, <3>2, <4>2
    <3> QED
      BY <3>1, <3>2
  <2> HIDE DEF v
  <2>4. ASSUME NEW i \in m..n, i # m PROVE i \in (m + 1)..n
    BY <2>1, <2>4
  <2>5. g \in [m..n -> T] /\ g[m] = v /\ \A i \in (m + 1)..n : g[i] = f[i]
    <3>1. \A i \in m..n : (IF i = m THEN v ELSE f[i]) \in T
      BY <2>2, <2>3, <2>4
    <3>2. m \in m..n /\ \A i \in (m + 1)..n : i \in m..n /\ i # m
      BY <2>1
    <3> QED
      BY <3>1, <3>2
  <2> HIDE DEF g
  <2>6. \A i \in (1..n) \ ends : next[i] \in (i + 1)..n
    OBVIOUS
  <2>7. ASSUME NEW i \in m..n PROVE Is(g, i)
    <3>1. CASE i = m
      <4>1. CASE m \in ends
        BY <2>5, <3>1, <4>1 DEF v
      <4>2. CASE m \notin ends
        <5>1. next[m] \in (m + 1)..n
          BY <2>1, <2>6, <4>2
        <5>2. g[next[m]] = f[next[m]]
          BY <2>5, <5>1
        <5> QED
          BY <2>5, <3>1, <4>2, <5>2 DEF v
      <4> QED
        BY <4>1, <4>2
    <3>2. CASE i # m
      <4>1. i \in (m + 1)..n /\ i \in 1..n
        BY <2>1, <2>4, <3>2
      <4>2. Is(f, i) /\ g[i] = f[i]
        BY <2>2, <2>5, <4>1
      <4>3. CASE i \in ends
        BY <4>2, <4>3
      <4>4. CASE i \notin ends
        <5>1. next[i] \in (i + 1)..n
          BY <2>6, <4>1, <4>4
        <5>2. next[i] \in (m + 1)..n
          BY <2>1, <4>1, <5>1
        <5>3. g[next[i]] = f[next[i]]
          BY <2>5, <5>2
        <5> QED
          BY <4>2, <4>4, <5>3
      <4> QED
        BY <4>3, <4>4
    <3> QED
      BY <3>1, <3>2
  <2>8. From(g, m)
    BY <2>5, <2>7
  <2> HIDE DEF From
  <2> QED
    BY <2>1, <2>8
<1>3. n \in P
  <2>1. \A k \in 0..n : k \in P
    <3> HIDE DEF P
    <3> QED
      BY <1>1, <1>2, Induction
  <2>2. n \in 0..n
    OBVIOUS
  <2> QED
    BY <2>1, <2>2, Zenon
<1>4. PICK f : From(f, (n + 1) - n)
  BY <1>3
<1>5. (n + 1) - n = 1
  OBVIOUS
<1> QED
  BY <1>4, <1>5 DEF Jumped

\* What each place has if all later places have it, all places have.
LEMMA JumpsStay ==
  ASSUME NEW n \in Nat, NEW T, NEW f,
         \A i \in 1..n : (\A k \in (i + 1)..n : f[k] \in T) => f[i] \in T
  PROVE  \A i \in 1..n : f[i] \in T
<1> DEFINE P == {k \in 0..n : \A i \in ((n + 1) - k)..n : f[i] \in T}
<1>1. 0 \in P
  <2>1. (n + 1) - 0 = n + 1 /\ (n + 1)..n = {} /\ 0 \in 0..n
    OBVIOUS
  <2> QED
    BY <2>1
<1>2. ASSUME NEW k \in 0..(n - 1), k \in P PROVE k + 1 \in P
  <2>1. n - k \in 1..n /\ (n + 1) - k = (n - k) + 1 /\ (n + 1) - (k + 1) = n - k /\ k + 1 \in 0..n
    OBVIOUS
  <2>2. f[n - k] \in T
    BY <1>2, <2>1
  <2>3. \A i \in (n - k)..n : i = n - k \/ i \in ((n - k) + 1)..n
    OBVIOUS
  <2> QED
    BY <1>2, <2>1, <2>2, <2>3
<1>3. n \in P
  <2>1. \A k \in 0..n : k \in P
    <3> HIDE DEF P
    <3> QED
      BY <1>1, <1>2, Induction
  <2>2. n \in 0..n
    OBVIOUS
  <2> QED
    BY <2>1, <2>2, Zenon
<1>4. (n + 1) - n = 1
  OBVIOUS
<1> QED
  BY <1>3, <1>4

\* A field has a sequence of numbers; a text is a sequence of fields.
IsField(f) == f = [w |-> f.w, ns |-> f.ns, sep |-> f.sep] /\ \E N : f.ns \in Seq(N)
IsText(s) == \E S : s \in Seq(S) /\ \A f \in S : IsField(f)

\* What a text has: a length, and fields up to it.
LEMMA TextLength ==
  ASSUME NEW s, IsText(s)
  PROVE  /\ Len(s) \in Nat /\ DOMAIN s = 1..Len(s) /\ s \in Seq({s[i] : i \in DOMAIN s})
         /\ \A i \in 1..Len(s) : IsField(s[i])
<1>1. PICK S : s \in Seq(S) /\ \A f \in S : IsField(f)
  BY DEF IsText
<1>2. Len(s) \in Nat /\ DOMAIN s = 1..Len(s)
  BY <1>1
<1>3. s \in [1..Len(s) -> {s[i] : i \in DOMAIN s}]
  BY <1>1
<1>4. \A i \in 1..Len(s) : s[i] \in S
  BY <1>1
<1> QED
  BY <1>1, <1>2, <1>3, <1>4

\* What makes a text: fields for the numbers up to one, two texts, a part of a text,
\* a field, words.
LEMMA FunctionText ==
  ASSUME NEW n \in Nat, NEW f, f = [i \in 1..n |-> f[i]], \A i \in 1..n : IsField(f[i])
  PROVE  IsText(f) /\ Len(f) = n
<1>1. f \in [1..n -> {f[i] : i \in 1..n}]
  OBVIOUS
<1>2. f \in Seq({f[i] : i \in 1..n}) /\ Len(f) = n
  <2> DEFINE S == {f[i] : i \in 1..n}
  <2>1. f \in [1..n -> S]
    BY <1>1
  <2> HIDE DEF S
  <2>2. f \in Seq(S) /\ Len(f) = n
    BY <2>1
  <2> QED
    BY <2>2 DEF S
<1>3. \A x \in {f[i] : i \in 1..n} : IsField(x)
  OBVIOUS
<1> QED
  BY <1>2, <1>3 DEF IsText

\* Two texts, one after the other, are a text.
LEMMA JoinedText ==
  ASSUME NEW s, NEW t, IsText(s), IsText(t)
  PROVE  IsText(s \o t)
<1>1. PICK S : s \in Seq(S) /\ \A f \in S : IsField(f)
  BY DEF IsText
<1>2. PICK T : t \in Seq(T) /\ \A f \in T : IsField(f)
  BY DEF IsText
<1>3. s \in Seq(S \cup T) /\ t \in Seq(S \cup T)
  BY <1>1, <1>2, SeqMonotonic
<1>4. s \o t \in Seq(S \cup T)
  BY <1>3
<1>5. \A f \in S \cup T : IsField(f)
  BY <1>1, <1>2
<1> QED
  BY <1>4, <1>5 DEF IsText

\* A part of a text is a text.
LEMMA PartOfText ==
  ASSUME NEW s, IsText(s), NEW m \in Nat, m > 0, NEW n \in Int, n <= Len(s)
  PROVE  IsText(SubSeq(s, m, n))
<1>1. PICK S : s \in Seq(S) /\ \A f \in S : IsField(f)
  BY DEF IsText
<1>2. \A i \in m..n : s[i] \in S
  BY <1>1
<1>3. SubSeq(s, m, n) \in Seq(S)
  BY <1>2, SubSeqProperties
<1> QED
  BY <1>1, <1>3 DEF IsText

\* No fields are a text, and so is one.
LEMMA ShortTexts ==
  /\ IsText(<<>>)
  /\ \A x : IsField(x) => IsText(<<x>>)
<1>1. <<>> \in Seq({})
  OBVIOUS
<1>2. ASSUME NEW x, IsField(x) PROVE IsText(<<x>>)
  <2>1. PICK S : S = {x}
    OBVIOUS
  <2>2. <<x>> \in Seq(S) /\ \A f \in S : IsField(f)
    BY <1>2, <2>1
  <2> QED
    BY <2>2 DEF IsText
<1>3. IsText(<<>>)
  <2>1. PICK S : S = {}
    OBVIOUS
  <2>2. <<>> \in Seq(S) /\ \A f \in S : IsField(f)
    BY <2>1
  <2> QED
    BY <2>2 DEF IsText
<1> QED
  BY <1>2, <1>3

\* A word is a field.
LEMMA WordIsField ==
  ASSUME NEW w
  PROVE  IsField(Word(w))
<1>1. Word(w).w = w /\ Word(w).ns = <<>> /\ Word(w).sep = ""
  BY DEF Word
<1>2. <<>> \in Seq({})
  OBVIOUS
<1>3. Word(w) = [w |-> Word(w).w, ns |-> Word(w).ns, sep |-> Word(w).sep]
  BY <1>1 DEF Word
<1> QED
  BY <1>1, <1>2, <1>3 DEF IsField

\* Words are a text.
LEMMA SpelledText ==
  ASSUME NEW words, NEW n \in Nat, DOMAIN words = 1..n
  PROVE  IsText(Spell(words))
<1>1. Spell(words) = [i \in 1..n |-> Spell(words)[i]]
  BY DEF Spell
<1>2. \A i \in 1..n : IsField(Spell(words)[i])
  BY WordIsField DEF Spell
<1> QED
  BY <1>1, <1>2, FunctionText

\* Whatever the text, its product phrase is a text.
LEMMA CanonicalText ==
  ASSUME NEW text
  PROVE  IsText(Canonical(text))
<1>0. PICK n \in Nat : n = 4
  OBVIOUS
<1> DEFINE start == [canonical |-> <<>>, size |-> 0]
           T == {start} \cup {ProductRules[i] : i \in 1..n}
           next(best, rule) == IF Places(rule.match, Plain(text)) # {} /\ rule.length > best.size THEN rule ELSE best
           step == [p \in (1..n) \X T |-> next(p[2], ProductRules[p[1]])]
           Is(f) == f = [s \in SUBSET (1..n) |->
                            IF s = {} THEN start ELSE next(f[s \ {Max(s)}], ProductRules[Max(s)])]
           iter == CHOOSE f : Is(f)
<1>1. DOMAIN ProductRules = 1..n
  BY <1>0 DEF ProductRules
<1>2. \A r \in T : IsText(Spell(r.canonical))
  <2>1. /\ DOMAIN start.canonical = 1..0
        /\ DOMAIN ProductRules[1].canonical = 1..4 /\ DOMAIN ProductRules[2].canonical = 1..4
        /\ DOMAIN ProductRules[3].canonical = 1..2 /\ DOMAIN ProductRules[4].canonical = 1..1
    BY DEF ProductRules
  <2>2. IsText(Spell(start.canonical))
    BY <2>1, SpelledText
  <2>3. ASSUME NEW i \in 1..n PROVE IsText(Spell(ProductRules[i].canonical))
    <3>1. i = 1 \/ i = 2 \/ i = 3 \/ i = 4
      BY <1>0
    <3>2. \E k \in Nat : DOMAIN ProductRules[i].canonical = 1..k
      BY <2>1, <3>1
    <3> QED
      BY <3>2, SpelledText
  <2> QED
    BY <2>2, <2>3
<1>3. \A i \in 1..n, v \in T : next(v, ProductRules[i]) \in T
  OBVIOUS
<1>4. step \in [(1..n) \X T -> T] /\ \A i \in 1..n, v \in T : step[<<i, v>>] = next(v, ProductRules[i])
  <2> HIDE DEF T, next
  <2> QED
    BY <1>3
<1>5. start \in T
  OBVIOUS
<1> HIDE DEF T, next, step, start
<1>6. PICK f \in [SUBSET (1..n) -> T] : Folded(f, n, start, step)
  BY <1>4, <1>5, Folding
<1>7. \A s \in SUBSET (1..n) : s # {} => Max(s) \in 1..n /\ s \ {Max(s)} \in SUBSET (1..n)
  BY GreatestOf
<1>8. Is(f)
  <2>1. ASSUME NEW s \in SUBSET (1..n)
        PROVE  f[s] = IF s = {} THEN start ELSE next(f[s \ {Max(s)}], ProductRules[Max(s)])
    <3>1. CASE s = {}
      BY <1>6, <3>1 DEF Folded
    <3>2. CASE s # {}
      <4>1. Max(s) \in 1..n /\ f[s \ {Max(s)}] \in T
        BY <1>6, <1>7, <3>2
      <4> QED
        BY <1>4, <1>6, <3>2, <4>1 DEF Folded
    <3> QED
      BY <3>1, <3>2
  <2> QED
    BY <1>6, <2>1
<1>9. Is(iter)
  BY <1>8
<1> HIDE DEF iter
<1>10. iter[1..n] \in T
  <2>1. iter[{}] \in T
    BY <1>5, <1>9
  <2>2. ASSUME NEW s \in SUBSET (1..n), s # {}, iter[s \ {Max(s)}] \in T PROVE iter[s] \in T
    <3>1. iter[s] = next(iter[s \ {Max(s)}], ProductRules[Max(s)])
      BY <1>9, <2>2
    <3>2. Max(s) \in 1..n
      BY <1>7, <2>2
    <3> QED
      BY <1>3, <2>2, <3>1, <3>2
  <2> QED
    BY <2>1, <2>2, FoldStays
<1>11. Canonical(text) = Spell(iter[1..n].canonical)
  BY <1>1, Zenon DEF Canonical, FoldLeft, MapThenFoldSet, iter, next, start
<1> QED
  BY <1>2, <1>10, <1>11

\* No prefix is empty: a name gets shorter with each.
LEMMA PrefixLengths ==
  LET prefixes == FillerPrefixes \o ActionPrefixes
  IN  Len(prefixes) = 6 /\ \A k \in 1..6 : Len(prefixes[k]) \in Nat /\ Len(prefixes[k]) > 0
<1> DEFINE P == {<<"listen">>, <<"please">>, <<"okay">>, <<"need", "buy">>, <<"buy">>, <<"need">>}
<1>1. \A p \in P : Len(p) = 1 \/ Len(p) = 2
  OBVIOUS
<1>2. \A p \in P : Len(p) \in Nat /\ Len(p) > 0
  BY <1>1
<1>3. /\ <<"listen">> \in P /\ <<"please">> \in P /\ <<"okay">> \in P
      /\ <<"need", "buy">> \in P /\ <<"buy">> \in P /\ <<"need">> \in P
  OBVIOUS
<1> HIDE DEF P
<1>4. FillerPrefixes \in Seq(P) /\ Len(FillerPrefixes) = 3
  BY <1>3 DEF FillerPrefixes
<1>5. ActionPrefixes \in Seq(P) /\ Len(ActionPrefixes) = 3
  BY <1>3 DEF ActionPrefixes
<1>6. FillerPrefixes \o ActionPrefixes \in Seq(P) /\ Len(FillerPrefixes \o ActionPrefixes) = 6
  <2>1. Len(FillerPrefixes \o ActionPrefixes) = Len(FillerPrefixes) + Len(ActionPrefixes)
    BY <1>4, <1>5, ConcatProperties
  <2> QED
    BY <1>4, <1>5, <2>1, ConcatProperties
<1>7. \A k \in 1..6 : (FillerPrefixes \o ActionPrefixes)[k] \in P
  BY <1>6
<1> QED
  BY <1>2, <1>6, <1>7

\* What stays of a name without its prefixes is its end.
LEMMA StrippedText ==
  ASSUME NEW name, IsText(name)
  PROVE  IsText(StripPrefixes(name))
<1> DEFINE prefixes == FillerPrefixes \o ActionPrefixes
           n == Len(name) + 1
           I(i) == {k \in 1..Len(prefixes) : Len(prefixes[k]) < Len(name) - i + 1 /\ At(i, prefixes[k], name)}
           at(i) == IF I(i) # {} THEN Min(I(i)) ELSE 0
           Is(f) == f = [i \in 1..n |-> IF at(i) = 0 THEN i ELSE f[i + Len(prefixes[at(i)])]]
           bare == CHOOSE f : Is(f)
<1>1. Len(name) \in Nat /\ n \in Nat /\ 1 \in 1..n
  BY TextLength
<1>2. Len(prefixes) = 6 /\ \A k \in 1..6 : Len(prefixes[k]) \in Nat /\ Len(prefixes[k]) > 0
  BY PrefixLengths
<1> HIDE DEF prefixes
<1>3. ASSUME NEW i \in 1..n, at(i) # 0
      PROVE  i + Len(prefixes[at(i)]) \in (i + 1)..n
  <2>1. I(i) # {} /\ I(i) \in SUBSET Nat
    <3>1. I(i) # {}
      BY <1>3
    <3>2. I(i) \subseteq 1..6
      BY <1>2
    <3> HIDE DEF I
    <3> QED
      BY <3>1, <3>2
  <2>2. Min(I(i)) \in I(i)
    BY <2>1, LeastIn
  <2>3. at(i) \in I(i)
    BY <2>1, <2>2
  <2>4. PICK k \in 1..6 : k = at(i) /\ Len(prefixes[k]) < Len(name) - i + 1
    BY <1>2, <2>3
  <2>5. PICK l \in Nat : l = Len(prefixes[k]) /\ l > 0 /\ l < Len(name) - i + 1
    BY <1>2, <2>4
  <2> HIDE DEF at, n
  <2>6. i + l \in (i + 1)..n
    BY <1>1, <2>5 DEF n
  <2> QED
    BY <2>4, <2>5, <2>6
<1> HIDE DEF at, I
<1> DEFINE base == [i \in 1..n |-> i]
           step == [p \in (1..n) \X (1..n) |-> p[2]]
           ends == {i \in 1..n : at(i) = 0}
           next == [i \in 1..n |-> i + Len(prefixes[at(i)])]
<1>4. /\ base \in [1..n -> 1..n] /\ step \in [(1..n) \X (1..n) -> 1..n] /\ ends \in SUBSET (1..n)
      /\ \A i, k \in 1..n : step[<<i, k>>] = k
  OBVIOUS
<1>5. \A i \in (1..n) \ ends : next[i] \in (i + 1)..n
  BY <1>3
<1>6. /\ \A i \in 1..n : (i \in ends <=> at(i) = 0) /\ base[i] = i
      /\ \A i \in (1..n) \ ends : next[i] = i + Len(prefixes[at(i)]) /\ next[i] \in 1..n
  <2>1. \A i \in (1..n) \ ends : next[i] \in 1..n
    BY <1>1, <1>5
  <2> QED
    BY <2>1
<1> HIDE DEF base, step, ends, next
<1>7. PICK f \in [1..n -> 1..n] : Jumped(f, n, ends, base, next, step)
  <2> HIDE DEF n
  <2> QED
    BY <1>1, <1>4, <1>5, Jumping
<1>8. Is(f)
  <2>1. ASSUME NEW i \in 1..n
        PROVE  f[i] = IF at(i) = 0 THEN i ELSE f[i + Len(prefixes[at(i)])]
    <3>1. CASE at(i) = 0
      BY <1>6, <1>7, <3>1 DEF Jumped
    <3>2. CASE at(i) # 0
      <4>1. i \notin ends /\ f[next[i]] \in 1..n /\ next[i] = i + Len(prefixes[at(i)])
        BY <1>6, <1>7, <3>2
      <4> QED
        BY <1>4, <1>7, <3>2, <4>1 DEF Jumped
    <3> QED
      BY <3>1, <3>2
  <2> QED
    BY <1>7, <2>1
<1>9. Is(bare)
  BY <1>8
<1> HIDE DEF bare
<1>10. bare[1] \in 1..n
  <2>1. ASSUME NEW i \in 1..n, \A k \in (i + 1)..n : bare[k] \in 1..n
        PROVE  bare[i] \in 1..n
    <3>1. CASE at(i) = 0
      BY <1>9, <3>1
    <3>2. CASE at(i) # 0
      <4>1. bare[i] = bare[i + Len(prefixes[at(i)])]
        BY <1>9, <3>2
      <4> QED
        BY <1>3, <2>1, <3>2, <4>1
    <3> QED
      BY <3>1, <3>2
  <2> HIDE DEF n
  <2>2. \A i \in 1..n : bare[i] \in 1..n
    BY <1>1, <2>1, JumpsStay
  <2> QED
    BY <1>1, <2>2
<1>11. StripPrefixes(name) = DropFirst(bare[1] - 1, name)
  BY Zenon DEF StripPrefixes, SelectInSeq, bare, at, I, prefixes
<1>12. bare[1] \in Nat /\ bare[1] > 0 /\ (bare[1] - 1) + 1 = bare[1] /\ Len(name) \in Int
  BY <1>1, <1>10
<1>13. IsText(SubSeq(name, bare[1], Len(name)))
  BY <1>1, <1>12, PartOfText
<1> QED
  BY <1>11, <1>12, <1>13 DEF DropFirst

\* One of two texts is a text.
LEMMA OrElseText ==
  ASSUME NEW s, NEW t, IsText(s), IsText(t)
  PROVE  IsText(OrElse(s, t))
BY DEF OrElse

\* What is dropped before a name, and what is cut off after it.
LEMMA TrimmedLeading ==
  ASSUME NEW name, IsText(name)
  PROVE  IsText(TrimLeading(name))
<1>0. PICK n \in Nat : n = 2
  OBVIOUS
<1>f. PICK S : name \in Seq(S) /\ \A f \in S : IsField(f)
  BY DEF IsText
<1> DEFINE T == Seq(S)
           drop(v, p) == IF Starts(p, v) /\ Len(p) < Len(v) THEN DropFirst(Len(p), v) ELSE v
           step == [p \in (1..n) \X T |-> drop(p[2], LeadingNoise[p[1]])]
           Is(f) == f = [s \in SUBSET (1..n) |->
                            IF s = {} THEN name ELSE drop(f[s \ {Max(s)}], LeadingNoise[Max(s)])]
           iter == CHOOSE f : Is(f)
           body == iter[1..n]
           I == {i \in 1..Len(body) : body[i].w \notin {"fresh"} \cup GenericStores \cup CutTokens}
           first == IF I # {} THEN Min(I) ELSE 0
<1>1. DOMAIN LeadingNoise = 1..n /\ \A i \in 1..n : Len(LeadingNoise[i]) \in Nat
  BY <1>0 DEF LeadingNoise
<1>2. ASSUME NEW i \in 1..n, NEW v \in T PROVE drop(v, LeadingNoise[i]) \in T
  <2>1. PICK k \in Nat : k = Len(LeadingNoise[i])
    BY <1>1
  <2>2. Len(v) \in Nat /\ v \in Seq(S)
    OBVIOUS
  <2>3. SubSeq(v, k + 1, Len(v)) \in Seq(S)
    BY <2>2
  <2> QED
    BY <2>1, <2>2, <2>3 DEF DropFirst
<1>3. step \in [(1..n) \X T -> T] /\ \A i \in 1..n, v \in T : step[<<i, v>>] = drop(v, LeadingNoise[i])
  <2> HIDE DEF T, drop
  <2> QED
    BY <1>2
<1>4. name \in T
  BY <1>f
<1> HIDE DEF T, drop, step
<1>5. PICK f \in [SUBSET (1..n) -> T] : Folded(f, n, name, step)
  BY <1>3, <1>4, Folding
<1>6. \A s \in SUBSET (1..n) : s # {} => Max(s) \in 1..n /\ s \ {Max(s)} \in SUBSET (1..n)
  BY GreatestOf
<1>7. Is(f)
  <2>1. ASSUME NEW s \in SUBSET (1..n)
        PROVE  f[s] = IF s = {} THEN name ELSE drop(f[s \ {Max(s)}], LeadingNoise[Max(s)])
    <3>1. CASE s = {}
      BY <1>5, <3>1 DEF Folded
    <3>2. CASE s # {}
      <4>1. Max(s) \in 1..n /\ f[s \ {Max(s)}] \in T
        BY <1>5, <1>6, <3>2
      <4> QED
        BY <1>3, <1>5, <3>2, <4>1 DEF Folded
    <3> QED
      BY <3>1, <3>2
  <2> QED
    BY <1>5, <2>1
<1>8. Is(iter)
  BY <1>7
<1>9. FoldLeft(drop, name, LeadingNoise) = body
  BY <1>1, Zenon DEF FoldLeft, MapThenFoldSet
<1> HIDE DEF iter
<1>10. body \in T
  <2>1. iter[{}] \in T
    BY <1>4, <1>8
  <2>2. ASSUME NEW s \in SUBSET (1..n), s # {}, iter[s \ {Max(s)}] \in T PROVE iter[s] \in T
    <3>1. iter[s] = drop(iter[s \ {Max(s)}], LeadingNoise[Max(s)])
      BY <1>8, <2>2
    <3>2. Max(s) \in 1..n
      BY <1>6, <2>2
    <3> QED
      BY <1>2, <2>2, <3>1, <3>2
  <2> QED
    BY <2>1, <2>2, FoldStays
<1> HIDE DEF body
<1>11. IsText(body) /\ Len(body) \in Nat
  BY <1>f, <1>10 DEF T, IsText
<1>12. IsText(IF first = 0 THEN <<>> ELSE DropFirst(first - 1, body))
  <2>1. CASE first = 0
    BY <2>1, ShortTexts
  <2>2. CASE first # 0
    <3>1. I # {} /\ I \in SUBSET Nat
      BY <1>11, <2>2
    <3>2. first \in I
      BY <3>1, LeastIn
    <3>3. first \in Nat /\ first > 0 /\ (first - 1) + 1 = first
      BY <1>11, <3>2
    <3>4. IsText(SubSeq(body, first, Len(body)))
      BY <1>11, <3>3, PartOfText
    <3> QED
      BY <2>2, <3>3, <3>4 DEF DropFirst
  <2> QED
    BY <2>1, <2>2
<1>13. TrimLeading(name) = OrElse(Canonical(name), IF first = 0 THEN <<>> ELSE DropFirst(first - 1, body))
  BY <1>9, Zenon DEF TrimLeading, SelectInSeq, drop
<1> QED
  BY <1>12, <1>13, CanonicalText, OrElseText

\* A text without its last words of noise is a text (trimDraftTrailingNoise).
LEMMA TrimmedTrailing ==
  ASSUME NEW name, IsText(name)
  PROVE  IsText(TrimTrailing(name))
<1>0. PICK n \in Nat : n = 3
  OBVIOUS
<1>f. PICK S : name \in Seq(S) /\ \A f \in S : IsField(f)
  BY DEF IsText
<1> DEFINE T == Seq(S)
           cut(v, places) == IF places = {} THEN v ELSE SubSeq(v, 1, First(places) - 1)
           cutAt(v, p) == cut(v, Places(p, v))
           step == [p \in (1..n) \X T |-> cutAt(p[2], TrailingCuts[p[1]])]
           Is(f) == f = [s \in SUBSET (1..n) |->
                            IF s = {} THEN name ELSE cutAt(f[s \ {Max(s)}], TrailingCuts[Max(s)])]
           iter == CHOOSE f : Is(f)
           body == iter[1..n]
           stops(b) == {i \in DOMAIN b :
              \/ b[i].w \in CutTokens /\ i > 1
              \/ b[i].w \in {"from", "with"} /\ i < Len(b) /\ b[i + 1].w \in GenericStores}
           all(b) == [i \in DOMAIN b |-> Canonical(SubSeq(b, 1, i))]
           phrases(b) == [i \in {k \in DOMAIN all(b) : all(b)[k] # <<>>} |-> all(b)[i]]
           I(kept) == {i \in 1..Len(kept) : kept[i].w \notin {"with", "from"}}
           last(kept) == IF I(kept) # {} THEN Max(I(kept)) ELSE 0
           upTo(kept, m) == IF kept = <<>> THEN <<>> ELSE SubSeq(kept, 1, IF m = 0 THEN 1 ELSE m)
           without(kept) == upTo(kept, last(kept))
           split(b, places, texts) ==
               IF DOMAIN texts # {} /\ \A i \in places : First(DOMAIN texts) <= i
               THEN texts[First(DOMAIN texts)] ELSE without(cut(b, places))
           trimmed(b) == split(b, stops(b), phrases(b))
<1>1. DOMAIN TrailingCuts = 1..n /\ \A i \in 1..n : Len(TrailingCuts[i]) \in Nat
  BY <1>0 DEF TrailingCuts
<1>2. ASSUME NEW v \in T, NEW places \in SUBSET (1..(Len(v) + 1)) PROVE cut(v, places) \in T
  <2>1. CASE places = {}
    BY <2>1
  <2>2. CASE places # {}
    <3>1. Len(v) \in Nat /\ places \in SUBSET Nat
      BY DEF T
    <3>2. First(places) \in places
      BY <2>2, <3>1, LeastIn
    <3>3. PICK m \in 1..(Len(v) + 1) : m = First(places)
      BY <3>2
    <3>4. m - 1 \in Int /\ m - 1 <= Len(v)
      BY <3>1, <3>3
    <3>5. \A i \in 1..(m - 1) : v[i] \in S
      BY <3>1, <3>4 DEF T
    <3>6. SubSeq(v, 1, m - 1) \in Seq(S)
      BY <3>4, <3>5, SubSeqProperties
    <3> QED
      BY <2>2, <3>3, <3>6 DEF T
  <2> QED
    BY <2>1, <2>2
<1>3. ASSUME NEW i \in 1..n, NEW v \in T PROVE cutAt(v, TrailingCuts[i]) \in T
  <2>1. PICK k \in Nat, l \in Nat : k = Len(TrailingCuts[i]) /\ l = Len(v)
    BY <1>1 DEF T
  <2>2. 1..(l - k + 1) \subseteq 1..(l + 1)
    OBVIOUS
  <2>3. Places(TrailingCuts[i], v) \in SUBSET (1..(Len(v) + 1))
    BY <2>1, <2>2 DEF Places
  <2> HIDE DEF T, cut
  <2> QED
    BY <1>2, <2>3
<1>4. step \in [(1..n) \X T -> T] /\ \A i \in 1..n, v \in T : step[<<i, v>>] = cutAt(v, TrailingCuts[i])
  <2> HIDE DEF T, cutAt
  <2> QED
    BY <1>3
<1>5. name \in T
  BY <1>f
<1> HIDE DEF T, cut, cutAt, step
<1>6. PICK f \in [SUBSET (1..n) -> T] : Folded(f, n, name, step)
  BY <1>4, <1>5, Folding
<1>7. \A s \in SUBSET (1..n) : s # {} => Max(s) \in 1..n /\ s \ {Max(s)} \in SUBSET (1..n)
  BY GreatestOf
<1>8. Is(f)
  <2>1. ASSUME NEW s \in SUBSET (1..n)
        PROVE  f[s] = IF s = {} THEN name ELSE cutAt(f[s \ {Max(s)}], TrailingCuts[Max(s)])
    <3>1. CASE s = {}
      BY <1>6, <3>1 DEF Folded
    <3>2. CASE s # {}
      <4>1. Max(s) \in 1..n /\ f[s \ {Max(s)}] \in T
        BY <1>6, <1>7, <3>2
      <4> QED
        BY <1>4, <1>6, <3>2, <4>1 DEF Folded
    <3> QED
      BY <3>1, <3>2
  <2> QED
    BY <1>6, <2>1
<1>9. Is(iter)
  BY <1>8
<1>10. FoldLeft(cutAt, name, TrailingCuts) = body
  BY <1>1, Zenon DEF FoldLeft, MapThenFoldSet
<1> HIDE DEF iter
<1>11. body \in T
  <2>1. iter[{}] \in T
    BY <1>5, <1>9
  <2>2. ASSUME NEW s \in SUBSET (1..n), s # {}, iter[s \ {Max(s)}] \in T PROVE iter[s] \in T
    <3>1. iter[s] = cutAt(iter[s \ {Max(s)}], TrailingCuts[Max(s)])
      BY <1>9, <2>2
    <3>2. Max(s) \in 1..n
      BY <1>7, <2>2
    <3> QED
      BY <1>3, <2>2, <3>1, <3>2
  <2> QED
    BY <2>1, <2>2, FoldStays
<1>12. Len(body) \in Nat /\ DOMAIN body = 1..Len(body)
  BY <1>11 DEF T
<1> HIDE DEF body
<1>13. stops(body) \in SUBSET (1..(Len(body) + 1))
  BY <1>12
<1> DEFINE rest == cut(body, stops(body))
<1>14. rest \in T
  BY <1>2, <1>11, <1>13
<1> HIDE DEF rest, stops
<1>15. IsText(without(rest))
  <2>1. IsText(rest) /\ Len(rest) \in Nat
    BY <1>f, <1>14 DEF T, IsText
  <2>2. CASE rest = <<>>
    BY <2>2, ShortTexts
  <2>3. CASE rest # <<>>
    <3>1. Len(rest) >= 1
      BY <1>14, <2>3 DEF T
    <3>2. I(rest) # {} => Max(I(rest)) \in 1..Len(rest)
      BY <2>1, GreatestOf
    <3>3. last(rest) = 0 \/ last(rest) \in 1..Len(rest)
      BY <3>2
    <3> HIDE DEF last
    <3>4. PICK m \in 1..Len(rest) : m = IF last(rest) = 0 THEN 1 ELSE last(rest)
      BY <2>1, <3>1, <3>3
    <3>5. without(rest) = SubSeq(rest, 1, m)
      BY <2>3, <3>4
    <3> HIDE DEF without
    <3> QED
      BY <2>1, <3>5, PartOfText
  <2> QED
    BY <2>2, <2>3
<1> HIDE DEF without
<1>16. IsText(trimmed(body))
  <2>1. CASE DOMAIN phrases(body) # {}
    <3>1. DOMAIN phrases(body) \in SUBSET Nat
      BY <1>12
    <3>2. First(DOMAIN phrases(body)) \in DOMAIN phrases(body)
      BY <2>1, <3>1, LeastIn
    <3>3. \A i \in DOMAIN phrases(body) : phrases(body)[i] = Canonical(SubSeq(body, 1, i))
      OBVIOUS
    <3> HIDE DEF phrases
    <3>4. IsText(phrases(body)[First(DOMAIN phrases(body))])
      BY <3>2, <3>3, CanonicalText
    <3> QED
      BY <1>15, <3>4 DEF rest
  <2>2. CASE DOMAIN phrases(body) = {}
    <3> HIDE DEF phrases
    <3> QED
      BY <1>15, <2>2 DEF rest
  <2> QED
    BY <2>1, <2>2
<1>17. TrimTrailing(name) = OrElse(Canonical(name), trimmed(FoldLeft(cutAt, name, TrailingCuts)))
  BY Zenon DEF TrimTrailing, SelectLastInSeq, cut, cutAt, without, stops
<1> HIDE DEF trimmed
<1> QED
  BY <1>10, <1>16, <1>17, CanonicalText, OrElseText

\* The stages of a name: each makes a text of a text.
LEMMA LeadText ==
  ASSUME NEW name, IsText(name)
  PROVE  IsText(CanonicalLead(name))
<1>1. CASE name = <<>>
  BY <1>1 DEF CanonicalLead
<1>2. CASE name # <<>>
  <2>1. PICK n \in Int : n = Len(name)
    BY TextLength
  <2>2. IsText(Tail(name))
    <3>1. Tail(name) = SubSeq(name, 2, n)
      BY <1>2, <2>1, TextLength
    <3>2. 2 \in Nat /\ 2 > 0 /\ n <= Len(name)
      BY <2>1
    <3> QED
      BY <3>1, <3>2, PartOfText
  <2>3. IsText(<<Word(LeadTokens[name[1].w])>>)
    BY WordIsField, ShortTexts
  <2>4. IsText(<<Word(LeadTokens[name[1].w])>> \o Tail(name))
    BY <2>2, <2>3, JoinedText
  <2> QED
    BY <2>4 DEF CanonicalLead
<1> QED
  BY <1>1, <1>2

\* Texts one after another are a text.
LEMMA FlatText ==
  ASSUME NEW n \in Nat, NEW texts, texts = [i \in 1..n |-> texts[i]], \A i \in 1..n : IsText(texts[i])
  PROVE  IsText(FlattenSeq(texts))
<1>1. Len(texts) = n
  OBVIOUS
<1>2. CASE n = 0
  <2>1. \A i \in 1..n : IsField(texts[i])
    BY <1>2
  <2>2. IsText(texts)
    BY <2>1, FunctionText
  <2>3. FlattenSeq(texts) = texts
    BY <1>1, <1>2 DEF FlattenSeq
  <2> QED
    BY <2>2, <2>3
<1>3. CASE n # 0
  <2> DEFINE U == UNION {{texts[i][k] : k \in DOMAIN texts[i]} : i \in 1..n}
             T == Seq(U)
             join(i, v) == IF i = 1 THEN texts[i] ELSE v \o texts[i]
             step == [p \in (1..n) \X T |-> join(p[1], p[2])]
             Is(f) == f = [i \in 1..n |-> IF i = 1 THEN texts[i] ELSE f[i - 1] \o texts[i]]
             flatten == CHOOSE f : Is(f)
  <2>1. ASSUME NEW i \in 1..n PROVE texts[i] \in T
    <3> DEFINE V == {texts[i][k] : k \in DOMAIN texts[i]}
    <3>1. texts[i] \in Seq(V)
      BY TextLength
    <3>2. V \subseteq U
      OBVIOUS
    <3> HIDE DEF V, U
    <3> QED
      BY <3>1, <3>2, SeqMonotonic
  <2>2. \A f \in U : IsField(f)
    <3>1. ASSUME NEW i \in 1..n, NEW k \in DOMAIN texts[i] PROVE IsField(texts[i][k])
      BY TextLength
    <3> QED
      BY <3>1
  <2> HIDE DEF U
  <2>3. \A i \in 1..n, v \in T : join(i, v) \in T
    BY <2>1
  <2>4. step \in [(1..n) \X T -> T] /\ \A i \in 1..n, v \in T : step[<<i, v>>] = join(i, v)
    <3> HIDE DEF T, join
    <3> QED
      BY <2>3
  <2>5. <<>> \in T
    OBVIOUS
  <2> HIDE DEF T, step
  <2>6. PICK f \in [0..n -> T] : Chained(f, n, <<>>, step)
    BY <2>4, <2>5, Recursion
  <2> DEFINE g == [i \in 1..n |-> f[i]]
  <2>7. Is(g)
    <3>1. ASSUME NEW i \in 1..n
          PROVE  g[i] = IF i = 1 THEN texts[i] ELSE g[i - 1] \o texts[i]
      <4>1. f[i] = join(i, f[i - 1])
        <5>1. f[i - 1] \in T
          BY <2>6
        <5> HIDE DEF join
        <5> QED
          BY <2>4, <2>6, <5>1 DEF Chained
      <4>2. CASE i = 1
        BY <4>1, <4>2
      <4>3. CASE i # 1
        <5>1. i - 1 \in 1..n
          BY <4>3
        <5> QED
          BY <4>1, <4>3, <5>1
      <4> QED
        BY <4>2, <4>3
    <3> QED
      BY <3>1
  <2> HIDE DEF g
  <2>8. Is(flatten)
    BY <2>7
  <2>9. FlattenSeq(texts) = flatten[n]
    BY <1>1, <1>3, Zenon DEF FlattenSeq
  <2> HIDE DEF flatten
  <2> DEFINE P == {k \in 0..n : k # 0 => flatten[k] \in T}
  <2>10. 0 \in P
    OBVIOUS
  <2>11. ASSUME NEW k \in 0..(n - 1), k \in P PROVE k + 1 \in P
    <3>1. k + 1 \in 1..n /\ (k + 1) - 1 = k /\ k + 1 \in 0..n
      OBVIOUS
    <3>2. flatten[k + 1] = IF k + 1 = 1 THEN texts[k + 1] ELSE flatten[k] \o texts[k + 1]
      BY <2>8, <3>1
    <3>3. flatten[k + 1] \in T
      <4>1. CASE k = 0
        BY <2>1, <3>1, <3>2, <4>1
      <4>2. CASE k # 0
        <5>1. k + 1 # 1 /\ flatten[k] \in T /\ texts[k + 1] \in T
          BY <2>1, <2>11, <3>1, <4>2
        <5>2. flatten[k + 1] = flatten[k] \o texts[k + 1]
          BY <3>2, <5>1
        <5> QED
          BY <5>1, <5>2 DEF T
      <4> QED
        BY <4>1, <4>2
    <3> QED
      BY <3>1, <3>3
  <2>12. n \in P
    <3> HIDE DEF P
    <3>1. \A k \in 0..n : k \in P
      BY <2>10, <2>11, Induction
    <3> QED
      BY <3>1
  <2>13. flatten[n] \in T
    BY <1>3, <2>12
  <2> QED
    BY <2>2, <2>9, <2>13 DEF T, IsText
<1> QED
  BY <1>2, <1>3

\* The punctuation of a text becomes blanks between its fields.
LEMMA PlainText ==
  ASSUME NEW text, IsText(text)
  PROVE  IsText(Plain(text))
<1> DEFINE part(i) == IF Len(text[i].ns) < 2 THEN <<text[i]>>
                      ELSE [k \in DOMAIN text[i].ns |-> [text[i] EXCEPT !.ns = <<@[k]>>, !.sep = ""]]
           parts == [i \in DOMAIN text |-> part(i)]
<1>1. PICK n \in Nat : n = Len(text) /\ DOMAIN text = 1..n /\ \A i \in 1..n : IsField(text[i])
  BY TextLength
<1>2. ASSUME NEW i \in 1..n PROVE IsText(part(i))
  <2>1. IsField(text[i])
    BY <1>1
  <2>2. PICK N : text[i].ns \in Seq(N)
    BY <2>1 DEF IsField
  <2>3. PICK m \in Nat : m = Len(text[i].ns) /\ DOMAIN text[i].ns = 1..m
    BY <2>2
  <2>4. CASE m < 2
    BY <2>1, <2>3, <2>4, ShortTexts
  <2>5. CASE ~(m < 2)
    <3> DEFINE one(k) == [text[i] EXCEPT !.ns = <<@[k]>>, !.sep = ""]
               ones == [k \in 1..m |-> one(k)]
    <3>1. ASSUME NEW k \in 1..m PROVE IsField(one(k))
      <4>1. PICK w, ns, sep : text[i] = [w |-> w, ns |-> ns, sep |-> sep]
        BY <2>1 DEF IsField
      <4>2. PICK x : x = <<text[i].ns[k]>>
        OBVIOUS
      <4>3. PICK r : r = [text[i] EXCEPT !.ns = x]
        OBVIOUS
      <4>4. r = [w |-> w, ns |-> x, sep |-> sep]
        BY <4>1, <4>3
      <4>5. one(k) = [r EXCEPT !.sep = ""]
        BY <4>2, <4>3
      <4>6. PICK q : q = [w |-> w, ns |-> x, sep |-> ""]
        OBVIOUS
      <4> HIDE DEF one
      <4>7. one(k) = q
        BY <4>4, <4>5, <4>6
      <4>8. x \in Seq({text[i].ns[k]})
        BY <4>2
      <4>9. q.w = w /\ q.ns = x /\ q.sep = ""
        BY <4>6
      <4>10. IsField(q)
        BY <4>6, <4>8, <4>9 DEF IsField
      <4> QED
        BY <4>7, <4>10
    <3> HIDE DEF one
    <3>2. ones = [k \in 1..m |-> ones[k]] /\ \A k \in 1..m : ones[k] = one(k)
      OBVIOUS
    <3> HIDE DEF ones
    <3>3. IsText(ones)
      BY <3>1, <3>2, FunctionText
    <3>4. part(i) = ones
      BY <2>3, <2>5 DEF ones, one
    <3> QED
      BY <3>3, <3>4
  <2> QED
    BY <2>4, <2>5
<1> HIDE DEF part
<1>3. parts = [i \in 1..n |-> parts[i]] /\ \A i \in 1..n : parts[i] = part(i)
  BY <1>1
<1>4. IsText(FlattenSeq(parts))
  <2> HIDE DEF parts
  <2> QED
    BY <1>2, <1>3, FlatText
<1> QED
  BY <1>4, Zenon DEF Plain, part

\* A rule that replaces a phrase by another has two phrases.
IsRule(rule) == Len(rule.from) \in Nat /\ \E k \in Nat : DOMAIN rule.to = 1..k

\* Replacing one phrase by another brings in no fields but the other's.
LEMMA ReplacedText ==
  ASSUME NEW S, NEW text \in Seq(S), NEW rule, IsRule(rule), Spell(rule.to) \in Seq(S)
  PROVE  Replace(text, rule) \in Seq(S)
<1> DEFINE T == Seq(S)
           n == Len(text) + 1
           found(i) == i + Len(rule.from) <= Len(text) + 1 /\ At(i, rule.from, text)
           kept(i) == IF found(i) THEN i + Len(rule.from) ELSE i
           front(i) == IF found(i) THEN Spell(rule.to) ELSE <<>>
           Is(f) == f = [i \in 1..n |-> front(i)
                            \o (IF kept(i) > Len(text) THEN <<>> ELSE <<text[kept(i)]>> \o f[kept(i) + 1])]
           from == CHOOSE f : Is(f)
           base == [i \in 1..n |-> front(i) \o <<>>]
           join(i, v) == front(i) \o (<<text[kept(i)]>> \o v)
           ends == {i \in 1..n : kept(i) > Len(text)}
           next == [i \in 1..n |-> kept(i) + 1]
           step == [p \in (1..n) \X T |-> IF p[1] \in ends THEN <<>> ELSE join(p[1], p[2])]
<1>1. Len(text) \in Nat /\ n \in Nat /\ 1 \in 1..n
  OBVIOUS
<1>2. ASSUME NEW i \in 1..n PROVE front(i) \in T
  OBVIOUS
<1>3. ASSUME NEW i \in 1..n PROVE kept(i) \in Nat /\ kept(i) >= i
  <2>1. PICK k \in Nat : k = Len(rule.from)
    BY DEF IsRule
  <2>2. i + k \in Nat /\ i + k >= i /\ i \in Nat
    BY <1>1
  <2> HIDE DEF found, n
  <2> QED
    BY <2>1, <2>2
<1>4. ASSUME NEW i \in 1..n, kept(i) <= Len(text)
      PROVE  text[kept(i)] \in S /\ kept(i) + 1 \in (i + 1)..n
  <2>1. PICK k \in Nat : k = kept(i) /\ k >= i
    BY <1>3
  <2>2. k \in 1..Len(text) /\ i \in Nat
    BY <1>1, <1>4, <2>1
  <2> HIDE DEF kept
  <2>3. text[k] \in S
    BY <2>2
  <2> QED
    BY <1>1, <2>1, <2>2, <2>3
<1> HIDE DEF front, kept
<1>5. ASSUME NEW i \in 1..n PROVE i \in ends <=> ~(kept(i) <= Len(text))
  BY <1>1, <1>3
<1>6. ASSUME NEW i \in 1..n, i \notin ends, NEW v \in T PROVE join(i, v) \in T
  <2>1. text[kept(i)] \in S
    BY <1>4, <1>5, <1>6
  <2>2. <<text[kept(i)]>> \o v \in T
    BY <2>1
  <2> QED
    BY <1>2, <2>2
<1>7. /\ base \in [1..n -> T] /\ step \in [(1..n) \X T -> T] /\ ends \in SUBSET (1..n)
      /\ \A i \in 1..n : base[i] = front(i) \o <<>> /\ next[i] = kept(i) + 1
      /\ \A i \in (1..n) \ ends, v \in T : step[<<i, v>>] = join(i, v)
  <2>1. <<>> \in T
    OBVIOUS
  <2>2. \A i \in 1..n : front(i) \o <<>> \in T
    BY <1>2, <2>1
  <2> HIDE DEF T, join, ends
  <2>3. \A i \in 1..n, v \in T : (IF i \in ends THEN <<>> ELSE join(i, v)) \in T
    BY <1>6, <2>1
  <2>4. base \in [1..n -> T] /\ \A i \in 1..n : base[i] = front(i) \o <<>> /\ next[i] = kept(i) + 1
    BY <2>2
  <2>5. step \in [(1..n) \X T -> T] /\ \A i \in (1..n) \ ends, v \in T : step[<<i, v>>] = join(i, v)
    BY <2>3
  <2>6. ends \in SUBSET (1..n)
    BY DEF ends
  <2> QED
    BY <2>4, <2>5, <2>6
<1>8. \A i \in (1..n) \ ends : next[i] \in (i + 1)..n
  BY <1>4, <1>5, <1>7
<1> HIDE DEF base, step, next
<1>9. PICK f \in [1..n -> T] : Jumped(f, n, ends, base, next, step)
  <2> HIDE DEF n, T, ends
  <2> QED
    BY <1>1, <1>7, <1>8, Jumping
<1> HIDE DEF T
<1>10. Is(f)
  <2>1. ASSUME NEW i \in 1..n
        PROVE  f[i] = front(i) \o (IF kept(i) > Len(text) THEN <<>> ELSE <<text[kept(i)]>> \o f[kept(i) + 1])
    <3>1. CASE i \in ends
      BY <1>7, <1>9, <3>1 DEF Jumped
    <3>2. CASE i \notin ends
      <4>1. next[i] \in 1..n
        BY <1>1, <1>8, <3>2
      <4>2. f[next[i]] \in T /\ next[i] = kept(i) + 1
        BY <1>7, <1>9, <4>1
      <4>3. f[i] = join(i, f[next[i]])
        <5> HIDE DEF ends, join
        <5> QED
          BY <1>7, <1>9, <3>2, <4>2 DEF Jumped
      <4> QED
        BY <3>2, <4>2, <4>3
    <3> QED
      BY <3>1, <3>2
  <2> QED
    BY <1>9, <2>1
<1>11. Is(from)
  BY <1>10
<1> HIDE DEF from
<1>12. from[1] \in T
  <2>1. ASSUME NEW i \in 1..n, \A k \in (i + 1)..n : from[k] \in T PROVE from[i] \in T
    <3>1. from[i] = front(i) \o (IF kept(i) > Len(text) THEN <<>> ELSE <<text[kept(i)]>> \o from[kept(i) + 1])
      BY <1>11
    <3>2. CASE i \in ends
      <4>1. from[i] = front(i) \o <<>>
        BY <3>1, <3>2
      <4> QED
        BY <1>2, <4>1 DEF T
    <3>3. CASE i \notin ends
      <4>1. from[i] = join(i, from[kept(i) + 1])
        BY <3>1, <3>3
      <4>2. from[kept(i) + 1] \in T
        BY <1>4, <1>5, <2>1, <3>3
      <4> HIDE DEF join, ends
      <4> QED
        BY <1>6, <3>3, <4>1, <4>2
    <3> QED
      BY <3>2, <3>3
  <2> HIDE DEF n
  <2>2. \A i \in 1..n : from[i] \in T
    BY <1>1, <2>1, JumpsStay
  <2> QED
    BY <1>1, <2>2
<1>13. Replace(text, rule) = from[1]
  BY Zenon DEF Replace, from, front, kept
<1> QED
  BY <1>12, <1>13 DEF T

\* Rules one after another.
LEMMA RewrittenText ==
  ASSUME NEW text, IsText(text), NEW n \in Nat, NEW rules, DOMAIN rules = 1..n,
         \A i \in 1..n : IsRule(rules[i])
  PROVE  IsText(Rewrite(text, rules))
<1> DEFINE plain == Plain(text)
           U == {plain[k] : k \in DOMAIN plain}
                \cup UNION {{Spell(rules[i].to)[k] : k \in DOMAIN rules[i].to} : i \in 1..n}
           T == Seq(U)
           step == [p \in (1..n) \X T |-> Replace(p[2], rules[p[1]])]
           Is(f) == f = [s \in SUBSET (1..n) |->
                            IF s = {} THEN plain ELSE Replace(f[s \ {Max(s)}], rules[Max(s)])]
           iter == CHOOSE f : Is(f)
<1>1. IsText(plain)
  BY PlainText
<1> HIDE DEF plain
<1>2. plain \in T
  <2>1. plain \in Seq({plain[k] : k \in DOMAIN plain})
    BY <1>1, TextLength
  <2> DEFINE V == {plain[k] : k \in DOMAIN plain}
  <2>2. V \subseteq U
    OBVIOUS
  <2> HIDE DEF V, U
  <2>3. plain \in Seq(V)
    BY <2>1 DEF V
  <2> QED
    BY <2>2, <2>3, SeqMonotonic
<1>3. ASSUME NEW i \in 1..n PROVE Spell(rules[i].to) \in T
  <2>1. PICK k \in Nat : DOMAIN rules[i].to = 1..k
    BY DEF IsRule
  <2>2. ASSUME NEW j \in 1..k PROVE Spell(rules[i].to)[j] \in U
    <3>1. j \in DOMAIN rules[i].to
      BY <2>1
    <3>2. Spell(rules[i].to)[j] \in {Spell(rules[i].to)[m] : m \in DOMAIN rules[i].to}
      BY <3>1
    <3> QED
      BY <3>2, Zenon
  <2>3. Spell(rules[i].to) \in [1..k -> U]
    <3>1. Spell(rules[i].to) = [j \in 1..k |-> Spell(rules[i].to)[j]]
      BY <2>1 DEF Spell
    <3> HIDE DEF U
    <3> QED
      BY <2>2, <3>1
  <2> HIDE DEF U
  <2> QED
    BY <2>3
<1>4. \A f \in U : IsField(f)
  <2>1. \A k \in DOMAIN plain : IsField(plain[k])
    BY <1>1, TextLength
  <2>2. \A i \in 1..n : \A k \in DOMAIN rules[i].to : IsField(Spell(rules[i].to)[k])
    BY WordIsField DEF Spell
  <2> QED
    BY <2>1, <2>2
<1> HIDE DEF U
<1>5. ASSUME NEW i \in 1..n, NEW v \in T PROVE Replace(v, rules[i]) \in T
  BY <1>3, ReplacedText
<1>6. step \in [(1..n) \X T -> T] /\ \A i \in 1..n, v \in T : step[<<i, v>>] = Replace(v, rules[i])
  <2> HIDE DEF T
  <2> QED
    BY <1>5
<1> HIDE DEF T, step
<1>7. PICK f \in [SUBSET (1..n) -> T] : Folded(f, n, plain, step)
  BY <1>2, <1>6, Folding
<1>8. \A s \in SUBSET (1..n) : s # {} => Max(s) \in 1..n /\ s \ {Max(s)} \in SUBSET (1..n)
  BY GreatestOf
<1>9. Is(f)
  <2>1. ASSUME NEW s \in SUBSET (1..n)
        PROVE  f[s] = IF s = {} THEN plain ELSE Replace(f[s \ {Max(s)}], rules[Max(s)])
    <3>1. CASE s = {}
      BY <1>7, <3>1 DEF Folded
    <3>2. CASE s # {}
      <4>1. Max(s) \in 1..n /\ f[s \ {Max(s)}] \in T
        BY <1>7, <1>8, <3>2
      <4> QED
        BY <1>6, <1>7, <3>2, <4>1 DEF Folded
    <3> QED
      BY <3>1, <3>2
  <2> QED
    BY <1>7, <2>1
<1>10. Is(iter)
  BY <1>9
<1>11. Rewrite(text, rules) = iter[1..n]
  BY Zenon DEF Rewrite, FoldLeft, MapThenFoldSet, plain
<1> HIDE DEF iter
<1>12. iter[1..n] \in T
  <2>1. iter[{}] \in T
    BY <1>2, <1>10
  <2>2. ASSUME NEW s \in SUBSET (1..n), s # {}, iter[s \ {Max(s)}] \in T PROVE iter[s] \in T
    <3>1. iter[s] = Replace(iter[s \ {Max(s)}], rules[Max(s)])
      BY <1>10, <2>2
    <3>2. Max(s) \in 1..n
      BY <1>8, <2>2
    <3> QED
      BY <1>5, <2>2, <3>1, <3>2
  <2> QED
    BY <2>1, <2>2, FoldStays
<1> QED
  BY <1>4, <1>11, <1>12 DEF T, IsText

\* The rules for names and for what was heard.
LEMMA OwnRules ==
  ASSUME NEW text, IsText(text)
  PROVE  IsText(Rewrite(text, NameRewrites)) /\ IsText(Rewrite(text, VoiceRewrites))
<1>1. DOMAIN NameRewrites = 1..1 /\ \A i \in 1..1 : IsRule(NameRewrites[i])
  <2>1. NameRewrites[1].from = <<"brand">> /\ NameRewrites[1].to = <<>>
    BY DEF NameRewrites
  <2>2. Len(NameRewrites[1].from) = 1 /\ DOMAIN NameRewrites[1].to = 1..0
    BY <2>1
  <2>3. IsRule(NameRewrites[1])
    BY <2>2 DEF IsRule
  <2>4. DOMAIN NameRewrites = 1..1
    BY DEF NameRewrites
  <2> QED
    BY <2>3, <2>4
<1>2. DOMAIN VoiceRewrites = 1..2 /\ \A i \in 1..2 : IsRule(VoiceRewrites[i])
  <2>1. /\ VoiceRewrites[1].from = <<"he", "that">> /\ VoiceRewrites[1].to = <<"until">>
        /\ VoiceRewrites[2].from = <<"juice", "term">> /\ VoiceRewrites[2].to = <<"expiry">>
    BY DEF VoiceRewrites
  <2>2. \A i \in 1..2 : Len(VoiceRewrites[i].from) = 2 /\ DOMAIN VoiceRewrites[i].to = 1..1
    BY <2>1
  <2>3. ASSUME NEW i \in 1..2 PROVE IsRule(VoiceRewrites[i])
    <3>1. Len(VoiceRewrites[i].from) \in Nat
      BY <2>2
    <3>2. PICK k \in Nat : k = 1
      OBVIOUS
    <3>3. DOMAIN VoiceRewrites[i].to = 1..k
      BY <2>2, <3>2
    <3> QED
      BY <3>1, <3>3 DEF IsRule
  <2>4. DOMAIN VoiceRewrites = 1..2
    BY DEF VoiceRewrites
  <2> QED
    BY <2>3, <2>4
<1>3. IsText(Rewrite(text, NameRewrites))
  BY <1>1, RewrittenText
<1>4. IsText(Rewrite(text, VoiceRewrites))
  BY <1>2, RewrittenText
<1> QED
  BY <1>3, <1>4

\* A product's name is a text, whatever it is made from.
LEMMA NormalizedText ==
  ASSUME NEW text, IsText(text)
  PROVE  IsText(NormalizeName(text))
<1> DEFINE bare == StripPrefixes(Rewrite(text, NameRewrites))
           led == TrimLeading(bare)
           cut == Rewrite(TrimLeading(TrimTrailing(led)), NameRewrites)
           lead == CanonicalLead(cut)
           stage4 == OrElse(Canonical(cut), OrElse(Canonical(lead), lead))
           stage3 == OrElse(Canonical(led), stage4)
<1>1. IsText(bare)
  BY OwnRules, StrippedText
<1> HIDE DEF bare
<1>2. IsText(led)
  BY <1>1, TrimmedLeading
<1> HIDE DEF led
<1>3. IsText(cut)
  BY <1>2, TrimmedTrailing, TrimmedLeading, OwnRules
<1> HIDE DEF cut
<1>4. IsText(lead)
  BY <1>3, LeadText
<1> HIDE DEF lead
<1>5. IsText(stage4)
  BY <1>4, CanonicalText, OrElseText
<1> HIDE DEF stage4
<1>6. IsText(stage3)
  BY <1>5, CanonicalText, OrElseText
<1> HIDE DEF stage3
<1>7. NormalizeName(text) = OrElse(Canonical(bare), stage3)
  BY Zenon DEF NormalizeName, bare, led, cut, lead, stage4, stage3
<1> QED
  BY <1>6, <1>7, CanonicalText, OrElseText

-----------------------------------------------------------------------------
(* Readings of a text.                                                      *)

IsDraft(d) == \E name, date : d = [name |-> name, date |-> date] /\ IsText(name)
IsReading(r) == r = <<>> \/ \E d : r = <<d>> /\ IsDraft(d)

\* The readings of a text by their markers, its end, its inside.
LEMMA NamedDraft ==
  ASSUME NEW name, NEW found, NEW now, IsText(name)
  PROVE  IsDraft(Named(name, found, now)) /\ IsDraft(Beside(name, found, now))
<1>1. ASSUME NEW n, IsText(n) PROVE IsDraft(Named(n, found, now))
  <2>1. PICK m : m = IF IsDateOnlyResidual(Plain(n), now) THEN <<>> ELSE n
    OBVIOUS
  <2>2. IsText(m)
    BY <1>1, <2>1, ShortTexts
  <2>3. Named(n, found, now) = [name |-> m, date |-> found.value]
    BY <2>1 DEF Named
  <2> QED
    BY <2>2, <2>3 DEF IsDraft
<1>2. IsText(IF Len(name) = 1 /\ name[1].w \in DatePrefixes THEN <<>> ELSE NormalizeName(name))
  BY NormalizedText, ShortTexts
<1> QED
  BY <1>1, <1>2 DEF Beside

\* The reading of a text with a marker before its date.
LEMMA MarkedReading ==
  ASSUME NEW text, IsText(text), NEW now
  PROVE  IsReading(Marked(text, now))
<1> DEFINE parts == [k \in 1..3 |-> MarkedBy(<<"until", "by", "expires">>[k], text, now)]
           I == {i \in 1..Len(parts) : parts[i].found.value # NoDate}
           i == IF I # {} THEN Min(I) ELSE 0
<1>1. ASSUME NEW marker PROVE IsText(MarkedBy(marker, text, now).name)
  <2> DEFINE J == {j \in 2..(Len(text) - 1) : text[j].w = marker}
             at == IF J # {} THEN Min(J) ELSE 0
  <2>1. PICK n \in Nat : n = Len(text)
    BY TextLength
  <2>2. J \in SUBSET Nat /\ \A j \in J : j - 1 \in Int /\ j - 1 <= n
    BY <2>1
  <2>3. J # {} => Min(J) \in J
    <3> HIDE DEF J
    <3> QED
      BY <2>2, LeastIn
  <2>4. PICK m \in Int : m = at - 1 /\ m <= n
    <3>1. CASE J = {}
      <4>1. at - 1 = 0 - 1
        BY <3>1
      <4> HIDE DEF at
      <4> QED
        BY <2>1, <4>1
    <3>2. CASE J # {}
      <4> HIDE DEF J
      <4> QED
        BY <2>2, <2>3, <3>2
    <3> QED
      BY <3>1, <3>2
  <2> HIDE DEF at
  <2>5. IsText(SubSeq(text, 1, at - 1))
    BY <2>1, <2>4, PartOfText
  <2>6. MarkedBy(marker, text, now).name = SubSeq(text, 1, at - 1)
    <3>1. SelectInSubSeq(text, 2, Len(text) - 1, LAMBDA f : f.w = marker) = at
      BY Zenon DEF SelectInSubSeq, at
    <3> QED
      BY <3>1 DEF MarkedBy
  <2> QED
    BY <2>5, <2>6
<1>2. Len(parts) = 3 /\ \A k \in 1..3 : IsText(parts[k].name)
  BY <1>1
<1> HIDE DEF parts
<1>3. CASE I = {}
  <2>1. FirstDated(parts, now) = <<>>
    BY <1>3, Zenon DEF FirstDated, SelectInSeq
  <2> QED
    BY <2>1, Zenon DEF Marked, IsReading, parts
<1>4. CASE I # {}
  <2>1. i \in I
    BY <1>2, <1>4, LeastIn
  <2>2. i \in 1..3 /\ i # 0
    BY <1>2, <2>1
  <2> HIDE DEF i
  <2>3. IsDraft(Named(NormalizeName(parts[i].name), parts[i].found, now))
    BY <1>2, <2>2, NormalizedText, NamedDraft
  <2>4. FirstDated(parts, now) = <<Named(NormalizeName(parts[i].name), parts[i].found, now)>>
    BY <2>2, Zenon DEF FirstDated, SelectInSeq, i
  <2>5. Marked(text, now) = FirstDated(parts, now)
    BY Zenon DEF Marked, parts
  <2> QED
    BY <2>3, <2>4, <2>5 DEF IsReading
<1> QED
  BY <1>3, <1>4

\* The reading of a text that ends in a date (splitTrailingDatePhrase).
LEMMA SuffixedReading ==
  ASSUME NEW text, IsText(text), NEW now
  PROVE  IsReading(Suffixed(text, now))
<1> DEFINE parts == [k \in 1..(IF Len(text) <= 5 THEN Len(text) - 1 ELSE 5) |-> DatedEnd(k, text, now)]
           I == {i \in 1..Len(parts) : parts[i].found.value # NoDate}
           i == IF I # {} THEN Max(I) ELSE 0
<1>1. PICK n \in Nat : n = Len(text)
  BY TextLength
<1>2. PICK m \in Nat : 1..m = 1..(IF n <= 5 THEN n - 1 ELSE 5) /\ m <= n
  <2>1. CASE n = 0
    <3>1. PICK m \in Nat : m = 0
      OBVIOUS
    <3>2. 1..m = 1..(IF n <= 5 THEN n - 1 ELSE 5)
      BY <2>1, <3>1
    <3> QED
      BY <3>1, <3>2
  <2>2. CASE n # 0
    <3>1. (IF n <= 5 THEN n - 1 ELSE 5) \in Nat /\ (IF n <= 5 THEN n - 1 ELSE 5) <= n
      BY <2>2
    <3> QED
      BY <3>1
  <2> QED
    BY <2>1, <2>2
<1>3. parts = [k \in 1..m |-> DatedEnd(k, text, now)]
  BY <1>1, <1>2
<1>4. ASSUME NEW k \in 1..m PROVE IsText(parts[k].name)
  <2>1. n - k \in Int /\ n - k <= n
    OBVIOUS
  <2>2. IsText(SubSeq(text, 1, n - k))
    BY <1>1, <2>1, PartOfText
  <2>3. DatedEnd(k, text, now).name = SubSeq(text, 1, n - k)
    BY <1>1 DEF DatedEnd
  <2> QED
    BY <1>3, <2>2, <2>3
<1>5. Suffixed(text, now) = LastDated(parts, now)
  BY Zenon DEF Suffixed
<1> HIDE DEF parts
<1>6. Len(parts) = m
  BY <1>3
<1>7. CASE I = {}
  <2>1. LastDated(parts, now) = <<>>
    BY <1>7, Zenon DEF LastDated, SelectLastInSeq
  <2> QED
    BY <1>5, <2>1, Zenon DEF IsReading
<1>8. CASE I # {}
  <2>1. i \in I
    BY <1>6, <1>8, GreatestOf
  <2>2. i \in 1..m /\ i # 0
    BY <1>6, <2>1
  <2> HIDE DEF i
  <2>3. IsDraft(Beside(parts[i].name, parts[i].found, now))
    BY <1>4, <2>2, NamedDraft
  <2>4. LastDated(parts, now) = <<Beside(parts[i].name, parts[i].found, now)>>
    BY <2>2, Zenon DEF LastDated, SelectLastInSeq, i
  <2> QED
    BY <1>5, <2>3, <2>4 DEF IsReading
<1> QED
  BY <1>7, <1>8

\* A preposition at the end is dropped.
LEMMA TrimmedPrepositions ==
  ASSUME NEW name, IsText(name)
  PROVE  IsText(TrimPrepositions(name))
<1>0. PICK n \in Nat : n = 5
  OBVIOUS
<1>f. PICK S : name \in Seq(S) /\ \A f \in S : IsField(f)
  BY DEF IsText
<1> DEFINE T == Seq(S)
           words == <<"until", "to", "on", "in", "by">>
           drop(v, p) == IF Len(v) > 1 /\ Last(v).w = p THEN Front(v) ELSE v
           step == [p \in (1..n) \X T |-> drop(p[2], words[p[1]])]
           Is(f) == f = [s \in SUBSET (1..n) |->
                            IF s = {} THEN name ELSE drop(f[s \ {Max(s)}], words[Max(s)])]
           iter == CHOOSE f : Is(f)
<1>1. DOMAIN words = 1..n
  BY <1>0
<1>2. TrimPrepositions(name) = FoldLeft(drop, name, words)
  BY Zenon DEF TrimPrepositions
<1> HIDE DEF words
<1>3. FoldLeft(drop, name, words) = iter[1..n]
  BY <1>1, Zenon DEF FoldLeft, MapThenFoldSet
<1>4. ASSUME NEW v \in T, NEW p PROVE drop(v, p) \in T
  <2>1. \A i \in 1..(Len(v) - 1) : v[i] \in S
    OBVIOUS
  <2>2. Len(v) - 1 \in Int
    OBVIOUS
  <2>3. SubSeq(v, 1, Len(v) - 1) \in T
    BY <2>1, <2>2, SubSeqProperties
  <2> QED
    BY <2>3 DEF Front
<1>5. step \in [(1..n) \X T -> T] /\ \A i \in 1..n, v \in T : step[<<i, v>>] = drop(v, words[i])
  <2> HIDE DEF T, drop
  <2> QED
    BY <1>4
<1>6. name \in T
  BY <1>f
<1> HIDE DEF T, drop, step
<1>7. PICK f \in [SUBSET (1..n) -> T] : Folded(f, n, name, step)
  BY <1>5, <1>6, Folding
<1>8. \A s \in SUBSET (1..n) : s # {} => Max(s) \in 1..n /\ s \ {Max(s)} \in SUBSET (1..n)
  BY GreatestOf
<1>9. Is(f)
  <2>1. ASSUME NEW s \in SUBSET (1..n)
        PROVE  f[s] = IF s = {} THEN name ELSE drop(f[s \ {Max(s)}], words[Max(s)])
    <3>1. CASE s = {}
      BY <1>7, <3>1 DEF Folded
    <3>2. CASE s # {}
      <4>1. Max(s) \in 1..n /\ f[s \ {Max(s)}] \in T
        BY <1>7, <1>8, <3>2
      <4> QED
        BY <1>5, <1>7, <3>2, <4>1 DEF Folded
    <3> QED
      BY <3>1, <3>2
  <2> QED
    BY <1>7, <2>1
<1>10. Is(iter)
  BY <1>9
<1> HIDE DEF iter
<1>11. iter[1..n] \in T
  <2>1. iter[{}] \in T
    BY <1>6, <1>10
  <2>2. ASSUME NEW s \in SUBSET (1..n), s # {}, iter[s \ {Max(s)}] \in T PROVE iter[s] \in T
    <3>1. iter[s] = drop(iter[s \ {Max(s)}], words[Max(s)])
      BY <1>10, <2>2
    <3> QED
      BY <1>4, <2>2, <3>1
  <2> QED
    BY <2>1, <2>2, FoldStays
<1> QED
  BY <1>f, <1>2, <1>3, <1>11 DEF T, IsText

\* What is left of a text when a phrase is taken out of it.
LEMMA RestOfText ==
  ASSUME NEW text, IsText(text), NEW phrase
  PROVE  IsText(ReplaceFirstSubSeq(<<>>, phrase, text))
<1>1. CASE phrase \notin SubSeqs(text)
  BY <1>1 DEF ReplaceFirstSubSeq
<1>2. CASE phrase \in SubSeqs(text)
  <2>1. PICK n \in Nat : n = Len(text)
    BY TextLength
  <2>f. PICK S : text \in Seq(S) /\ \A f \in S : IsField(f)
    BY DEF IsText
  <2> DEFINE Has(i) == phrase \in SubSeqs(SubSeq(text, 1, i))
             Ends == {i \in 0..n : Has(i)}
             last == CHOOSE i \in 0..n : Has(i) /\ \A j \in 0..i-1 : ~Has(j)
  <2>2. SubSeq(text, 1, n) = text
    BY <2>1, <2>f
  <2>3. n \in Ends
    <3>1. Has(n)
      BY <1>2, <2>2
    <3> HIDE DEF Has
    <3> QED
      BY <3>1
  <2>4. PICK e \in Ends : \A j \in Ends : e <= j
    <3>1. Ends \in SUBSET Nat /\ Ends # {}
      BY <2>3
    <3> HIDE DEF Ends
    <3> QED
      BY <3>1, LeastIn
  <2>5. e \in 0..n /\ Has(e) /\ \A j \in 0..e-1 : ~Has(j)
    <3>1. \A j \in 0..(e - 1) : j \in 0..n /\ ~(e <= j)
      OBVIOUS
    <3> HIDE DEF Has
    <3> QED
      BY <2>4, <3>1
  <2>6. last \in 0..n /\ Has(last)
    <3> HIDE DEF Has
    <3> QED
      BY <2>5
  <2>7. IndexFirstSubSeq(phrase, text) = last - (Len(phrase) - 1)
    BY <2>1, Zenon DEF IndexFirstSubSeq
  <2> HIDE DEF last
  <2>8. PICK l \in 0..last : l = Len(phrase)
    <3> DEFINE u == SubSeq(text, 1, last)
    <3>1. Len(u) = last /\ u \in Seq(S)
      BY <2>1, <2>f, <2>6
    <3>2. phrase \in SubSeqs(u)
      BY <2>6
    <3> HIDE DEF u
    <3>3. PICK a \in 0..last, b \in 0..last : phrase = SubSeq(u, a + 1, b)
      BY <3>1, <3>2 DEF SubSeqs
    <3>4. Len(phrase) = IF a + 1 <= b THEN b - a ELSE 0
      BY <2>6, <3>1, <3>3
    <3> QED
      BY <2>6, <3>4
  <2>9. /\ ReplaceFirstSubSeq(<<>>, phrase, text) = SubSeq(text, 1, last - l) \o <<>> \o SubSeq(text, last + 1, n)
        /\ last - l \in Int /\ last - l <= n /\ last + 1 \in Nat /\ last + 1 > 0
    <3>1. PICK k \in 0..n : k = last
      BY <2>6
    <3>3. /\ (k - (l - 1)) - 1 = k - l /\ (k - (l - 1)) + l = k + 1
          /\ k - l \in Int /\ k - l <= n /\ k + 1 \in Nat /\ k + 1 > 0
      BY <2>8, <3>1
    <3>2. ReplaceFirstSubSeq(<<>>, phrase, text)
          = SubSeq(text, 1, (last - (l - 1)) - 1) \o <<>> \o SubSeq(text, (last - (l - 1)) + l, n)
      BY <1>2, <2>1, <2>7, <2>8 DEF ReplaceFirstSubSeq, ReplaceSubSeqAt
    <3> QED
      BY <3>1, <3>2, <3>3
  <2>10. IsText(SubSeq(text, 1, last - l)) /\ IsText(SubSeq(text, last + 1, n))
    BY <2>1, <2>9, PartOfText
  <2> QED
    BY <2>9, <2>10, ShortTexts, JoinedText
<1> QED
  BY <1>1, <1>2

\* What a text is parsed to is a draft, and stays one when it is finished.
LEMMA ParsedDraft ==
  ASSUME NEW text, IsText(text), NEW now
  PROVE  IsDraft(Parse(text, now))
<1>1. IsReading(Inside(text, now))
  <2> DEFINE found == Validated(ExtractDateFromText(text, now), now)
             rest == ReplaceFirstSubSeq(<<>>, found.phrase, text)
  <2>1. Inside(text, now) = TakenOut(found, text, now)
    BY Zenon DEF Inside
  <2> HIDE DEF found
  <2>2. IsText(rest)
    BY RestOfText
  <2>3. IsDraft([name |-> <<>>, date |-> found.value])
    BY ShortTexts DEF IsDraft
  <2>4. IsDraft(Beside(TrimPrepositions(rest), found, now))
    BY <2>2, TrimmedPrepositions, NamedDraft
  <2> QED
    BY <2>1, <2>3, <2>4 DEF TakenOut, IsReading
<1>2. IsReading(Whole(text, now))
  <2> DEFINE found == Validated(ResolveRelativeDate(text, now), now)
  <2>1. Whole(text, now) = IF found.value = NoDate THEN <<>> ELSE <<[name |-> <<>>, date |-> found.value]>>
    BY Zenon DEF Whole
  <2> HIDE DEF found
  <2>2. IsDraft([name |-> <<>>, date |-> found.value])
    BY ShortTexts DEF IsDraft
  <2> QED
    BY <2>1, <2>2 DEF IsReading
<1>3. \E d : NameOnly(text) = <<d>> /\ IsDraft(d)
  <2>1. IsDraft([name |-> NormalizeName(text), date |-> NoDate])
    BY NormalizedText DEF IsDraft
  <2> QED
    BY <2>1 DEF NameOnly
<1>4. IsReading(Marked(text, now)) /\ IsReading(Suffixed(text, now))
  BY MarkedReading, SuffixedReading
<1>5. ASSUME NEW r, NEW q, IsReading(r), \E d : q = <<d>> /\ IsDraft(d)
      PROVE  \E d : OrElse(r, q) = <<d>> /\ IsDraft(d)
  BY <1>5 DEF IsReading, OrElse
<1>6. PICK d : /\ OrElse(Marked(text, now), OrElse(Suffixed(text, now),
                      OrElse(Inside(text, now), OrElse(Whole(text, now), NameOnly(text))))) = <<d>>
               /\ IsDraft(d)
  BY <1>1, <1>2, <1>3, <1>4, <1>5
<1>7. Parse(text, now) = d
  BY <1>6 DEF Parse
<1> QED
  BY <1>6, <1>7

\* A finished draft has the same date and a normalized name.
LEMMA FinishedDraft ==
  ASSUME NEW d, IsDraft(d)
  PROVE  /\ IsDraft(Finished(d)) /\ Finished(d).date = d.date
         /\ Finished(d).name = NormalizeName(d.name)
<1>1. PICK name, date : d = [name |-> name, date |-> date] /\ IsText(name)
  BY DEF IsDraft
<1>2. PICK n : n = NormalizeName(name)
  OBVIOUS
<1>3. IsText(n)
  BY <1>1, <1>2, NormalizedText
<1>4. d.name = name /\ d.date = date
  BY <1>1
<1>5. Finished(d) = [name |-> n, date |-> date]
  <2>1. Finished(d) = [d EXCEPT !.name = n]
    BY <1>2, <1>4 DEF Finished
  <2> QED
    BY <1>1, <2>1
<1>6. Finished(d).name = n /\ Finished(d).date = date
  BY <1>5
<1> QED
  BY <1>2, <1>3, <1>4, <1>5, <1>6 DEF IsDraft

\* A text that was heard is a text after its corrections.
LEMMA HeardText ==
  ASSUME NEW text, IsText(text)
  PROVE  IsText(NormalizeVoice(text))
<1> DEFINE heard == Rewrite(text, VoiceRewrites)
           corrected == [i \in DOMAIN heard |-> CorrectVoiceToken(heard[i])]
<1>1. IsText(heard)
  BY OwnRules
<1> HIDE DEF heard
<1>2. PICK n \in Nat : DOMAIN heard = 1..n /\ \A i \in 1..n : IsField(heard[i])
  BY <1>1, TextLength
<1>3. ASSUME NEW i \in 1..n PROVE IsField(CorrectVoiceToken(heard[i]))
  <2>1. \E w : CorrectVoiceToken(heard[i]) \in {heard[i], Word(w)}
    BY DEF CorrectVoiceToken
  <2> QED
    BY <1>2, <2>1, WordIsField
<1>4. corrected = [i \in 1..n |-> corrected[i]] /\ \A i \in 1..n : IsField(corrected[i])
  BY <1>2, <1>3
<1>5. IsText(corrected)
  <2> HIDE DEF corrected
  <2> QED
    BY <1>4, FunctionText
<1>6. NormalizeVoice(text) = Rewrite(corrected, VoiceRewrites)
  BY Zenon DEF NormalizeVoice, heard
<1> QED
  BY <1>5, <1>6, OwnRules

-----------------------------------------------------------------------------
(* Noise.                                                                   *)

NoiseTo(name, k) == Cardinality({i \in 1..k : name[i].w \in CleanerNoise})
Noisy(f) == IF f.w \in CleanerNoise THEN 1 ELSE 0

\* The noise up to a field, counted field by field.
LEMMA NoiseGrows ==
  ASSUME NEW name, NEW k \in Nat
  PROVE  /\ NoiseTo(name, 0) = 0 /\ NoiseTo(name, k) \in Nat
         /\ NoiseTo(name, k + 1) = NoiseTo(name, k) + Noisy(name[k + 1])
<1> DEFINE at(m) == {i \in 1..m : name[i].w \in CleanerNoise}
<1>1. IsFiniteSet(at(k)) /\ IsFiniteSet(at(0)) /\ at(0) = {}
  <2>1. IsFiniteSet(1..k) /\ IsFiniteSet(1..0)
    BY FS_Interval
  <2>2. at(k) \subseteq 1..k /\ at(0) = {}
    OBVIOUS
  <2> HIDE DEF at
  <2> QED
    BY <2>1, <2>2, FS_Subset, FS_EmptySet
<1>2. Cardinality(at(k)) \in Nat /\ Cardinality(at(0)) = 0
  <2> HIDE DEF at
  <2> QED
    BY <1>1, FS_CardinalityType, FS_EmptySet
<1>3. CASE name[k + 1].w \in CleanerNoise
  <2>1. at(k + 1) = at(k) \cup {k + 1} /\ k + 1 \notin at(k)
    BY <1>3
  <2> HIDE DEF at
  <2>2. Cardinality(at(k) \cup {k + 1}) = Cardinality(at(k)) + 1
    BY <1>1, <2>1, FS_AddElement
  <2> QED
    BY <1>2, <1>3, <2>1, <2>2 DEF NoiseTo, Noisy, at
<1>4. CASE name[k + 1].w \notin CleanerNoise
  <2>1. at(k + 1) = at(k)
    BY <1>4
  <2> HIDE DEF at
  <2> QED
    BY <1>2, <1>4, <2>1 DEF NoiseTo, Noisy, at
<1> QED
  BY <1>3, <1>4

\* The noise of a text is the noise up to its last word, and a number.
LEMMA NoiseOfText ==
  ASSUME NEW name, IsText(name)
  PROVE  Noise(name) = NoiseTo(name, Len(name)) /\ Noise(name) \in Nat
<1>1. Noise(name) = NoiseTo(name, Len(name))
  BY TextLength, Zenon DEF Noise, NoiseTo
<1> QED
  BY <1>1, TextLength, NoiseGrows

\* Where only words of noise are left out, there is less noise.
LEMMA LessNoise ==
  ASSUME NEW old, NEW new, IsText(old), IsText(new), RemovesOnlyNoise(old, new)
  PROVE  Noise(new) < Noise(old)
<1> DEFINE n == Len(old)
           c == Len(new)
           T == [matched : 0..c, removed : SUBSET {old[i].w : i \in 1..n}]
           start == [matched |-> 0, removed |-> {}]
           take(s, f) == IF s.matched < Len(new) /\ f = new[s.matched + 1]
                         THEN [s EXCEPT !.matched = @ + 1] ELSE [s EXCEPT !.removed = @ \cup {f.w}]
           step == [p \in (1..n) \X T |-> take(p[2], old[p[1]])]
           Is(f) == f = [s \in SUBSET (1..n) |->
                            IF s = {} THEN start ELSE take(f[s \ {Max(s)}], old[Max(s)])]
           iter == CHOOSE f : Is(f)
<1>1. n \in Nat /\ c \in Nat /\ DOMAIN old = 1..n
  BY TextLength
<1>2. /\ c \in 1..(n - 1)
      /\ FoldLeft(take, start, old).matched = c /\ FoldLeft(take, start, old).removed \subseteq CleanerNoise
  BY Zenon DEF RemovesOnlyNoise
<1>3. FoldLeft(take, start, old) = iter[1..n]
  BY <1>1, Zenon DEF FoldLeft, MapThenFoldSet
<1>4. ASSUME NEW i \in 1..n, NEW v \in T PROVE take(v, old[i]) \in T
  <2>1. v.matched < c => v.matched + 1 \in 0..c
    BY <1>1
  <2>2. v.removed \cup {old[i].w} \in SUBSET {old[k].w : k \in 1..n}
    OBVIOUS
  <2> HIDE DEF n
  <2> QED
    BY <2>1, <2>2
<1>5. step \in [(1..n) \X T -> T] /\ \A i \in 1..n, v \in T : step[<<i, v>>] = take(v, old[i])
  <2> HIDE DEF T, take, n
  <2> QED
    BY <1>4
<1>6. start \in T
  BY <1>1
<1> HIDE DEF step, n
<1>7. PICK f \in [SUBSET (1..n) -> T] : Folded(f, n, start, step)
  <2> HIDE DEF T, start
  <2> QED
    BY <1>1, <1>5, <1>6, Folding
<1>8. \A s \in SUBSET (1..n) : s # {} => Max(s) \in 1..n /\ s \ {Max(s)} \in SUBSET (1..n)
  BY <1>1, GreatestOf
<1> HIDE DEF T, take, start
<1>9. Is(f)
  <2>1. ASSUME NEW s \in SUBSET (1..n)
        PROVE  f[s] = IF s = {} THEN start ELSE take(f[s \ {Max(s)}], old[Max(s)])
    <3>1. CASE s = {}
      BY <1>7, <3>1 DEF Folded
    <3>2. CASE s # {}
      <4>1. Max(s) \in 1..n /\ f[s \ {Max(s)}] \in T
        BY <1>7, <1>8, <3>2
      <4> QED
        BY <1>5, <1>7, <3>2, <4>1 DEF Folded
    <3> QED
      BY <3>1, <3>2
  <2> QED
    BY <1>7, <2>1
<1>10. Is(iter)
  BY <1>9
<1> HIDE DEF iter
\* What is matched up to a field, and that all noise before it is in one name or left out.
<1> DEFINE m(k) == iter[1..k].matched
           Counted(k) == iter[1..k].removed \subseteq CleanerNoise =>
                             NoiseTo(old, k) = NoiseTo(new, m(k)) + (k - m(k))
           P == {k \in 0..n : iter[1..k] \in T /\ Counted(k)}
<1>11. 0 \in P
  <2>1. iter[1..0] = start
    BY <1>10
  <2>2. m(0) = 0 /\ start \in T
    BY <1>6, <2>1 DEF start
  <2> HIDE DEF m
  <2>3. NoiseTo(old, 0) = 0 /\ NoiseTo(new, 0) = 0
    BY NoiseGrows
  <2> QED
    BY <1>1, <2>1, <2>2, <2>3
<1>12. ASSUME NEW k \in 0..(n - 1), k \in P PROVE k + 1 \in P
  <2>1. k + 1 \in 1..n /\ k + 1 \in Nat /\ k \in Nat /\ k + 1 \in 0..n
    BY <1>1
  <2>2. iter[1..(k + 1)] = take(iter[1..k], old[k + 1])
    <3>1. 1..(k + 1) \in SUBSET (1..n) /\ 1..(k + 1) # {} /\ k + 1 \in 1..(k + 1)
      <4>1. k + 1 \in 1..(k + 1)
        BY <2>1
      <4>2. \A i \in 1..(k + 1) : i \in 1..n
        BY <1>1, <2>1
      <4> QED
        BY <4>1, <4>2
    <3>2. Max(1..(k + 1)) \in 1..(k + 1) /\ \A i \in 1..(k + 1) : i <= Max(1..(k + 1))
      BY <2>1, <3>1, GreatestOf
    <3>3. Max(1..(k + 1)) = k + 1 /\ (1..(k + 1)) \ {k + 1} = 1..k
      BY <2>1, <3>1, <3>2
    <3> QED
      BY <1>10, <3>1, <3>3
  <2>3. PICK u, v : u = iter[1..k] /\ v = iter[1..(k + 1)]
    OBVIOUS
  <2>4. u \in T /\ v = take(u, old[k + 1]) /\ v \in T
    BY <1>4, <1>12, <2>1, <2>2, <2>3
  <2>5. u.matched \in Nat
    BY <2>4 DEF T
  <2>6. PICK a \in Nat, b \in Nat : a = NoiseTo(old, k) /\ b = NoiseTo(new, u.matched)
    BY <2>1, <2>5, NoiseGrows
  <2>7. /\ NoiseTo(old, k + 1) = a + Noisy(old[k + 1])
        /\ NoiseTo(new, u.matched + 1) = b + Noisy(new[u.matched + 1])
    BY <2>1, <2>5, <2>6, NoiseGrows
  <2>8. u.removed \subseteq CleanerNoise => a = b + (k - u.matched)
    BY <1>12, <2>3, <2>6
  <2>9. ASSUME v.removed \subseteq CleanerNoise
        PROVE  NoiseTo(old, k + 1) = NoiseTo(new, v.matched) + ((k + 1) - v.matched)
    <3>1. CASE u.matched < Len(new) /\ old[k + 1] = new[u.matched + 1]
      <4>1. v = [u EXCEPT !.matched = @ + 1]
        BY <2>4, <3>1 DEF take
      <4>2. v.matched = u.matched + 1 /\ v.removed = u.removed
        BY <2>4, <4>1 DEF T
      <4>3. PICK x \in Nat : x = Noisy(old[k + 1]) /\ x = Noisy(new[u.matched + 1])
        BY <3>1 DEF Noisy
      <4>4. PICK i \in Nat : i = u.matched
        BY <2>5
      <4>5. NoiseTo(old, k + 1) = a + x /\ NoiseTo(new, v.matched) = b + x /\ a = b + (k - i)
        BY <2>7, <2>8, <2>9, <4>2, <4>3, <4>4
      <4>6. a + x = (b + x) + ((k + 1) - (i + 1))
        BY <2>1, <4>5
      <4> QED
        BY <4>2, <4>4, <4>5, <4>6
    <3>2. CASE ~(u.matched < Len(new) /\ old[k + 1] = new[u.matched + 1])
      <4>1. v = [u EXCEPT !.removed = @ \cup {old[k + 1].w}]
        BY <2>4, <3>2 DEF take
      <4>2. v.matched = u.matched /\ v.removed = u.removed \cup {old[k + 1].w}
        BY <2>4, <4>1 DEF T
      <4>3. u.removed \subseteq CleanerNoise /\ Noisy(old[k + 1]) = 1
        BY <2>9, <4>2 DEF Noisy
      <4> QED
        BY <2>1, <2>5, <2>6, <2>7, <2>8, <4>2, <4>3
    <3> QED
      BY <3>1, <3>2
  <2> QED
    BY <2>1, <2>3, <2>4, <2>9
<1>13. n \in P
  <2> HIDE DEF P
  <2>1. \A k \in 0..n : k \in P
    BY <1>1, <1>11, <1>12, Induction
  <2> QED
    BY <1>1, <2>1
<1>14. NoiseTo(old, n) = NoiseTo(new, c) + (n - c)
  BY <1>2, <1>3, <1>13
<1>15. Noise(old) = NoiseTo(old, n) /\ Noise(new) = NoiseTo(new, c) /\ Noise(new) \in Nat
  BY NoiseOfText DEF n
<1>16. c < n
  BY <1>1, <1>2
<1> HIDE DEF c
<1> QED
  BY <1>1, <1>14, <1>15, <1>16

\* A better name is cleaner.
LEMMA BetterIsCleaner ==
  ASSUME NEW old, NEW new, IsText(old), IsText(new), BetterName(old, new)
  PROVE  Cleaner(new, old)
<1>1. CASE RemovesOnlyNoise(old, new)
  BY <1>1, LessNoise DEF Cleaner
<1>2. CASE ~RemovesOnlyNoise(old, new)
  <2>1. Noise(new) <= Noise(old) /\ (Noise(new) < Noise(old) \/ Len(new) < Len(old))
    BY <1>2 DEF BetterName
  <2>2. Noise(new) \in Nat /\ Noise(old) \in Nat
    BY NoiseOfText
  <2> QED
    BY <2>1, <2>2 DEF Cleaner
<1> QED
  BY <1>1, <1>2

-----------------------------------------------------------------------------
(* What is said and what is read are texts.                                 *)

\* The fields that dates are said with.
LEMMA FieldsAre ==
  /\ \A n, digits : IsField(Number(n, digits))
  /\ \A a, b, sep : IsField([w |-> "", ns |-> <<a, b>>, sep |-> sep])
<1>1. ASSUME NEW n, NEW digits PROVE IsField(Number(n, digits))
  <2>1. PICK ns : ns = <<[n |-> n, digits |-> digits]>>
    OBVIOUS
  <2>2. ns \in Seq({[n |-> n, digits |-> digits]})
    BY <2>1
  <2>3. PICK f : f = [w |-> "", ns |-> ns, sep |-> ""]
    OBVIOUS
  <2>4. f.w = "" /\ f.ns = ns /\ f.sep = ""
    BY <2>3
  <2>5. IsField(f)
    BY <2>2, <2>3, <2>4 DEF IsField
  <2> QED
    BY <2>1, <2>3, <2>5 DEF Number
<1>2. ASSUME NEW a, NEW b, NEW sep PROVE IsField([w |-> "", ns |-> <<a, b>>, sep |-> sep])
  <2>1. PICK ns : ns = <<a, b>>
    OBVIOUS
  <2>2. ns \in Seq({a, b})
    BY <2>1
  <2>3. PICK f : f = [w |-> "", ns |-> ns, sep |-> sep]
    OBVIOUS
  <2>4. f.w = "" /\ f.ns = ns /\ f.sep = sep
    BY <2>3
  <2>5. IsField(f)
    BY <2>2, <2>3, <2>4 DEF IsField
  <2> QED
    BY <2>1, <2>3, <2>5
<1> QED
  BY <1>1, <1>2

\* Two fields are a text.
LEMMA TwoFields ==
  ASSUME NEW f, NEW g, IsField(f), IsField(g)
  PROVE  IsText(<<f, g>>)
<1>1. PICK S : S = {f, g}
  OBVIOUS
<1>2. <<f, g>> \in Seq(S) /\ \A x \in S : IsField(x)
  BY <1>1
<1> QED
  BY <1>2 DEF IsText

\* Dates are said with texts.
LEMMA WordingsAreTexts ==
  ASSUME NEW day, NEW month, NEW on, NEW phrase \in Wordings(day, month, on)
  PROVE  IsText(phrase)
<1> DEFINE name == Word(CHOOSE w \in DOMAIN Months : Months[w] = month)
           dotted == <<[w |-> "", ns |-> <<[n |-> day, digits |-> 2], [n |-> month, digits |-> 2]>>, sep |-> "."]>>
           numbered == <<Number(day, IF day < 10 THEN 1 ELSE 2), name>>
<1>1. IsText(SpokenOf(day))
  <2>1. PICK f, g : f = Word(IF day > 30 THEN "thirty" ELSE "twenty") /\ g = OrdinalOf(day % 10)
    OBVIOUS
  <2>2. IsField(f) /\ IsField(g) /\ IsField(OrdinalOf(day))
    BY <2>1, WordIsField DEF OrdinalOf
  <2>3. IsText(<<OrdinalOf(day)>>) /\ IsText(<<f, g>>)
    BY <2>2, ShortTexts, TwoFields
  <2>4. SpokenOf(day) = <<OrdinalOf(day)>> \/ SpokenOf(day) = <<f, g>>
    BY <2>1 DEF SpokenOf
  <2> QED
    BY <2>3, <2>4
<1>2. IsText(dotted)
  BY FieldsAre, ShortTexts
<1>3. IsField(name) /\ IsField(OrdinalOf(month)) /\ IsField(Word("zero"))
  BY WordIsField DEF OrdinalOf
<1> HIDE DEF name
<1>4. IsText(numbered)
  BY <1>3, FieldsAre, TwoFields
<1>5. /\ IsText(SpokenOf(day) \o <<name>>)
      /\ IsText(SpokenOf(day) \o <<OrdinalOf(month)>>)
      /\ IsText(SpokenOf(day) \o <<Word("zero"), OrdinalOf(month)>>)
  BY <1>1, <1>3, ShortTexts, TwoFields, JoinedText
<1>6. \/ phrase \in {dotted, numbered, SpokenOf(day) \o <<name>>}
      \/ phrase = SpokenOf(day) \o <<OrdinalOf(month)>>
      \/ phrase = SpokenOf(day) \o <<Word("zero"), OrdinalOf(month)>>
      \/ \E w \in DOMAIN CasualDays : phrase = <<Word(w)>>
  BY DEF Wordings, name
<1>7. \A w \in DOMAIN CasualDays : IsText(<<Word(w)>>)
  BY WordIsField, ShortTexts
<1> HIDE DEF dotted, numbered
<1> QED
  BY <1>2, <1>4, <1>5, <1>6, <1>7

\* Products and remarks are texts.
LEMMA GivenTexts ==
  ASSUME NEW text \in Products \cup Remarks
  PROVE  IsText(text)
<1> DEFINE N == [n : Nat, digits : Nat]
           F == [w : STRING, ns : Seq(N), sep : STRING]
<1>1. text \in Seq(F)
  BY TextAssumption
<1>2. ASSUME NEW f \in F PROVE IsField(f)
  <2>1. f = [w |-> f.w, ns |-> f.ns, sep |-> f.sep] /\ f.ns \in Seq(N)
    OBVIOUS
  <2> QED
    BY <2>1 DEF IsField
<1> QED
  BY <1>1, <1>2 DEF IsText

\* The inductive invariant.
TextInv ==
  /\ IsDraft(draft)
  /\ said # Nothing => IsText(said.text) /\ IsText(said.phrase)

\* It holds at the start.
LEMMA TextInit ==
  ASSUME Init
  PROVE  TextInv
<1>1. IsDraft(NoDraft)
  BY ShortTexts DEF IsDraft, NoDraft
<1> QED
  BY <1>1 DEF Init, TextInv

\* What the cleaner reads is a draft, and it replaces a draft only if it is further on.
LEMMA CleanedDraft ==
  ASSUME TextInv, said # Nothing, NEW answer \in Answers, Clean(answer)
  PROVE  IsDraft(draft') /\ (draft' # draft => Forward(draft', draft))
<1> DEFINE text == OrElse(answer, said.text)
           parsed == Parse(text, today)
           done == Finished(parsed)
<1>1. IsText(answer)
  <2>1. ASSUME NEW p \in Products PROVE IsText(p \o said.phrase)
    BY GivenTexts, JoinedText DEF TextInv
  <2> QED
    BY <2>1, GivenTexts, ShortTexts DEF Answers
<1>2. IsText(text)
  BY <1>1, OrElseText DEF TextInv
<1>3. draft' = Judged(draft, parsed, text)
  BY Zenon DEF Clean, Cleaned
<1> HIDE DEF text
<1>4. IsDraft(parsed)
  BY <1>2, ParsedDraft
<1> HIDE DEF parsed
<1>5. IsDraft(done)
  BY <1>4, FinishedDraft
<1>6. draft' = draft \/ (draft' = done /\ ShouldApply(draft, done))
  BY <1>3 DEF Judged
<1> HIDE DEF done
<1>7. ASSUME ShouldApply(draft, done) PROVE Forward(done, draft)
  <2>1. CASE draft.date = NoDate /\ done.date # NoDate
    BY <2>1 DEF Forward
  <2>2. CASE ~(draft.date = NoDate /\ done.date # NoDate)
    <3>1. done.date = draft.date
      BY <1>7, <2>2 DEF ShouldApply
    <3>2. CASE draft.name = <<>> /\ done.name # <<>>
      BY <3>1, <3>2 DEF Forward
    <3>3. CASE ~(draft.name = <<>> /\ done.name # <<>>)
      <4>1. done.name # <<>> /\ BetterName(NormalizeName(draft.name), NormalizeName(done.name))
        BY <1>7, <2>2, <3>3 DEF ShouldApply
      <4>2. IsText(NormalizeName(draft.name)) /\ IsText(NormalizeName(done.name))
        <5>1. IsText(draft.name) /\ IsText(done.name)
          BY <1>5 DEF TextInv, IsDraft
        <5> QED
          BY <5>1, NormalizedText
      <4> QED
        BY <3>1, <4>1, <4>2, BetterIsCleaner DEF Forward
    <3> QED
      BY <3>2, <3>3
  <2> QED
    BY <2>1, <2>2
<1> QED
  BY <1>5, <1>6, <1>7 DEF TextInv

\* What is said is read into a draft.
LEMMA SaidTexts ==
  ASSUME NEW product \in Products, NEW date, NEW until \in BOOLEAN, NEW voice \in BOOLEAN,
         Say(product, date, until, voice)
  PROVE  TextInv'
<1>1. PICK phrase \in Phrases(date, today) :
        LET marker == IF ~until THEN <<>> ELSE Spell(IF voice THEN <<"he", "that">> ELSE <<"until">>)
            typed == product \o marker \o phrase
            text == IF voice THEN NormalizeVoice(typed) ELSE typed
        IN  /\ draft' = FastDraft(text, today)
            /\ said' = [text |-> text, product |-> IF voice THEN NormalizeVoice(product) ELSE product,
                        phrase |-> phrase, until |-> until, day |-> date[1], month |-> date[2], on |-> today]
  BY DEF Say
<1> DEFINE marker == IF ~until THEN <<>> ELSE Spell(IF voice THEN <<"he", "that">> ELSE <<"until">>)
           typed == product \o marker \o phrase
           text == IF voice THEN NormalizeVoice(typed) ELSE typed
<1>2. IsText(marker)
  <2>1. DOMAIN <<"he", "that">> = 1..2 /\ DOMAIN <<"until">> = 1..1
    OBVIOUS
  <2>2. IsText(Spell(<<"he", "that">>)) /\ IsText(Spell(<<"until">>))
    BY <2>1, SpelledText
  <2> QED
    BY <2>2, ShortTexts
<1> HIDE DEF marker
<1>3. IsText(phrase) /\ IsText(typed)
  <2>1. IsText(phrase)
    BY <1>1, WordingsAreTexts, ShortTexts DEF Phrases
  <2> QED
    BY <1>2, <2>1, GivenTexts, JoinedText
<1> HIDE DEF typed
<1>4. IsText(text)
  BY <1>3, HeardText
<1>5. draft' = FastDraft(text, today) /\ said'.text = text /\ said'.phrase = phrase
  BY <1>1 DEF marker, typed
<1> HIDE DEF text
<1>6. IsDraft(FastDraft(text, today))
  BY <1>4, ParsedDraft, FinishedDraft DEF FastDraft
<1> QED
  BY <1>3, <1>4, <1>5, <1>6 DEF TextInv

\* Every step keeps it, and replaces a draft only by one further on.
LEMMA TextNext ==
  ASSUME TextInv, [Next]_vars
  PROVE  TextInv' /\ (said # Nothing /\ draft' # draft => Forward(draft', draft))
<1>1. CASE UNCHANGED <<draft, said>>
  BY <1>1 DEF TextInv
<1>2. ASSUME NEW p \in Products, NEW d \in Calendar \cup {Undated}, NEW until \in BOOLEAN,
             NEW voice \in BOOLEAN, Say(p, d, until, voice)
      PROVE  TextInv' /\ said = Nothing
  <2>1. said = Nothing
    BY <1>2 DEF Say
  <2> QED
    BY <1>2, <2>1, SaidTexts
<1>4. ASSUME said # Nothing, NEW a \in Answers, Clean(a)
      PROVE  TextInv' /\ (draft' # draft => Forward(draft', draft))
  <2>1. IsDraft(draft') /\ (draft' # draft => Forward(draft', draft))
    BY <1>4, CleanedDraft
  <2>2. said' = said
    BY <1>4 DEF Clean
  <2> QED
    BY <2>1, <2>2 DEF TextInv
<1>5. CASE DayPasses
  BY <1>1, <1>5 DEF DayPasses
<1>6. ASSUME NEW a \in Spellings, NEW b \in Spellings, Compare(a, b)
      PROVE  UNCHANGED <<draft, said>>
  BY <1>6 DEF Compare
<1>7. CASE UNCHANGED vars
  BY <1>1, <1>7 DEF vars
<1> QED
  BY <1>1, <1>2, <1>4, <1>5, <1>6, <1>7 DEF Next

\* To be further on is a strict order of drafts: no chain of answers leads back to a
\* draft that was replaced.
THEOREM ForwardIsStrict ==
  ASSUME NEW a, NEW b, NEW c, IsDraft(a), IsDraft(b), IsDraft(c)
  PROVE  ~Forward(a, a) /\ (Forward(a, b) /\ Forward(b, c) => Forward(a, c))
<1>1. PICK x, y, z : x = NormalizeName(a.name) /\ y = NormalizeName(b.name) /\ z = NormalizeName(c.name)
  OBVIOUS
<1>2. IsText(x) /\ IsText(y) /\ IsText(z)
  BY <1>1, NormalizedText DEF IsDraft
<1>3. /\ Noise(x) \in Nat /\ Noise(y) \in Nat /\ Noise(z) \in Nat
      /\ Len(x) \in Nat /\ Len(y) \in Nat /\ Len(z) \in Nat
  BY <1>2, NoiseOfText, TextLength
<1>4. ~Cleaner(x, x) /\ (Cleaner(x, y) /\ Cleaner(y, z) => Cleaner(x, z))
  BY <1>3 DEF Cleaner
<1> HIDE DEF IsDraft
<1>5. ~Forward(a, a)
  BY <1>1, <1>4 DEF Forward
<1>6. ASSUME Forward(a, b), Forward(b, c) PROVE Forward(a, c)
  BY <1>1, <1>4, <1>6 DEF Forward
<1> QED
  BY <1>5, <1>6

\* Whatever the model answers, on whatever day, however often it is asked, a draft
\* is replaced only by one further on.
THEOREM CleanedForwardHolds == Spec => CleanedForward
<1>1. Spec => []TextInv
  <2>1. Init => TextInv
    BY TextInit
  <2>2. TextInv /\ [Next]_vars => TextInv'
    BY TextNext
  <2> QED
    BY <2>1, <2>2, PTL DEF Spec
<1>2. TextInv /\ [Next]_vars => [said # Nothing /\ draft' # draft => Forward(draft', draft)]_vars
  BY TextNext
<1> QED
  BY <1>1, <1>2, PTL DEF Spec, CleanedForward
===============================================================================
