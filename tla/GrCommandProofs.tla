---------------------------- MODULE GrCommandProofs ----------------------------
(***************************************************************************)
(* What `gr inspect` concludes, for every rollout, installation, version   *)
(* and date: its dates are the calendar's, its counts are task turns, its  *)
(* verdicts rest on evidence, and the process's end tells them.            *)
(***************************************************************************)
EXTENDS GrCommand, FiniteSetTheorems, SequenceTheorems, TLAPS

Evidence == INSTANCE SkillEvidenceProofs

\* Induction, over the numbers for which a lemma holds.
LEMMA Induction ==
  ASSUME NEW S, 0 \in S, \A n \in Nat : n \in S => n + 1 \in S
  PROVE  Nat \subseteq S
  BY Evidence!InductionOnSet, CommandAssumption

LEMMA LeastNumber ==
  ASSUME NEW S \in SUBSET Nat, S # {}
  PROVE  \E n \in S : \A m \in S : n <= m
  BY Evidence!LeastNumber, CommandAssumption

-----------------------------------------------------------------------------
(* Years.  They begin in March here, as in the code, so that a leap day is *)
(* the last of its year: year y lasts until February of y + 1.             *)
(*                                                                         *)
(* The arithmetic is kept within predicates and operators that only the    *)
(* steps about it expand.                                                  *)

\* Year r of the four of quarter q of century c of era e, which has 400 years.
IsYear(y, e, c, q, r) ==
  /\ e \in Int /\ c \in 0..3 /\ q \in 0..24 /\ r \in 0..3
  /\ y = 400 * e + 100 * c + 4 * q + r

\* The days before year y, from year 0 on.
DaysBefore(y) == 365 * y + y \div 4 - y \div 100 + y \div 400

EndsInLeapDay(c, q, r) == r = 3 /\ (q < 24 \/ c = 3)

LEMMA YearParts ==
  ASSUME NEW y \in Int
  PROVE  \E e, c, q, r : IsYear(y, e, c, q, r)
  <1> DEFINE e == y \div 400
             c == (y % 400) \div 100
             q == (y % 100) \div 4
             r == y % 4
  <1>1. IsYear(y, e, c, q, r)
    <2>1. e \in Int /\ c \in 0..3 /\ q \in 0..24 /\ r \in 0..3
      BY SMT
    <2>2. y = 400 * e + 100 * c + 4 * q + r
      BY SMT
    <2> QED
      BY <2>1, <2>2 DEF IsYear
  <1> HIDE DEF e, c, q, r
  <1> QED
    BY <1>1

YearFacts(y, e, c, q, r) ==
  /\ y \div 400 = e
  /\ DaysBefore(y) = 146097 * e + 36524 * c + 1461 * q + 365 * r
  /\ Use!IsLeap(y + 1) <=> EndsInLeapDay(c, q, r)

LEMMA YearSums ==
  ASSUME NEW y, NEW e, NEW c, NEW q, NEW r, IsYear(y, e, c, q, r)
  PROVE  YearFacts(y, e, c, q, r)
  <1> USE DEF IsYear
  <1>1. y \div 400 = e
    BY SMT
  <1>2. y \div 100 = 4 * e + c
    BY SMT
  <1>3. y \div 4 = 100 * e + 25 * c + q
    BY SMT
  <1>4. DaysBefore(y) = 146097 * e + 36524 * c + 1461 * q + 365 * r
    BY <1>1, <1>2, <1>3, SMT DEF DaysBefore
  <1>5. (y + 1) % 4 = 0 <=> r = 3
    BY SMT
  <1>6. (y + 1) % 100 = 0 <=> r = 3 /\ q = 24
    BY SMT
  <1>7. (y + 1) % 400 = 0 <=> r = 3 /\ q = 24 /\ c = 3
    BY SMT
  <1>8. Use!IsLeap(y + 1) <=> EndsInLeapDay(c, q, r)
    BY <1>5, <1>6, <1>7, SMT DEF Use!IsLeap, EndsInLeapDay
  <1> QED
    BY <1>1, <1>4, <1>8, SMT DEF YearFacts

\* Day doy of year r of that quarter and century is day d of its era.
IsDay(d, c, q, r, doy) ==
  /\ c \in 0..3 /\ q \in 0..24 /\ r \in 0..3 /\ doy \in Nat /\ doy <= 365
  /\ d = 36524 * c + 1461 * q + 365 * r + doy
  /\ doy = 365 => EndsInLeapDay(c, q, r)

\* A day of an era, which has 146097.
IsDayOfEra(d) == d \in Nat /\ d <= 146096

LEMMA DayParts ==
  ASSUME NEW d, IsDayOfEra(d)
  PROVE  \E c, q, r, doy : IsDay(d, c, q, r, doy)
  <1> USE DEF IsDayOfEra
  <1>1. PICK c, inCentury \in Nat :
          /\ c <= 3 /\ inCentury <= 36524
          /\ d = 36524 * c + inCentury
          /\ inCentury = 36524 => c = 3
    <2>1. CASE d = 146096
      BY <2>1, SMT
    <2>2. CASE d # 146096
      <3>1. /\ d \div 36524 \in Nat /\ d % 36524 \in Nat
            /\ d \div 36524 <= 3 /\ d % 36524 < 36524
            /\ d = 36524 * (d \div 36524) + (d % 36524)
        BY <2>2, SMT
      <3> DEFINE century == d \div 36524
                 rest == d % 36524
      <3>2. /\ century \in Nat /\ rest \in Nat /\ century <= 3 /\ rest < 36524
            /\ d = 36524 * century + rest
        BY <3>1
      <3> HIDE DEF century, rest
      <3>3. rest <= 36524 /\ rest # 36524
        BY <3>2, SMT
      <3> QED
        BY <3>2, <3>3, SMT
    <2> QED
      BY <2>1, <2>2
  <1>2. PICK q, inQuarter \in Nat :
          /\ q <= 24 /\ inQuarter <= 1460
          /\ inCentury = 1461 * q + inQuarter
          /\ inQuarter = 1460 => q < 24 \/ c = 3
    <2>1. /\ inCentury \div 1461 \in Nat /\ inCentury % 1461 \in Nat
          /\ inCentury \div 1461 <= 24 /\ inCentury % 1461 <= 1460
          /\ inCentury = 1461 * (inCentury \div 1461) + (inCentury % 1461)
      BY <1>1, SMT
    <2> WITNESS inCentury \div 1461 \in Nat, inCentury % 1461 \in Nat
    <2> QED
      BY <1>1, <2>1
  <1>3. PICK r, doy \in Nat :
          /\ r <= 3 /\ doy <= 365
          /\ inQuarter = 365 * r + doy
          /\ doy = 365 => r = 3 /\ inQuarter = 1460
    <2>1. CASE inQuarter = 1460
      BY <2>1, SMT
    <2>2. CASE inQuarter # 1460
      <3>1. /\ inQuarter \div 365 \in Nat /\ inQuarter % 365 \in Nat
            /\ inQuarter \div 365 <= 3 /\ inQuarter % 365 < 365
            /\ inQuarter = 365 * (inQuarter \div 365) + (inQuarter % 365)
        BY <1>2, <2>2, SMT
      <3> WITNESS inQuarter \div 365 \in Nat, inQuarter % 365 \in Nat
      <3> QED
        BY <3>1
    <2> QED
      BY <2>1, <2>2
  <1>4. IsDay(d, c, q, r, doy)
    BY <1>1, <1>2, <1>3, SMT DEF IsDay, EndsInLeapDay
  <1> QED
    BY <1>4

\* The days of an era before its year z, and the code's year of a day.
DaysOfEraBefore(z) == z * 365 + z \div 4 - z \div 100

DayFacts(d, c, q, r, doy) ==
  /\ IsDayOfEra(d)
  /\ Use!YearOfEra(d) = 100 * c + 4 * q + r
  /\ d = DaysOfEraBefore(100 * c + 4 * q + r) + doy

LEMMA YearFound ==
  ASSUME NEW d, NEW c, NEW q, NEW r, NEW doy, IsDay(d, c, q, r, doy)
  PROVE  DayFacts(d, c, q, r, doy)
  <1> USE DEF IsDay
  <1> DEFINE y == 100 * c + 4 * q + r
             rest == 24 * c + q + 365 * r + doy
             more == IF rest >= 1460 THEN 1 ELSE 0
  <1>1. d \in Nat /\ d <= 146096 /\ (d = 146096 <=> c = 3 /\ q = 24 /\ r = 3 /\ doy = 365)
    BY SMT DEF EndsInLeapDay
  <1>2. d \div 1460 = 25 * c + q + more
    <2>1. d = 1460 * (25 * c + q) + rest /\ rest \in Nat /\ rest < 2 * 1460
      BY SMT
    <2>2. 0 <= rest - 1460 * more /\ rest - 1460 * more < 1460
      BY <2>1, SMT
    <2> QED
      BY <2>1, <2>2, SMT
  <1>3. d \div 36524 - d \div 146096 = c
    <2>1. CASE d = 146096
      BY <1>1, <2>1, SMT
    <2>2. CASE d # 146096
      <3>1. 0 <= 1461 * q + 365 * r + doy /\ 1461 * q + 365 * r + doy <= 36524
        BY SMT DEF EndsInLeapDay
      <3>2. 1461 * q + 365 * r + doy # 36524
        BY <2>2, SMT DEF EndsInLeapDay
      <3>3. d \div 36524 = c /\ d \div 146096 = 0
        BY <3>1, <3>2, <1>1, <2>2, SMT
      <3> QED
        BY <3>3, SMT
    <2> QED
      BY <2>1, <2>2
  <1>4. 0 <= doy - more /\ doy - more <= 364
    BY SMT DEF EndsInLeapDay
  <1>5. d - d \div 1460 + d \div 36524 - d \div 146096 = 365 * y + (doy - more)
    BY <1>1, <1>2, <1>3, <1>4, SMT
  <1>6. Use!YearOfEra(d) = y
    BY <1>4, <1>5, SMT DEF Use!YearOfEra
  <1>7. y \div 4 = 25 * c + q /\ y \div 100 = c
    BY SMT
  <1>8. d = DaysOfEraBefore(y) + doy
    BY <1>7, SMT DEF DaysOfEraBefore
  <1> QED
    BY <1>1, <1>6, <1>8, SMT DEF DayFacts, IsDayOfEra

-----------------------------------------------------------------------------
(* Months, of a year that begins in March.                                 *)

FirstDay(m) == (153 * m + 2) \div 5

\* Day doy of its year is in month m.
IsInMonth(doy, m) ==
  /\ m \in 0..11 /\ doy \in Nat /\ doy <= 365
  /\ FirstDay(m) <= doy /\ doy < FirstDay(m + 1)

LEMMA MonthFound ==
  ASSUME NEW doy \in Nat, doy <= 365
  PROVE  /\ IsInMonth(doy, Use!MonthPrime(doy))
         /\ \A m : IsInMonth(doy, m) => Use!MonthPrime(doy) = m
  <1> DEFINE m == Use!MonthPrime(doy)
  <1>1. m \in 0..11
    BY SMT DEF Use!MonthPrime
  <1>2. 153 * m <= 5 * doy + 2 /\ 5 * doy + 2 < 153 * m + 153
    BY SMT DEF Use!MonthPrime
  <1> HIDE DEF m
  <1>3. FirstDay(m) <= doy /\ doy < FirstDay(m + 1)
    BY <1>1, <1>2, SMT DEF FirstDay
  <1>4. ASSUME NEW n, IsInMonth(doy, n) PROVE m = n
    <2>1. n \in 0..11 /\ FirstDay(m) < FirstDay(n + 1) /\ FirstDay(n) < FirstDay(m + 1)
      BY <1>1, <1>3, <1>4, SMT DEF FirstDay, IsInMonth
    <2>2. m <= n /\ n <= m
      BY <2>1, <1>1, SMT DEF FirstDay
    <2> QED
      BY <2>1, <2>2, <1>1, SMT
  <1> QED
    BY <1>1, <1>3, <1>4 DEF m, IsInMonth

YearOf(y, m) == IF m < 10 THEN y ELSE y + 1
MonthOf(m) == IF m < 10 THEN m + 3 ELSE m - 9

\* The days of the months, by the year that begins in March.
MonthFacts(y, m) ==
  /\ MonthOf(m) \in 1..12
  /\ m < 11 => Use!DaysInMonth(YearOf(y, m), MonthOf(m)) = FirstDay(m + 1) - FirstDay(m)
  /\ m = 11 => Use!DaysInMonth(YearOf(y, m), MonthOf(m)) = (IF Use!IsLeap(y + 1) THEN 29 ELSE 28)

LEMMA MonthLength ==
  ASSUME NEW y \in Int, NEW m \in 0..11
  PROVE  MonthFacts(y, m)
  <1> USE DEF YearOf, MonthOf
  <1>1. MonthOf(m) \in 1..12
    BY SMT
  <1>2. m = 11 => Use!DaysInMonth(YearOf(y, m), MonthOf(m))
                    = (IF Use!IsLeap(y + 1) THEN 29 ELSE 28)
    BY SMT DEF Use!DaysInMonth
  <1>3. m < 11 => Use!DaysInMonth(YearOf(y, m), MonthOf(m)) = FirstDay(m + 1) - FirstDay(m)
    BY SMT DEF Use!DaysInMonth, FirstDay
  <1> QED
    BY <1>1, <1>2, <1>3 DEF MonthFacts

-----------------------------------------------------------------------------
(* Dates.                                                                  *)

EraOfYear(y) == Use!Truncated(IF y >= 0 THEN y ELSE y - 399, 400)
EraOfDay(n) == Use!Truncated(IF n >= 0 THEN n ELSE n - 146096, 146097)

LEMMA EraOfYearIsFloor ==
  ASSUME NEW y \in Int
  PROVE  EraOfYear(y) = y \div 400
  BY SMT DEF EraOfYear, Use!Truncated

LEMMA EraOfDayIsFloor ==
  ASSUME NEW n \in Int
  PROVE  EraOfDay(n) = n \div 146097
  BY SMT DEF EraOfDay, Use!Truncated

\* The sums that days_from_civil and civil_from_days end with.
DaysOf(era, y, m, day) ==
  era * 146097 + (DaysOfEraBefore(y - era * 400) + (FirstDay(m) + day - 1)) - 719468
\* The number of that day.
DayOfDate(y, m, day) == DaysBefore(y) + FirstDay(m) + day - 1 - 719468

LEMMA DaysOfDate ==
  ASSUME NEW y \in Int, NEW m \in 0..11, NEW day \in Int
  PROVE  Use!DaysFromCivil(YearOf(y, m), MonthOf(m), day) = DayOfDate(y, m, day)
  <1> DEFINE year == YearOf(y, m)
             month == MonthOf(m)
  <1>1. /\ (IF month <= 2 THEN year - 1 ELSE year) = y
        /\ (IF month > 2 THEN month - 3 ELSE month + 9) = m
    BY SMT DEF YearOf, MonthOf
  <1> HIDE DEF year, month
  <1>2. Use!DaysFromCivil(year, month, day)
          = DaysOf(EraOfYear(IF month <= 2 THEN year - 1 ELSE year),
                   IF month <= 2 THEN year - 1 ELSE year,
                   IF month > 2 THEN month - 3 ELSE month + 9, day)
    BY SMT DEF Use!DaysFromCivil, DaysOf, EraOfYear, FirstDay, DaysOfEraBefore
  <1>3. EraOfYear(y) = y \div 400
    BY EraOfYearIsFloor, SMT
  <1>4. Use!DaysFromCivil(year, month, day) = DaysOf(y \div 400, y, m, day)
    BY <1>1, <1>2, <1>3
  <1>5. PICK e, c, q, r : IsYear(y, e, c, q, r)
    BY YearParts
  <1>6. YearFacts(y, e, c, q, r)
    BY <1>5, YearSums
  <1>7. IsDay(36524 * c + 1461 * q + 365 * r, c, q, r, 0)
    BY <1>5, SMT DEF IsYear, IsDay
  <1>8. DayFacts(36524 * c + 1461 * q + 365 * r, c, q, r, 0)
    BY <1>7, YearFound, SMT
  <1>9. DaysOf(y \div 400, y, m, day) = DaysBefore(y) + FirstDay(m) + day - 1 - 719468
    <2>1. y \div 400 = e /\ y - e * 400 = 100 * c + 4 * q + r
      BY <1>5, <1>6, SMT DEF IsYear, YearFacts
    <2>2. DaysOfEraBefore(100 * c + 4 * q + r) = 36524 * c + 1461 * q + 365 * r
      BY <1>5, <1>8, SMT DEF DayFacts, DaysOfEraBefore, IsYear
    <2>3. DaysOf(e, y, m, day)
            = e * 146097 + (36524 * c + 1461 * q + 365 * r + (FirstDay(m) + day - 1)) - 719468
      BY <2>1, <2>2, SMT DEF DaysOf
    <2> QED
      BY <1>5, <1>6, <2>1, <2>3, SMT DEF IsYear, YearFacts, FirstDay
  <1> QED
    BY <1>4, <1>9 DEF year, month, DayOfDate

LEMMA DateOfDays ==
  ASSUME NEW n \in Int, NEW y, NEW e, NEW c, NEW q, NEW r, NEW doy, NEW m,
         IsYear(y, e, c, q, r),
         IsInMonth(doy, m),
         doy = 365 => EndsInLeapDay(c, q, r),
         n = DaysBefore(y) + doy - 719468
  PROVE  Use!CivilFromDays(n)
           = [year |-> YearOf(y, m), month |-> MonthOf(m), day |-> doy - FirstDay(m) + 1]
  <1> DEFINE d == 36524 * c + 1461 * q + 365 * r + doy
             z == 100 * c + 4 * q + r
             zeroBased == n + 719468
             era == EraOfDay(zeroBased)
             dayOfEra == zeroBased - era * 146097
  <1>1. IsDay(d, c, q, r, doy)
    BY SMT DEF IsDay, IsYear, IsInMonth
  <1>2. DayFacts(d, c, q, r, doy)
    BY <1>1, YearFound, SMT
  <1>3. YearFacts(y, e, c, q, r)
    BY YearSums
  <1>4. zeroBased \in Int /\ zeroBased = 146097 * e + d /\ d \in Nat /\ d <= 146096 /\ e \in Int
    BY <1>2, <1>3, SMT DEF YearFacts, DayFacts, IsDayOfEra, IsYear, IsInMonth
  <1> HIDE DEF d, zeroBased
  <1>5. zeroBased \div 146097 = e
    BY <1>4, SMT
  <1>6. era = e
    BY <1>4, <1>5, EraOfDayIsFloor, SMT
  <1>7. dayOfEra = d
    BY <1>4, <1>6, SMT
  <1>8. Use!YearOfEra(d) = z /\ d - DaysOfEraBefore(z) = doy /\ z + e * 400 = y
    BY <1>2, SMT DEF DayFacts, IsYear, DaysOfEraBefore, IsInMonth
  <1>9. Use!MonthPrime(doy) = m /\ m \in 0..11
    <2>1. doy \in Nat /\ doy <= 365 /\ m \in 0..11
      BY DEF IsInMonth
    <2> QED
      BY <2>1, MonthFound
  <1> DEFINE z2 == Use!YearOfEra(dayOfEra)
             doy2 == dayOfEra - (365 * z2 + z2 \div 4 - z2 \div 100)
             m2 == Use!MonthPrime(doy2)
             month2 == IF m2 < 10 THEN m2 + 3 ELSE m2 - 9
             year2 == z2 + era * 400
  <1>10. Use!CivilFromDays(n)
           = [year |-> IF month2 <= 2 THEN year2 + 1 ELSE year2, month |-> month2,
              day |-> doy2 - FirstDay(m2) + 1]
    BY SMT DEF Use!CivilFromDays, EraOfDay, FirstDay, zeroBased
  <1>11. z2 = z /\ doy2 = doy
    <2>1. z2 = z
      BY <1>7, <1>8
    <2>2. z \in Int
      BY DEF IsYear
    <2> HIDE DEF z, z2, dayOfEra
    <2> QED
      BY <1>7, <1>8, <2>1, <2>2, SMT DEF DaysOfEraBefore
  <1>12. year2 = y
    BY <1>6, <1>8, <1>11
  <1>13. m2 = m
    BY <1>9, <1>11
  <1>14. month2 = MonthOf(m)
    BY <1>13 DEF MonthOf
  <1> HIDE DEF era, dayOfEra, z, z2, doy2, m2, month2, year2
  <1>15. (IF month2 <= 2 THEN y + 1 ELSE y) = YearOf(y, m)
    BY <1>9, <1>14 DEF MonthOf, YearOf
  <1> QED
    BY <1>10, <1>11, <1>12, <1>13, <1>14, <1>15

\* Every day has a date.
LEMMA CivilOfDays ==
  ASSUME NEW n \in Int
  PROVE  LET date == Use!CivilFromDays(n)
         IN  /\ date.year \in Int /\ date.month \in 1..12
             /\ date.day \in 1..Use!DaysInMonth(date.year, date.month)
             /\ date = [year |-> date.year, month |-> date.month, day |-> date.day]
             /\ Use!DaysFromCivil(date.year, date.month, date.day) = n
  <1> DEFINE zeroBased == n + 719468
             e == zeroBased \div 146097
             d == zeroBased % 146097
  <1>1. e \in Int /\ IsDayOfEra(d) /\ zeroBased = 146097 * e + d
    BY SMT DEF IsDayOfEra
  <1> HIDE DEF e, d
  <1>2. PICK c, q, r, doy : IsDay(d, c, q, r, doy)
    BY <1>1, DayParts
  <1> DEFINE y == 400 * e + 100 * c + 4 * q + r
             m == Use!MonthPrime(doy)
  <1>3. IsYear(y, e, c, q, r)
    BY <1>1, <1>2, SMT DEF IsYear, IsDay
  <1>4. YearFacts(y, e, c, q, r)
    BY <1>3, YearSums, SMT
  <1>5. IsInMonth(doy, m)
    BY <1>2, MonthFound, SMT DEF IsDay
  <1>6. doy = 365 => EndsInLeapDay(c, q, r)
    BY <1>2 DEF IsDay
  <1>7. y \in Int /\ m \in 0..11 /\ doy \in Nat
    BY <1>3, <1>5, SMT DEF IsYear, IsInMonth
  <1>8. n = DaysBefore(y) + doy - 719468
    BY <1>1, <1>2, <1>4, SMT DEF IsDay, YearFacts
  <1> HIDE DEF y, m
  <1> DEFINE date == [year |-> YearOf(y, m), month |-> MonthOf(m), day |-> doy - FirstDay(m) + 1]
  <1>9. Use!CivilFromDays(n) = date
    BY <1>3, <1>5, <1>6, <1>8, DateOfDays
  <1>10. MonthFacts(y, m)
    BY <1>7, MonthLength
  <1>11. YearOf(y, m) \in Int /\ MonthOf(m) \in 1..12
    BY <1>7, <1>10, SMT DEF YearOf, MonthFacts
  <1>12. doy - FirstDay(m) + 1 \in 1..Use!DaysInMonth(YearOf(y, m), MonthOf(m))
    <2>1. CASE m < 11
      BY <2>1, <1>5, <1>7, <1>10, SMT DEF MonthFacts, IsInMonth, FirstDay
    <2>2. CASE m = 11
      <3>1. FirstDay(m) = 337
        BY <2>2, SMT DEF FirstDay
      <3>2. doy <= (IF Use!IsLeap(y + 1) THEN 365 ELSE 364)
        BY <1>4, <1>5, <1>6, <1>7, SMT DEF YearFacts, IsInMonth
      <3> QED
        BY <2>2, <3>1, <3>2, <1>5, <1>7, <1>10, SMT DEF MonthFacts, IsInMonth
    <2> QED
      BY <1>7, <2>1, <2>2, SMT
  <1>13. Use!DaysFromCivil(YearOf(y, m), MonthOf(m), doy - FirstDay(m) + 1) = n
    <2>1. FirstDay(m) \in Int /\ DaysBefore(y) \in Int
      BY <1>7, SMT DEF FirstDay, DaysBefore
    <2>2. doy - FirstDay(m) + 1 \in Int
      BY <1>7, <2>1, SMT
    <2>3. Use!DaysFromCivil(YearOf(y, m), MonthOf(m), doy - FirstDay(m) + 1)
            = DayOfDate(y, m, doy - FirstDay(m) + 1)
      BY <1>7, <2>2, DaysOfDate
    <2> QED
      BY <1>7, <1>8, <2>1, <2>3, SMT DEF DayOfDate
  <1>14. /\ date.year = YearOf(y, m) /\ date.month = MonthOf(m)
         /\ date.day = doy - FirstDay(m) + 1
    OBVIOUS
  <1> QED
    BY <1>9, <1>11, <1>12, <1>13, <1>14, Zenon

\* A date of the calendar in terms of years from March on.
IsDate(year, month, day, y, m) ==
  /\ y \in Int /\ m \in 0..11
  /\ year = YearOf(y, m) /\ month = MonthOf(m) /\ day \in Nat \ {0}
  /\ IsInMonth(FirstDay(m) + day - 1, m)
  /\ FirstDay(m) + day - 1 = 365 => Use!IsLeap(y + 1)

LEMMA DateParts ==
  ASSUME NEW year \in Int, NEW month \in 1..12, NEW day \in 1..Use!DaysInMonth(year, month)
  PROVE  \E y, m : IsDate(year, month, day, y, m)
  <1> DEFINE y == IF month <= 2 THEN year - 1 ELSE year
             m == IF month > 2 THEN month - 3 ELSE month + 9
  <1>1. y \in Int /\ m \in 0..11 /\ year = YearOf(y, m) /\ month = MonthOf(m)
    BY SMT DEF YearOf, MonthOf
  <1> HIDE DEF y, m
  <1>2. MonthFacts(y, m)
    BY <1>1, MonthLength
  <1>3. Use!DaysInMonth(year, month) \in Nat
    BY SMT DEF Use!DaysInMonth
  <1>4. day \in Nat \ {0} /\ day <= Use!DaysInMonth(year, month)
    BY <1>3, SMT
  <1>5. CASE m < 11
    <2>1. FirstDay(m) \in Nat /\ FirstDay(m + 1) \in Nat /\ FirstDay(m + 1) <= 337
      BY <1>1, <1>5, SMT DEF FirstDay
    <2>2. day <= FirstDay(m + 1) - FirstDay(m)
      BY <1>1, <1>2, <1>4, <1>5, SMT DEF MonthFacts
    <2>3. IsInMonth(FirstDay(m) + day - 1, m) /\ FirstDay(m) + day - 1 # 365
      BY <1>1, <1>4, <2>1, <2>2, SMT DEF IsInMonth
    <2>4. IsDate(year, month, day, y, m)
      BY <1>1, <1>4, <2>3 DEF IsDate
    <2> QED
      BY <2>4
  <1>6. CASE m = 11
    <2>1. FirstDay(m) = 337 /\ FirstDay(m + 1) = 367
      BY <1>6, SMT DEF FirstDay
    <2>2. day <= (IF Use!IsLeap(y + 1) THEN 29 ELSE 28)
      BY <1>1, <1>2, <1>4, <1>6, SMT DEF MonthFacts
    <2>3. IsInMonth(FirstDay(m) + day - 1, m)
      BY <1>1, <1>4, <2>1, <2>2, SMT DEF IsInMonth
    <2>4. FirstDay(m) + day - 1 = 365 => Use!IsLeap(y + 1)
      BY <1>4, <2>1, <2>2, SMT
    <2>5. IsDate(year, month, day, y, m)
      BY <1>1, <1>4, <2>3, <2>4 DEF IsDate
    <2> QED
      BY <2>5
  <1> QED
    BY <1>1, <1>5, <1>6

\* Every date of the calendar is found again.
LEMMA CivilOfDate ==
  ASSUME NEW year \in Int, NEW month \in 1..12, NEW day \in 1..Use!DaysInMonth(year, month)
  PROVE  /\ Use!DaysFromCivil(year, month, day) \in Int
         /\ Use!CivilFromDays(Use!DaysFromCivil(year, month, day))
              = [year |-> year, month |-> month, day |-> day]
  <1>1. PICK y, m : IsDate(year, month, day, y, m)
    BY DateParts
  <1>2. /\ y \in Int /\ m \in 0..11
        /\ year = YearOf(y, m) /\ month = MonthOf(m) /\ day \in Nat \ {0}
        /\ IsInMonth(FirstDay(m) + day - 1, m)
        /\ FirstDay(m) + day - 1 = 365 => Use!IsLeap(y + 1)
    BY <1>1 DEF IsDate
  <1> DEFINE doy == FirstDay(m) + day - 1
             n == Use!DaysFromCivil(year, month, day)
  <1>3. PICK e, c, q, r : IsYear(y, e, c, q, r)
    BY <1>2, YearParts
  <1>4. doy = 365 => EndsInLeapDay(c, q, r)
    <2>1. YearFacts(y, e, c, q, r)
      BY <1>3, YearSums
    <2> QED
      BY <1>2, <2>1 DEF YearFacts
  <1>5. FirstDay(m) \in Int /\ DaysBefore(y) \in Int /\ day \in Int
    BY <1>2, SMT DEF FirstDay, DaysBefore
  <1>6. n = DaysBefore(y) + FirstDay(m) + day - 1 - 719468
    <2>1. n = DayOfDate(y, m, day)
      BY <1>2, <1>5, DaysOfDate
    <2> QED
      BY <1>5, <2>1, SMT DEF DayOfDate
  <1>7. n \in Int /\ n = DaysBefore(y) + doy - 719468 /\ day = doy - FirstDay(m) + 1
    BY <1>5, <1>6, SMT
  <1> HIDE DEF n, doy
  <1>8. Use!CivilFromDays(n)
          = [year |-> YearOf(y, m), month |-> MonthOf(m), day |-> doy - FirstDay(m) + 1]
    <2>1. IsInMonth(doy, m)
      BY <1>2 DEF doy
    <2> QED
      BY <1>3, <1>4, <1>7, <2>1, DateOfDays
  <1> QED
    BY <1>2, <1>7, <1>8 DEF n

-----------------------------------------------------------------------------
(* The calendar counted year by year and month by month.                   *)

LeapsThrough(y) == {z \in 0..y : Use!IsLeap(z)}

LEMMA LeapsCounted ==
  ASSUME NEW y \in Nat
  PROVE  Cardinality(LeapsThrough(y)) = y \div 4 - y \div 100 + y \div 400 + 1
  <1> DEFINE Good == {n \in Nat : /\ IsFiniteSet(LeapsThrough(n))
                                  /\ Cardinality(LeapsThrough(n))
                                       = n \div 4 - n \div 100 + n \div 400 + 1}
  <1>1. 0 \in Good
    <2>1. Use!IsLeap(0)
      BY SMT DEF Use!IsLeap
    <2>2. LeapsThrough(0) = {0}
      BY <2>1, SMT DEF LeapsThrough
    <2>3. 0 \div 4 - 0 \div 100 + 0 \div 400 + 1 = 1
      BY SMT
    <2> QED
      BY <2>2, <2>3, FS_Singleton
  <1>2. ASSUME NEW n \in Nat, n \in Good PROVE n + 1 \in Good
    <2>1. IsFiniteSet(LeapsThrough(n)) /\ n + 1 \notin LeapsThrough(n)
      BY <1>2, SMT DEF LeapsThrough
    <2>2. /\ (n + 1) \div 4 = n \div 4 + (IF (n + 1) % 4 = 0 THEN 1 ELSE 0)
          /\ (n + 1) \div 100 = n \div 100 + (IF (n + 1) % 100 = 0 THEN 1 ELSE 0)
          /\ (n + 1) \div 400 = n \div 400 + (IF (n + 1) % 400 = 0 THEN 1 ELSE 0)
          /\ (n + 1) % 400 = 0 => (n + 1) % 100 = 0
          /\ (n + 1) % 100 = 0 => (n + 1) % 4 = 0
      BY SMT
    <2>3. (n + 1) \div 4 - (n + 1) \div 100 + (n + 1) \div 400
            = n \div 4 - n \div 100 + n \div 400 + (IF Use!IsLeap(n + 1) THEN 1 ELSE 0)
      BY <2>2, SMT DEF Use!IsLeap
    <2>4. CASE Use!IsLeap(n + 1)
      <3>1. LeapsThrough(n + 1) = LeapsThrough(n) \cup {n + 1}
        BY <2>4, SMT DEF LeapsThrough
      <3>2. /\ IsFiniteSet(LeapsThrough(n + 1))
            /\ Cardinality(LeapsThrough(n + 1)) = Cardinality(LeapsThrough(n)) + 1
        BY <2>1, <3>1, FS_AddElement
      <3> QED
        BY <1>2, <2>3, <2>4, <3>2, SMT
    <2>5. CASE ~Use!IsLeap(n + 1)
      <3>1. LeapsThrough(n + 1) = LeapsThrough(n)
        BY <2>5, SMT DEF LeapsThrough
      <3> QED
        BY <1>2, <2>3, <2>5, <3>1, SMT
    <2> QED
      BY <2>4, <2>5
  <1>3. Nat \subseteq Good
    <2> HIDE DEF Good
    <2> QED
      BY <1>1, <1>2, Induction
  <1> QED
    BY <1>3

\* The operators of an instance are those of the module.
LEMMA SameCardinality == \A S : Use!Cardinality(S) = Cardinality(S)
  BY DEF Use!Cardinality, Cardinality

LEMMA YearsCounted ==
  ASSUME NEW year \in Nat
  PROVE  Use!DaysBeforeYear(year) = DaysBefore(year - 1) + 366
  <1>1. Use!DaysBeforeYear(year) = 365 * year + Cardinality(LeapsThrough(year - 1))
    <2>1. Use!DaysBeforeYear(year) = 365 * year + Use!Cardinality(LeapsThrough(year - 1))
      BY SMT DEF Use!DaysBeforeYear, LeapsThrough
    <2> QED
      BY <2>1, SameCardinality
  <1>2. CASE year = 0
    <2>1. LeapsThrough(year - 1) = {}
      BY <1>2, SMT DEF LeapsThrough
    <2>2. DaysBefore(year - 1) = -366
      <3> DEFINE last == year - 1
      <3>1. IsYear(last, -1, 3, 24, 3)
        BY <1>2, SMT DEF IsYear
      <3>2. YearFacts(last, -1, 3, 24, 3)
        BY <3>1, YearSums, SMT
      <3> QED
        BY <3>2, SMT DEF YearFacts
    <2>3. Cardinality(LeapsThrough(year - 1)) = 0
      BY <2>1, FS_EmptySet
    <2> QED
      BY <1>1, <1>2, <2>2, <2>3, SMT
  <1>3. CASE year # 0
    <2>1. year - 1 \in Nat
      BY <1>3, SMT
    <2>2. Cardinality(LeapsThrough(year - 1))
            = (year - 1) \div 4 - (year - 1) \div 100 + (year - 1) \div 400 + 1
      BY <2>1, LeapsCounted
    <2> QED
      BY <1>1, <2>1, <2>2, SMT DEF DaysBefore
  <1> QED
    BY <1>2, <1>3

\* The days before a month, by the year that begins in March.
MonthsCount(year, month) ==
  IF month <= 2 THEN FirstDay(month + 9) - 306
  ELSE FirstDay(month - 3) + 59 + (IF Use!IsLeap(year) THEN 1 ELSE 0)

LEMMA NextMonth ==
  ASSUME NEW year \in Int, NEW month \in 1..11
  PROVE  MonthsCount(year, month) + Use!DaysInMonth(year, month) = MonthsCount(year, month + 1)
  BY SMT DEF MonthsCount, Use!DaysInMonth, FirstDay

LEMMA MonthsCounted ==
  ASSUME NEW year \in Int, NEW month \in 1..12
  PROVE  Use!DaysBeforeMonth(year, month) = MonthsCount(year, month)
  <1> DEFINE Counts(f) ==
               f = [m \in 1..month |->
                      IF m = 1 THEN 0 ELSE f[m - 1] + Use!DaysInMonth(year, m - 1)]
             f0 == [m \in 1..month |-> MonthsCount(year, m)]
             before == CHOOSE f : Counts(f)
  <1>1. Counts(f0)
    <2>1. ASSUME NEW m \in 1..month, m # 1
          PROVE  MonthsCount(year, m) = f0[m - 1] + Use!DaysInMonth(year, m - 1)
      <3>1. m - 1 \in 1..month /\ m - 1 \in 1..11 /\ (m - 1) + 1 = m
        BY <2>1, SMT
      <3>2. f0[m - 1] = MonthsCount(year, m - 1)
        BY <3>1
      <3> HIDE DEF f0
      <3> QED
        BY <3>1, <3>2, NextMonth, SMT
    <2>2. MonthsCount(year, 1) = 0
      BY SMT DEF MonthsCount, FirstDay
    <2>3. \A m \in 1..month : MonthsCount(year, m)
            = IF m = 1 THEN 0 ELSE f0[m - 1] + Use!DaysInMonth(year, m - 1)
      BY <2>1, <2>2
    <2> QED
      BY <2>3, Zenon
  <1>2. Counts(before)
    BY <1>1
  <1>3. Use!DaysBeforeMonth(year, month) = before[month]
    BY DEF Use!DaysBeforeMonth
  <1> HIDE DEF before
  <1> DEFINE Good == {k \in Nat : k + 1 \in 1..month => before[k + 1] = MonthsCount(year, k + 1)}
  <1>4. 0 \in Good
    <2>1. 1 \in 1..month /\ 0 + 1 = 1 /\ 0 \in Nat
      BY SMT
    <2>2. before[1] = 0
      BY <1>2, <2>1
    <2>3. MonthsCount(year, 1) = 0
      BY SMT DEF MonthsCount, FirstDay
    <2> QED
      BY <2>1, <2>2, <2>3
  <1>5. ASSUME NEW k \in Nat, k \in Good PROVE k + 1 \in Good
    <2> SUFFICES ASSUME (k + 1) + 1 \in 1..month
                 PROVE  before[(k + 1) + 1] = MonthsCount(year, (k + 1) + 1)
      OBVIOUS
    <2>1. k + 1 \in 1..month /\ k + 1 \in 1..11 /\ (k + 1) + 1 # 1 /\ ((k + 1) + 1) - 1 = k + 1
      BY SMT
    <2>2. before[k + 1] = MonthsCount(year, k + 1)
      BY <1>5, <2>1
    <2>3. before[(k + 1) + 1]
            = before[((k + 1) + 1) - 1] + Use!DaysInMonth(year, ((k + 1) + 1) - 1)
      BY <1>2, <2>1, Zenon
    <2> QED
      BY <2>1, <2>2, <2>3, NextMonth
  <1>6. Nat \subseteq Good
    <2> HIDE DEF Good
    <2> QED
      BY <1>4, <1>5, Induction
  <1>7. month - 1 \in Nat /\ (month - 1) + 1 = month /\ month \in 1..month
    BY SMT
  <1> QED
    BY <1>3, <1>6, <1>7

\* The code's formula counts.
LEMMA DaysCounted ==
  ASSUME NEW year \in Nat, NEW month \in 1..12, NEW day \in Int
  PROVE  Use!DaysFromCivil(year, month, day) = Use!DayNumber(year, month, day)
  <1> DEFINE y == IF month <= 2 THEN year - 1 ELSE year
             m == IF month > 2 THEN month - 3 ELSE month + 9
  <1>1. y \in Int /\ m \in 0..11 /\ year = YearOf(y, m) /\ month = MonthOf(m)
    BY SMT DEF YearOf, MonthOf
  <1>2. Use!DaysFromCivil(year, month, day) = DaysBefore(y) + FirstDay(m) + day - 1 - 719468
    <2> HIDE DEF y, m
    <2>1. Use!DaysFromCivil(year, month, day) = DayOfDate(y, m, day)
      BY <1>1, DaysOfDate
    <2> QED
      BY <2>1, SMT DEF DayOfDate
  <1>3. Use!DaysBeforeYear(year) = DaysBefore(year - 1) + 366
    BY YearsCounted
  <1>4. Use!DaysBeforeYear(1970) = 719528
    <2> DEFINE y0 == 1970
    <2>1. y0 \in Nat /\ DaysBefore(y0 - 1) + 366 = 719528
      BY SMT DEF DaysBefore
    <2> HIDE DEF y0
    <2>2. Use!DaysBeforeYear(y0) = 719528
      BY <2>1, YearsCounted, SMT
    <2> QED
      BY <2>2 DEF y0
  <1>5. Use!DaysBeforeMonth(year, month) = MonthsCount(year, month)
    BY MonthsCounted, SMT
  <1>6. Use!DayNumber(year, month, day)
          = DaysBefore(year - 1) + 366 - 719528 + MonthsCount(year, month) + day - 1
    <2>1. DaysBefore(year - 1) \in Int /\ MonthsCount(year, month) \in Int
      BY SMT DEF DaysBefore, MonthsCount, FirstDay
    <2> QED
      BY <2>1, <1>3, <1>4, <1>5, SMT DEF Use!DayNumber
  <1>7. CASE month <= 2
    BY <1>2, <1>6, <1>7, SMT DEF MonthsCount, DaysBefore, FirstDay
  <1>8. CASE month > 2
    <2>1. y = year /\ m = month - 3
      BY <1>8, SMT
    <2>2. DaysBefore(year) = DaysBefore(year - 1) + 365 + (IF Use!IsLeap(year) THEN 1 ELSE 0)
      BY SMT DEF DaysBefore, Use!IsLeap
    <2> QED
      BY <1>2, <1>6, <1>8, <2>1, <2>2, SMT DEF MonthsCount, DaysBefore, FirstDay
  <1> QED
    BY <1>7, <1>8, SMT

-----------------------------------------------------------------------------
(* Stamps.                                                                 *)

IsClock(h, m, sec, t) ==
  /\ h \in Nat /\ m \in Nat /\ sec \in Nat
  /\ h <= 23 /\ m <= 59 /\ sec < 60
  /\ t = h * 3600 + m * 60 + sec

LEMMA ClockParts ==
  ASSUME NEW h, NEW m, NEW sec, NEW t, IsClock(h, m, sec, t)
  PROVE  /\ t \in Nat /\ t < 86400 /\ t \div 86400 = 0 /\ t % 86400 = t
         /\ t \div 3600 = h /\ (t % 3600) \div 60 = m /\ t % 60 = sec
  <1> USE DEF IsClock
  <1>1. t \in Nat /\ t < 86400
    BY SMT
  <1>2. t \div 86400 = 0 /\ t % 86400 = t
    BY <1>1, SMT
  <1> DEFINE rest == m * 60 + sec
  <1>3. rest \in Nat /\ rest < 3600 /\ t = 3600 * h + rest
    BY SMT
  <1>4. rest \div 60 = m /\ t % 60 = sec
    BY SMT
  <1> HIDE DEF rest
  <1>5. t \div 3600 = h /\ t % 3600 = rest
    BY <1>3, SMT
  <1> QED
    BY <1>1, <1>2, <1>4, <1>5

LEMMA ClockSum ==
  ASSUME NEW t \in Nat
  PROVE  (t \div 3600) * 3600 + ((t % 3600) \div 60) * 60 + (t % 60) = t
  <1>1. PICK h \in Nat, rest \in Nat : h = t \div 3600 /\ rest = t % 3600 /\ t = 3600 * h + rest
    <2>1. /\ t \div 3600 \in Nat /\ t % 3600 \in Nat
          /\ t = 3600 * (t \div 3600) + (t % 3600)
      BY SMT
    <2> WITNESS t \div 3600 \in Nat, t % 3600 \in Nat
    <2> QED
      BY <2>1
  <1>2. rest = 60 * (rest \div 60) + (rest % 60)
    BY SMT
  <1>3. t % 60 = rest % 60
    BY <1>1, SMT
  <1> QED
    BY <1>1, <1>2, <1>3, SMT

LEMMA ClockSplit ==
  ASSUME NEW t \in Nat, NEW k \in Int, NEW minutes \in Int, NEW sec \in Nat,
         86400 * k + t = 60 * minutes + sec
  PROVE  k * 1440 + t \div 60 = minutes + sec \div 60 /\ t % 60 = sec % 60
  <1> DEFINE q == sec \div 60
             r == sec % 60
  <1>1. q \in Int /\ r \in Nat /\ r < 60 /\ sec = 60 * q + r
    BY SMT
  <1> HIDE DEF q, r
  <1>2. t = 60 * (minutes - 1440 * k + q) + r
    BY <1>1, SMT
  <1>3. t \div 60 = minutes - 1440 * k + q /\ t % 60 = r
    BY <1>1, <1>2, SMT
  <1> QED
    BY <1>1, <1>3, SMT DEF q, r

Offset(s) == s.sign * (s.oh * 60 + s.om)
SecondsOf(s) == s.hour * 3600 + s.minute * 60 + s.second - s.sign * (s.oh * 3600 + s.om * 60)

\* A second of a day, and an epoch that a stamp may have.
IsSecond(t) == t \in Nat /\ t < 86400
IsEpoch(e) == e = <<e[1], e[2]>> /\ e[1] \in Int /\ IsSecond(e[2])

LEMMA YearsAreNatural == Use!FourDigits \subseteq Nat
  BY DEF Use!FourDigits

LEMMA StampType ==
  ASSUME NEW s \in Use!StampSet
  PROVE  /\ s.year \in Nat /\ s.month \in Nat /\ s.day \in Nat
         /\ s.hour \in Nat /\ s.minute \in Nat /\ s.second \in Nat
         /\ s.oh \in Nat /\ s.om \in Nat /\ s.sign \in {-1, 0, 1}
         /\ s.sign = 0 => s.oh = 0 /\ s.om = 0
  BY YearsAreNatural DEF Use!StampSet

LEMMA OffsetInSeconds ==
  ASSUME NEW s \in Use!StampSet
  PROVE  /\ Offset(s) \in Int
         /\ SecondsOf(s) = 60 * (s.hour * 60 + s.minute - Offset(s)) + s.second
         /\ Offset(s) = 0 => s.oh = 0 /\ s.om = 0
  <1>1. /\ s.hour \in Nat /\ s.minute \in Nat /\ s.second \in Nat /\ s.oh \in Nat /\ s.om \in Nat
        /\ s.sign \in {-1, 0, 1} /\ (s.sign = 0 => s.oh = 0 /\ s.om = 0)
    BY StampType
  <1>2. CASE s.sign = 0
    <2>1. s.oh = 0 /\ s.om = 0
      BY <1>1, <1>2
    <2>2. s.sign * (s.oh * 60 + s.om) = 0 /\ s.sign * (s.oh * 3600 + s.om * 60) = 0
      BY <1>2, <2>1, SMT
    <2> QED
      BY <1>1, <2>1, <2>2, SMT DEF Offset, SecondsOf
  <1>3. CASE s.sign = 1
    BY <1>1, <1>3, SMT DEF Offset, SecondsOf
  <1>4. CASE s.sign = -1
    BY <1>1, <1>4, SMT DEF Offset, SecondsOf
  <1> QED
    BY <1>1, <1>2, <1>3, <1>4, SMT

DayOf(s) == Use!DaysFromCivil(s.year, s.month, s.day)
EpochOf(s) == <<DayOf(s) + SecondsOf(s) \div 86400, SecondsOf(s) % 86400>>

EpochFacts(s) ==
  /\ Use!ParseRfc3339(s) = {EpochOf(s)}
  /\ DayOf(s) \in Int /\ DayOf(s) = Use!DayNumber(s.year, s.month, s.day)
  /\ IsEpoch(EpochOf(s))
  /\ SecondsOf(s) \div 86400 \in Int
  /\ SecondsOf(s) = 86400 * (SecondsOf(s) \div 86400) + EpochOf(s)[2]

LEMMA ParseIs ==
  ASSUME NEW s, Use!WellFormed(s)
  PROVE  Use!ParseRfc3339(s) = {EpochOf(s)}
  BY SMT DEF Use!ParseRfc3339, SecondsOf, Use!SecondsInDay, EpochOf, DayOf

LEMMA ParsedEpoch ==
  ASSUME NEW s \in Use!StampSet, Use!WellFormed(s)
  PROVE  EpochFacts(s)
  <1>1. s.year \in Nat /\ s.month \in 1..12 /\ s.day \in 1..Use!DaysInMonth(s.year, s.month)
    BY StampType DEF Use!WellFormed
  <1>2. DayOf(s) \in Int
    BY <1>1, CivilOfDate, SMT DEF DayOf
  <1>3. s.day \in Int
    BY StampType
  <1>4. DayOf(s) = Use!DayNumber(s.year, s.month, s.day)
    BY <1>1, <1>3, DaysCounted DEF DayOf
  <1>5. Use!ParseRfc3339(s) = {EpochOf(s)}
    BY ParseIs
  <1>6. SecondsOf(s) \in Int
    BY StampType, OffsetInSeconds, SMT
  <1>7. /\ SecondsOf(s) \div 86400 \in Int
        /\ SecondsOf(s) % 86400 \in Nat /\ SecondsOf(s) % 86400 < 86400
        /\ SecondsOf(s) = 86400 * (SecondsOf(s) \div 86400) + (SecondsOf(s) % 86400)
    BY <1>6, SMT
  <1>8. /\ EpochOf(s)[1] = DayOf(s) + SecondsOf(s) \div 86400
        /\ EpochOf(s)[2] = SecondsOf(s) % 86400
    BY SMT DEF EpochOf
  <1>9. IsEpoch(EpochOf(s))
    BY <1>2, <1>7, <1>8, SMT DEF IsEpoch, IsSecond, EpochOf
  <1> QED
    BY <1>2, <1>4, <1>5, <1>7, <1>8, <1>9, SMT DEF EpochFacts

\* Every epoch is parsed from what it is formatted as.
LEMMA FormatIsParsed ==
  ASSUME NEW e, IsEpoch(e), Use!FormatRfc3339(e).year \in Use!FourDigits
  PROVE  Use!ParseRfc3339(Use!FormatRfc3339(e)) = {e}
  <1> DEFINE date == Use!CivilFromDays(e[1])
             utc == Use!FormatRfc3339(e)
             t == e[2]
  <1>1. e[1] \in Int /\ IsSecond(t) /\ e = <<e[1], t>>
    BY DEF IsEpoch
  <1>2. utc.year = date.year /\ utc.month = date.month /\ utc.day = date.day
    BY DEF Use!FormatRfc3339
  <1>3. /\ utc.hour = t \div 3600 /\ utc.minute = (t % 3600) \div 60 /\ utc.second = t % 60
        /\ utc.sign = 0 /\ utc.oh = 0 /\ utc.om = 0
    BY DEF Use!FormatRfc3339
  <1> HIDE DEF date, utc, t
  <1>4. /\ date.month \in 1..12 /\ date.day \in 1..Use!DaysInMonth(date.year, date.month)
        /\ Use!DaysFromCivil(date.year, date.month, date.day) = e[1]
    BY <1>1, CivilOfDays, Zenon DEF date
  <1>5. Use!WellFormed(utc)
    <2>1. utc.month \in 1..12 /\ utc.day \in 1..Use!DaysInMonth(utc.year, utc.month)
      BY <1>2, <1>4
    <2>2. /\ utc.hour <= 23 /\ utc.minute <= 59 /\ utc.second <= 60
          /\ utc.oh <= 23 /\ utc.om <= 59
      BY <1>1, <1>3, SMT DEF IsSecond
    <2> QED
      BY <2>1, <2>2 DEF Use!WellFormed
  <1>6. SecondsOf(utc) = t
    <2>1. utc.sign * (utc.oh * 3600 + utc.om * 60) = 0
      BY <1>3, SMT
    <2>2. (t \div 3600) * 3600 + ((t % 3600) \div 60) * 60 + (t % 60) = t
      BY <1>1, ClockSum, SMT DEF IsSecond
    <2>3. utc.hour * 3600 + utc.minute * 60 + utc.second = t
      BY <1>3, <2>2
    <2>4. utc.second - utc.sign * (utc.oh * 3600 + utc.om * 60) = utc.second
      BY <1>1, <1>3, <2>1, SMT DEF IsSecond
    <2> QED
      BY <2>3, <2>4 DEF SecondsOf
  <1>7. t \div 86400 = 0 /\ t % 86400 = t
    BY <1>1, SMT DEF IsSecond
  <1>8. DayOf(utc) = e[1]
    BY <1>2, <1>4 DEF DayOf
  <1>9. EpochOf(utc) = <<e[1], t>>
    BY <1>1, <1>6, <1>7, <1>8, SMT DEF EpochOf
  <1> QED
    BY <1>1, <1>5, <1>9, ParseIs DEF utc

LEMMA StampIsFormatted ==
  ASSUME NEW s \in Use!StampSet, Use!WellFormed(s), Offset(s) = 0, s.second < 60,
         NEW e \in Use!ParseRfc3339(s)
  PROVE  Use!FormatRfc3339(e) = [s EXCEPT !.sign = 0]
  <1>1. /\ s.hour \in Nat /\ s.minute \in Nat /\ s.second \in Nat
        /\ s.hour <= 23 /\ s.minute <= 59 /\ s.oh = 0 /\ s.om = 0
    BY StampType, OffsetInSeconds DEF Use!WellFormed
  <1> DEFINE t == s.hour * 3600 + s.minute * 60 + s.second
  <1>2. SecondsOf(s) = t
    BY <1>1, OffsetInSeconds, SMT
  <1>3. IsClock(s.hour, s.minute, s.second, t)
    BY <1>1 DEF IsClock
  <1> HIDE DEF t
  <1>4. /\ t \in Nat /\ t \div 86400 = 0 /\ t % 86400 = t
        /\ t \div 3600 = s.hour /\ (t % 3600) \div 60 = s.minute /\ t % 60 = s.second
    BY <1>3, ClockParts
  <1>5. s.year \in Int /\ s.month \in 1..12 /\ s.day \in 1..Use!DaysInMonth(s.year, s.month)
    BY StampType DEF Use!WellFormed
  <1>6. /\ DayOf(s) \in Int
        /\ Use!CivilFromDays(DayOf(s)) = [year |-> s.year, month |-> s.month, day |-> s.day]
    BY <1>5, CivilOfDate, SMT DEF DayOf
  <1>7. e = <<DayOf(s), t>>
    <2>1. DayOf(s) + 0 = DayOf(s)
      BY <1>6, SMT
    <2>2. EpochOf(s) = <<DayOf(s), t>>
      BY <1>2, <1>4, <2>1, SMT DEF EpochOf
    <2> QED
      BY <2>2, ParseIs
  <1>8. e[1] = DayOf(s) /\ e[2] = t
    BY <1>7
  <1>9. Use!FormatRfc3339(e)
          = [year |-> s.year, month |-> s.month, day |-> s.day,
             hour |-> s.hour, minute |-> s.minute, second |-> s.second,
             sign |-> 0, oh |-> 0, om |-> 0]
    BY <1>4, <1>6, <1>8, SMT DEF Use!FormatRfc3339
  <1>10. [s EXCEPT !.sign = 0]
           = [year |-> s.year, month |-> s.month, day |-> s.day,
              hour |-> s.hour, minute |-> s.minute, second |-> s.second,
              sign |-> 0, oh |-> s.oh, om |-> s.om]
    BY DEF Use!StampSet
  <1> QED
    BY <1>1, <1>9, <1>10

\* What DateAgrees says of one epoch.
AgreesOn(s, e) ==
  /\ (e[1] - Use!DayNumber(s.year, s.month, s.day)) * 1440 + e[2] \div 60
       = (s.hour * 60 + s.minute - Offset(s)) + s.second \div 60
  /\ e[2] % 60 = s.second % 60
  /\ Use!FormatRfc3339(e).year \in Use!FourDigits => Use!ParseRfc3339(Use!FormatRfc3339(e)) = {e}
  /\ Offset(s) = 0 /\ s.second < 60 => Use!FormatRfc3339(e) = [s EXCEPT !.sign = 0]

LEMMA StampAgrees ==
  ASSUME NEW s \in Use!StampSet
  PROVE  Use!DateAgrees(s)
  <1>1. ASSUME NEW e \in Use!ParseRfc3339(s) PROVE AgreesOn(s, e)
    <2>1. Use!WellFormed(s)
      BY <1>1 DEF Use!ParseRfc3339
    <2>2. EpochFacts(s)
      BY <2>1, ParsedEpoch
    <2>3. e = EpochOf(s) /\ IsEpoch(e)
      BY <1>1, <2>2 DEF EpochFacts
    <2> DEFINE k == SecondsOf(s) \div 86400
               minutes == s.hour * 60 + s.minute - Offset(s)
               n == Use!DayNumber(s.year, s.month, s.day)
    <2>4. k \in Int /\ n \in Int /\ SecondsOf(s) = 86400 * k + e[2]
      BY <2>2, <2>3 DEF EpochFacts
    <2>5. e[1] = n + k
      BY <2>2, <2>3, SMT DEF EpochFacts, EpochOf
    <2>6. minutes \in Int /\ s.second \in Nat /\ SecondsOf(s) = 60 * minutes + s.second
      BY StampType, OffsetInSeconds, SMT
    <2>7. e[2] \in Nat
      BY <2>3 DEF IsEpoch, IsSecond
    <2> HIDE DEF k, minutes, n
    <2>8. k * 1440 + e[2] \div 60 = minutes + s.second \div 60 /\ e[2] % 60 = s.second % 60
      BY <2>4, <2>6, <2>7, ClockSplit, SMT
    <2>9. e[1] - n = k
      BY <2>4, <2>5, SMT
    <2>10. (e[1] - n) * 1440 + e[2] \div 60 = minutes + s.second \div 60
      BY <2>8, <2>9, SMT
    <2>11. Use!FormatRfc3339(e).year \in Use!FourDigits
             => Use!ParseRfc3339(Use!FormatRfc3339(e)) = {e}
      BY <2>3, FormatIsParsed
    <2>12. Offset(s) = 0 /\ s.second < 60 => Use!FormatRfc3339(e) = [s EXCEPT !.sign = 0]
      BY <2>1, StampIsFormatted
    <2> QED
      BY <2>8, <2>10, <2>11, <2>12 DEF AgreesOn, minutes, n
  <1> QED
    BY <1>1 DEF AgreesOn, Use!DateAgrees, Offset

-----------------------------------------------------------------------------
(* What a record adds to what is known of a rollout.                       *)

TurnIds == Nat \cup {NoTurn}
Turns == {"id", "turn-ordinal", "timestamp"} \X Int
SeenUses == [pos : Nat, skill : Skills, turn : Turns, epoch : Int]
Known == [pos : Nat, turnId : TurnIds, ordinal : Nat, pending : BOOLEAN,
          uses : SUBSET SeenUses, firsts : SUBSET Int, times : SUBSET Int, bad : SUBSET Nat]

\* The words of a path and of the command that prints a file.
Words == STRING \cup {"cat"}
Records == [kind : Use!RecordKinds, at : SUBSET Int, id : TurnIds, words : Seq(Words)]

\* The same but for the times and, if it has moved, the place.
Same(st, after) ==
  /\ after \in Known
  /\ after.turnId = st.turnId /\ after.ordinal = st.ordinal /\ after.pending = st.pending
  /\ after.uses = st.uses /\ after.bad = st.bad

\* What is known when a record is looked at.
At(st, rec) == Use!Timed([st EXCEPT !.pos = @ + 1], rec)

LEMMA TimedFields ==
  ASSUME NEW st \in Known, NEW rec \in Records
  PROVE  Same(st, At(st, rec)) /\ At(st, rec).pos = st.pos + 1
  <1> DEFINE moved == [st EXCEPT !.pos = @ + 1]
  <1>1. Same(st, moved) /\ moved.pos = st.pos + 1
    BY DEF Known, Same
  <1> HIDE DEF moved
  <1>2. Same(moved, Use!Timed(moved, rec)) /\ Use!Timed(moved, rec).pos = moved.pos
    <2>1. moved \in Known
      BY <1>1 DEF Same
    <2>2. CASE Use!Timed(moved, rec) = moved
      BY <2>1, <2>2 DEF Same
    <2>3. CASE Use!Timed(moved, rec) # moved
      <3> DEFINE times == moved.times \cup rec.at
                 firsts == IF moved.pos = 1 THEN moved.firsts \cup rec.at ELSE moved.firsts
      <3>1. Use!Timed(moved, rec) = [moved EXCEPT !.times = times, !.firsts = firsts]
        BY <2>3 DEF Use!Timed
      <3>2. times \in SUBSET Int /\ firsts \in SUBSET Int
        BY <2>1 DEF Known, Records
      <3> HIDE DEF times, firsts
      <3> QED
        BY <2>1, <3>1, <3>2 DEF Same, Known
    <2> QED
      BY <2>2, <2>3
  <1> QED
    BY <1>1, <1>2 DEF Same, At, moved

LEMMA ReadNextIs ==
  ASSUME NEW st, NEW rec
  PROVE  Use!ReadNext(st, rec) =
           CASE rec.kind = "context" -> Use!TurnContext(At(st, rec), rec)
             [] rec.kind = "bad context" ->
                  Use!Unreadable(Use!TurnContext(At(st, rec), [rec EXCEPT !.id = NoTurn]))
             [] rec.kind = "started" -> Use!TaskStarted(At(st, rec), rec)
             [] rec.kind = "call" -> Use!ToolCall(At(st, rec), rec)
             [] rec.kind \in {"bad", "bad payload"} -> Use!Unreadable(At(st, rec))
             [] OTHER -> At(st, rec)
  BY DEF Use!ReadNext, At

Started(st, rec, after) ==
  /\ after \in Known /\ after.pos = st.pos + 1
  /\ after.turnId = rec.id /\ after.ordinal = st.ordinal + 1 /\ after.pending = TRUE
  /\ after.uses = st.uses /\ after.bad = st.bad

LEMMA StartedRead ==
  ASSUME NEW st \in Known, NEW rec \in Records, rec.kind = "started"
  PROVE  Started(st, rec, Use!ReadNext(st, rec))
  <1> DEFINE now == At(st, rec)
             ordinal == now.ordinal + 1
             after == Use!ReadNext(st, rec)
  <1>1. Same(st, now) /\ now.pos = st.pos + 1
    BY TimedFields
  <1>2. after = [now EXCEPT !.ordinal = ordinal, !.pending = TRUE, !.turnId = rec.id]
    BY ReadNextIs DEF Use!TaskStarted
  <1>3. now \in Known /\ ordinal \in Nat /\ ordinal = st.ordinal + 1 /\ rec.id \in TurnIds
    BY <1>1 DEF Same, Known, Records
  <1> HIDE DEF now, ordinal
  <1>4. after = [pos |-> now.pos, turnId |-> rec.id, ordinal |-> ordinal, pending |-> TRUE,
                 uses |-> now.uses, firsts |-> now.firsts, times |-> now.times, bad |-> now.bad]
    BY <1>2, <1>3 DEF Known
  <1> QED
    BY <1>1, <1>3, <1>4 DEF Started, Same, Known

InContext(st, id, after) ==
  /\ after \in Known
  /\ after.turnId = (IF st.pending /\ id = NoTurn THEN st.turnId ELSE id)
  /\ after.ordinal = (IF st.pending THEN st.ordinal ELSE st.ordinal + 1)
  /\ after.pending = FALSE
  /\ after.pos = st.pos /\ after.uses = st.uses /\ after.bad = st.bad

LEMMA TurnContextFields ==
  ASSUME NEW st \in Known, NEW rec \in Records
  PROVE  InContext(st, rec.id, Use!TurnContext(st, rec))
  <1>1. /\ rec.id \in TurnIds /\ st.turnId \in TurnIds /\ st.ordinal \in Nat
        /\ st.pending \in BOOLEAN
    BY DEF Known, Records
  <1>2. CASE st.pending
    <2> DEFINE id == IF rec.id = NoTurn THEN st.turnId ELSE rec.id
    <2>1. id \in TurnIds
      BY <1>1
    <2>2. Use!TurnContext(st, rec) =
            [pos |-> st.pos, turnId |-> id, ordinal |-> st.ordinal, pending |-> FALSE,
             uses |-> st.uses, firsts |-> st.firsts, times |-> st.times, bad |-> st.bad]
      BY <1>2 DEF Use!TurnContext, Known
    <2>3. id = IF st.pending /\ rec.id = NoTurn THEN st.turnId ELSE rec.id
      BY <1>2
    <2> HIDE DEF id
    <2> QED
      BY <1>1, <1>2, <2>1, <2>2, <2>3 DEF InContext, Known
  <1>3. CASE ~st.pending
    <2> DEFINE ordinal == st.ordinal + 1
    <2>1. Use!TurnContext(st, rec) = [st EXCEPT !.ordinal = ordinal, !.turnId = rec.id]
      BY <1>3 DEF Use!TurnContext
    <2>2. ordinal \in Nat /\ st.pending = FALSE
      BY <1>1, <1>3
    <2> HIDE DEF ordinal
    <2>3. Use!TurnContext(st, rec) =
            [pos |-> st.pos, turnId |-> rec.id, ordinal |-> ordinal, pending |-> st.pending,
             uses |-> st.uses, firsts |-> st.firsts, times |-> st.times, bad |-> st.bad]
      BY <2>1 DEF Known
    <2> QED
      BY <1>1, <1>3, <2>2, <2>3 DEF InContext, Known, ordinal
  <1> QED
    BY <1>2, <1>3

Contextual(st, rec, after) ==
  /\ after \in Known /\ after.pos = st.pos + 1
  /\ after.turnId = (IF st.pending /\ rec.id = NoTurn THEN st.turnId ELSE rec.id)
  /\ after.ordinal = (IF st.pending THEN st.ordinal ELSE st.ordinal + 1)
  /\ after.pending = FALSE
  /\ after.uses = st.uses /\ after.bad = st.bad

LEMMA ContextRead ==
  ASSUME NEW st \in Known, NEW rec \in Records, rec.kind = "context"
  PROVE  Contextual(st, rec, Use!ReadNext(st, rec))
  <1> DEFINE now == At(st, rec)
  <1>1. Same(st, now) /\ now.pos = st.pos + 1
    BY TimedFields
  <1>2. now \in Known
    BY <1>1 DEF Same
  <1>3. Use!ReadNext(st, rec) = Use!TurnContext(now, rec)
    BY ReadNextIs
  <1> HIDE DEF now
  <1>4. InContext(now, rec.id, Use!TurnContext(now, rec))
    BY <1>2, TurnContextFields
  <1> QED
    BY <1>1, <1>3, <1>4 DEF Same, InContext, Contextual

\* What is torn is remembered, and nothing is taken from it but a turn.
Torn(st, after) ==
  /\ after \in Known /\ after.pos = st.pos + 1
  /\ after.ordinal \in {st.ordinal, st.ordinal + 1}
  /\ after.uses = st.uses /\ after.bad = st.bad \cup {st.pos + 1}

\* It may have been the context that began a turn; nothing else begins one.
BeginsNone(rec, st, after) == rec.kind # "bad context" => after.ordinal = st.ordinal

LEMMA UnreadableFields ==
  ASSUME NEW st \in Known
  PROVE  /\ Use!Unreadable(st) \in Known /\ Use!Unreadable(st).pos = st.pos
         /\ Use!Unreadable(st).ordinal = st.ordinal
         /\ Use!Unreadable(st).turnId = st.turnId
         /\ Use!Unreadable(st).pending = st.pending
         /\ Use!Unreadable(st).uses = st.uses
         /\ Use!Unreadable(st).bad = st.bad \cup {st.pos}
  BY DEF Use!Unreadable, Known

LEMMA TornRead ==
  ASSUME NEW st \in Known, NEW rec \in Records,
         \/ rec.kind \in {"bad", "bad payload", "bad context"}
         \/ rec.kind = "call" /\ rec.at = {}
  PROVE  /\ Torn(st, Use!ReadNext(st, rec))
         /\ BeginsNone(rec, st, Use!ReadNext(st, rec))
  <1> DEFINE now == At(st, rec)
             torn == [rec EXCEPT !.id = NoTurn]
  <1>1. Same(st, now) /\ now.pos = st.pos + 1 /\ now \in Known
    BY TimedFields DEF Same
  <1>2. CASE rec.kind = "bad context"
    <2>1. torn \in Records
      BY DEF Records, TurnIds
    <2>2. Use!ReadNext(st, rec) = Use!Unreadable(Use!TurnContext(now, torn))
      BY <1>2, ReadNextIs
    <2> HIDE DEF now, torn
    <2>3. InContext(now, torn.id, Use!TurnContext(now, torn))
      BY <1>1, <2>1, TurnContextFields
    <2> DEFINE begun == Use!TurnContext(now, torn)
    <2>4. /\ begun \in Known /\ begun.pos = st.pos + 1
          /\ begun.ordinal \in {st.ordinal, st.ordinal + 1}
          /\ begun.uses = st.uses /\ begun.bad = st.bad
      BY <1>1, <2>3 DEF InContext, Same
    <2>5. Use!ReadNext(st, rec) = Use!Unreadable(begun)
      BY <2>2
    <2> HIDE DEF begun
    <2> QED
      BY <1>2, <2>4, <2>5, UnreadableFields DEF Torn, BeginsNone
  <1>3. CASE rec.kind # "bad context"
    <2>1. Use!ReadNext(st, rec) = Use!Unreadable(now)
      <3>1. CASE rec.kind = "call"
        <4>1. Use!ReadNext(st, rec) = Use!ToolCall(now, rec)
          BY <3>1, ReadNextIs
        <4> HIDE DEF now
        <4> QED
          BY <3>1, <4>1 DEF Use!ToolCall
      <3>2. CASE rec.kind # "call"
        BY <1>3, <3>2, ReadNextIs
      <3> QED
        BY <3>1, <3>2
    <2> HIDE DEF now
    <2> QED
      BY <1>1, <2>1, UnreadableFields DEF Same, Torn, BeginsNone
  <1> QED
    BY <1>2, <1>3

LEMMA OthersRead ==
  ASSUME NEW st \in Known, NEW rec \in Records, rec.kind \in {"meta", "plain", "other"}
  PROVE  Same(st, Use!ReadNext(st, rec)) /\ Use!ReadNext(st, rec).pos = st.pos + 1
  BY TimedFields, ReadNextIs

\* The key of the uses at this point.
TurnNow(st, t) ==
  IF st.turnId # NoTurn THEN <<"id", st.turnId>>
  ELSE IF st.ordinal > 0 THEN <<"turn-ordinal", st.ordinal>> ELSE <<"timestamp", t>>

Called(st, rec, t, after) ==
  /\ after \in Known /\ after.pos = st.pos + 1
  /\ after.turnId = st.turnId /\ after.ordinal = st.ordinal /\ after.pending = st.pending
  /\ after.bad = st.bad
  /\ after.uses = st.uses \cup
       {[pos |-> st.pos + 1, skill |-> s, turn |-> TurnNow(st, t), epoch |-> t] :
          s \in {x \in Skills : Use!Mentions(rec.words, x)}}

LEMMA CallRead ==
  ASSUME NEW st \in Known, NEW rec \in Records, NEW t \in Int, rec.kind = "call", rec.at = {t}
  PROVE  Called(st, rec, t, Use!ReadNext(st, rec))
  <1> DEFINE now == At(st, rec)
             new == {[pos |-> st.pos + 1, skill |-> s, turn |-> TurnNow(st, t), epoch |-> t] :
                       s \in {x \in Skills : Use!Mentions(rec.words, x)}}
  <1>1. Same(st, now) /\ now.pos = st.pos + 1 /\ now \in Known
    BY TimedFields DEF Same
  <1>2. Use!ReadNext(st, rec) = Use!ToolCall(now, rec)
    BY ReadNextIs
  <1> HIDE DEF now
  <1>3. Use!TurnKey(now, t) = TurnNow(st, t)
    BY <1>1 DEF Use!TurnKey, TurnNow, Same, Known
  <1>4. Use!ToolCall(now, rec) = [now EXCEPT !.uses = @ \cup new]
    <2> DEFINE called == {[pos |-> now.pos, skill |-> s, turn |-> Use!TurnKey(now, u),
                           epoch |-> u] :
                            s \in {x \in Skills : Use!Mentions(rec.words, x)}, u \in rec.at}
    <2>1. Use!ToolCall(now, rec) = [now EXCEPT !.uses = @ \cup called]
      BY DEF Use!ToolCall
    <2>2. called = {[pos |-> now.pos, skill |-> s, turn |-> Use!TurnKey(now, t), epoch |-> t] :
                      s \in {x \in Skills : Use!Mentions(rec.words, x)}}
      OBVIOUS
    <2>3. called = new
      BY <1>1, <1>3, <2>2
    <2> HIDE DEF called, new
    <2> QED
      BY <2>1, <2>3
  <1>5. new \in SUBSET SeenUses
    <2>1. st.pos + 1 \in Nat /\ TurnNow(st, t) \in Turns
      BY DEF Known, TurnNow, Turns, TurnIds
    <2> QED
      BY <2>1 DEF SeenUses
  <1> HIDE DEF new
  <1> DEFINE uses == now.uses \cup new
  <1>6. uses \in SUBSET SeenUses
    BY <1>1, <1>5 DEF Known
  <1>7. Use!ReadNext(st, rec) = [now EXCEPT !.uses = uses]
    BY <1>2, <1>4
  <1>8. uses = st.uses \cup new
    BY <1>1 DEF Same
  <1> HIDE DEF uses
  <1>9. Use!ReadNext(st, rec)
          = [pos |-> now.pos, turnId |-> now.turnId, ordinal |-> now.ordinal,
             pending |-> now.pending, uses |-> uses, firsts |-> now.firsts,
             times |-> now.times, bad |-> now.bad]
    BY <1>1, <1>7 DEF Known
  <1> QED
    BY <1>1, <1>6, <1>8, <1>9 DEF Called, Same, Known, new

-----------------------------------------------------------------------------
(* A tool call, and how a turn begins.                                     *)

LEMMA OwnedManifest ==
  /\ Manifest["owned"] \in Seq(STRING) /\ Len(Manifest["owned"]) \in Nat \ {0}
  /\ Manifest["owned"][1] # "cat"
  /\ \A i \in DOMAIN Elsewhere : Elsewhere[i] # Manifest["owned"][1]
  <1>1. Manifest["owned"] \in Seq(STRING) /\ Manifest["owned"] # << >>
    BY CommandAssumption
  <1>2. Len(Manifest["owned"]) \in Nat \ {0}
    BY <1>1, EmptySeq
  <1>3. Head(Manifest["owned"]) = Manifest["owned"][1]
    BY <1>1, <1>2
  <1> QED
    BY <1>1, <1>2, <1>3, CommandAssumption

LEMMA CommandWords ==
  /\ <<"cat">> \in Seq(Words) /\ Len(<<"cat">>) = 1 /\ <<"cat">>[1] = "cat"
  /\ Manifest["owned"] \in Seq(Words) /\ Elsewhere \in Seq(Words)
  <1>1. STRING \subseteq Words /\ "cat" \in Words
    BY DEF Words
  <1> DEFINE cat == "cat"
  <1>2. cat \in Words
    BY <1>1
  <1> HIDE DEF cat
  <1>3. <<cat>> \in Seq(Words) /\ Len(<<cat>>) = 1 /\ <<cat>>[1] = cat
    BY <1>2
  <1>4. Manifest["owned"] \in Seq(STRING) /\ Elsewhere \in Seq(STRING)
    BY OwnedManifest, CommandAssumption
  <1>5. Manifest["owned"] \in Seq(Words) /\ Elsewhere \in Seq(Words)
    BY <1>1, <1>4, SeqMonotonic
  <1> QED
    BY <1>3, <1>5 DEF cat

LEMMA CallReadsManifest == Use!Mentions(<<"cat">> \o Manifest["owned"], "owned")
  <1> DEFINE m == Manifest["owned"]
             words == <<"cat">> \o m
             n == Len(m)
             part2 == SubSeq(words, 2, 2 + n - 1)
  <1>1. m \in Seq(Words) /\ n \in Nat \ {0}
    BY OwnedManifest, CommandWords
  <1>2. <<"cat">> \in Seq(Words) /\ Len(<<"cat">>) = 1 /\ m \in Seq(Words)
    BY <1>1, CommandWords DEF m
  <1> HIDE DEF m
  <1>3. Len(words) = n + 1 /\ \A i \in 1..n : words[i + 1] = m[i]
    <2>1. /\ Len(words) = 1 + n
          /\ \A i \in 1..(1 + n) : words[i] = IF i <= 1 THEN <<"cat">>[i] ELSE m[i - 1]
      BY <1>1, <1>2, ConcatProperties
    <2> HIDE DEF words, n
    <2>2. ASSUME NEW i \in 1..n PROVE words[i + 1] = m[i]
      <3>1. i + 1 \in 1..(1 + n) /\ ~(i + 1 <= 1) /\ (i + 1) - 1 = i
        BY <1>1
      <3> QED
        BY <2>1, <3>1
    <2> QED
      BY <1>1, <2>1, <2>2
  <1>4. DOMAIN m = 1..n /\ \A i \in 1..n : m[i] \in Words
    BY <1>1, LenProperties, ElementOfSeq
  <1> HIDE DEF words, n
  <1>5. /\ part2 \in Seq(Words)
        /\ Len(part2) = n
        /\ \A i \in 1..n : part2[i] = words[i + 1]
    <2>1. \A i \in 2..(2 + n - 1) : words[i] \in Words
      <3> TAKE i \in 2..(2 + n - 1)
      <3>1. i - 1 \in 1..n /\ (i - 1) + 1 = i
        BY <1>1
      <3> QED
        BY <1>3, <1>4, <3>1
    <2>2. 2 \in Int /\ 2 + n - 1 \in Int /\ 2 <= 2 + n - 1 /\ (2 + n - 1) - 2 + 1 = n
      BY <1>1
    <2>3. /\ part2 \in Seq(Words)
          /\ Len(part2) = IF 2 <= 2 + n - 1 THEN (2 + n - 1) - 2 + 1 ELSE 0
          /\ \A i \in 1..((2 + n - 1) - 2 + 1) : part2[i] = words[2 + i - 1]
      BY <2>1, <2>2, SubSeqProperties
    <2>4. \A i \in 1..n : 2 + i - 1 = i + 1
      BY <1>1
    <2> HIDE DEF part2
    <2> QED
      BY <2>2, <2>3, <2>4
  <1>6. part2 = m
    <2>1. Len(m) = n
      BY DEF n
    <2> HIDE DEF part2
    <2> QED
      BY <1>1, <1>3, <1>5, <2>1, SeqEqual
  <1>7. 2 \in 1..(Len(words) - n + 1) /\ n > 0
    BY <1>1, <1>3
  <1> QED
    BY <1>6, <1>7 DEF Use!Mentions, n, m, words

LEMMA CallElsewhere == ~Use!Mentions(<<"cat">> \o Elsewhere, "owned")
  <1> DEFINE m == Manifest["owned"]
             words == <<"cat">> \o Elsewhere
             n == Len(m)
  <1>1. m \in Seq(Words) /\ n \in Nat \ {0} /\ Elsewhere \in Seq(Words)
    BY OwnedManifest, CommandWords
  <1>2. /\ <<"cat">> \in Seq(Words) /\ Len(<<"cat">>) = 1 /\ <<"cat">>[1] = "cat"
        /\ Elsewhere \in Seq(Words)
    BY CommandWords
  <1>3. Len(words) \in Nat /\ \A i \in 1..Len(words) : words[i] # m[1] /\ words[i] \in Words
    <2>1. /\ Len(words) = 1 + Len(Elsewhere) /\ words \in Seq(Words)
          /\ \A i \in 1..(1 + Len(Elsewhere)) :
               words[i] = IF i <= 1 THEN <<"cat">>[i] ELSE Elsewhere[i - 1]
      BY <1>1, <1>2, ConcatProperties
    <2>2. Len(Elsewhere) \in Nat /\ DOMAIN Elsewhere = 1..Len(Elsewhere)
      BY <1>1, LenProperties
    <2> HIDE DEF words, m, n
    <2>3. ASSUME NEW i \in 1..Len(words) PROVE words[i] # m[1] /\ words[i] \in Words
      <3>1. words[i] \in Words
        BY <2>1, <2>3, ElementOfSeq
      <3>2. CASE i = 1
        <4>1. words[i] = "cat"
          BY <1>2, <2>1, <2>2, <3>2
        <4> QED
          BY <3>1, <4>1, OwnedManifest DEF m
      <3>3. CASE i # 1
        <4>1. i - 1 \in DOMAIN Elsewhere /\ words[i] = Elsewhere[i - 1]
          BY <2>1, <2>2, <3>3
        <4> QED
          BY <3>1, <4>1, OwnedManifest DEF m
      <3> QED
        BY <3>2, <3>3
    <2> QED
      BY <2>1, <2>2, <2>3
  <1> HIDE DEF words, m, n
  <1>4. ASSUME NEW i \in 1..(Len(words) - n + 1) PROVE SubSeq(words, i, i + n - 1) # m
    <2>1. i \in Int /\ i + n - 1 \in Int /\ i \in 1..Len(words)
      BY <1>1, <1>3
    <2>2. \A j \in i..(i + n - 1) : words[j] \in Words
      <3> TAKE j \in i..(i + n - 1)
      <3>1. j \in 1..Len(words)
        BY <1>1, <1>3
      <3> QED
        BY <1>3, <3>1
    <2>3. \A j \in 1..((i + n - 1) - i + 1) : SubSeq(words, i, i + n - 1)[j] = words[i + j - 1]
      BY <2>1, <2>2, SubSeqProperties
    <2>4. 1 \in 1..((i + n - 1) - i + 1) /\ i + 1 - 1 = i
      BY <1>1, <2>1
    <2>5. SubSeq(words, i, i + n - 1)[1] = words[i]
      BY <2>3, <2>4
    <2> QED
      BY <1>3, <2>1, <2>5
  <1> QED
    BY <1>4 DEF Use!Mentions, n, m, words

\* What the beginning of a turn does.
Begun(st, turn, mark, after) ==
  /\ after \in Known /\ after.pos > st.pos
  /\ after.ordinal \in {st.ordinal, st.ordinal + 1}
  /\ after.uses = st.uses
  /\ st.bad \subseteq after.bad /\ after.bad \subseteq st.bad \cup {st.pos + 1}
  /\ after.bad = {} =>
       /\ after.pending <=> Len(mark) = 1 /\ mark[1].kind = "started"
       /\ ~(st.pending /\ mark[1].kind = "context" /\ mark[1].id = NoTurn)
            => /\ after.turnId \in {turn, NoTurn}
               /\ after.turnId = NoTurn => after.ordinal = st.ordinal + 1

ReadMark(st, mark) ==
  IF Len(mark) = 1 THEN Use!ReadNext(st, mark[1])
  ELSE Use!ReadNext(Use!ReadNext(st, mark[1]), mark[2])

LEMMA TurnBegins ==
  ASSUME seen \in Known, NEW turn \in Nat, NEW mark \in Use!Marks(turn)
  PROVE  Begun(seen, turn, mark, ReadMark(seen, mark))
  <1> DEFINE ids == {turn, NoTurn}
             rec(kind, id) == Use!Record(kind, id, << >>)
  <1>1. /\ seen.pos \in Nat /\ seen.ordinal \in Nat /\ seen.pending \in BOOLEAN
        /\ seen.turnId \in TurnIds
    BY DEF Known
  <1>2. ASSUME NEW kind \in Use!LoneMarks, NEW id \in ids
        PROVE  rec(kind, id) \in Records /\ rec(kind, id).kind = kind /\ rec(kind, id).id = id
    <2>1. {seen.pos + 1} \in SUBSET Int
      BY <1>1
    <2>2. << >> \in Seq(Words)
      BY EmptySeq
    <2> QED
      BY <2>1, <2>2 DEF Use!LoneMarks, Use!Record, Records, TurnIds, Use!RecordKinds
  <1>3. \/ \E i, j \in ids : mark = <<rec("started", i), rec("context", j)>>
        \/ \E kind \in Use!LoneMarks, i \in ids : mark = <<rec(kind, i)>>
    <2> DEFINE pairs == {<<Use!Record("started", i, << >>), Use!Record("context", j, << >>)>> :
                           i, j \in ids}
               lone == {<<Use!Record(kind, i, << >>)>> : kind \in Use!LoneMarks, i \in ids}
    <2>1. mark \in pairs \/ mark \in lone
      BY SMT DEF Use!Marks
    <2>2. mark \in pairs => \E i, j \in ids : mark = <<rec("started", i), rec("context", j)>>
      OBVIOUS
    <2>3. mark \in lone => \E kind \in Use!LoneMarks, i \in ids : mark = <<rec(kind, i)>>
      OBVIOUS
    <2> HIDE DEF rec, pairs, lone
    <2> QED
      BY <2>1, <2>2, <2>3
  <1> HIDE DEF rec
  <1>4. ASSUME NEW i \in ids, NEW j \in ids, mark = <<rec("started", i), rec("context", j)>>
        PROVE  Begun(seen, turn, mark, ReadMark(seen, mark))
    <2> DEFINE r1 == rec("started", i)
               r2 == rec("context", j)
               middle == Use!ReadNext(seen, r1)
               after == Use!ReadNext(middle, r2)
    <2>1. Len(mark) = 2 /\ mark[1] = r1 /\ mark[2] = r2
      BY <1>4
    <2>2. /\ r1 \in Records /\ r1.kind = "started" /\ r1.id = i
          /\ r2 \in Records /\ r2.kind = "context" /\ r2.id = j
      <3>1. "started" \in Use!LoneMarks /\ "context" \in Use!LoneMarks
        BY DEF Use!LoneMarks
      <3> HIDE DEF rec
      <3> QED
        BY <1>2, <3>1, Zenon
    <2> HIDE DEF r1, r2
    <2>3. Started(seen, r1, middle)
      BY <2>2, StartedRead
    <2>4. middle \in Known
      BY <2>3 DEF Started
    <2> HIDE DEF middle
    <2>5. Contextual(middle, r2, after)
      BY <2>2, <2>4, ContextRead
    <2>6. ReadMark(seen, mark) = after
      BY <2>1 DEF ReadMark, middle
    <2> HIDE DEF after
    <2>7. /\ after \in Known /\ after.pos > seen.pos /\ after.uses = seen.uses
          /\ after.bad = seen.bad /\ after.ordinal = seen.ordinal + 1
          /\ after.pending = FALSE
      BY <1>1, <2>3, <2>4, <2>5 DEF Started, Contextual, Known
    <2>8. after.turnId \in ids
      BY <2>2, <2>3, <2>5 DEF Started, Contextual
    <2> QED
      BY <2>1, <2>2, <2>6, <2>7, <2>8 DEF Begun
  <1>5. ASSUME NEW kind \in Use!LoneMarks, NEW i \in ids,
               mark = <<rec(kind, i)>>
        PROVE  Begun(seen, turn, mark, ReadMark(seen, mark))
    <2> DEFINE r1 == rec(kind, i)
               after == Use!ReadNext(seen, r1)
    <2>1. Len(mark) = 1 /\ mark[1] = r1
      BY <1>5
    <2>2. r1 \in Records /\ r1.kind = kind /\ r1.id = i
      BY <1>2
    <2> HIDE DEF r1
    <2>3. ReadMark(seen, mark) = after
      BY <2>1 DEF ReadMark
    <2>4. CASE kind = "started"
      <3>1. Started(seen, r1, after)
        BY <2>2, <2>4, StartedRead
      <3> HIDE DEF after
      <3> QED
        BY <1>1, <2>1, <2>2, <2>3, <2>4, <3>1 DEF Started, Begun
    <2>5. CASE kind = "context"
      <3>1. Contextual(seen, r1, after)
        BY <2>2, <2>5, ContextRead
      <3> HIDE DEF after
      <3>2. after.turnId \in ids \/ (seen.pending /\ i = NoTurn)
        BY <2>2, <3>1 DEF Contextual
      <3> QED
        BY <1>1, <2>1, <2>2, <2>3, <2>5, <3>1, <3>2 DEF Contextual, Begun
    <2>6. CASE kind = "bad context"
      <3>1. Torn(seen, after)
        BY <2>2, <2>6, TornRead
      <3> HIDE DEF after
      <3> QED
        BY <1>1, <2>3, <3>1 DEF Torn, Begun
    <2> QED
      BY <2>4, <2>5, <2>6 DEF Use!LoneMarks
  <1> QED
    BY <1>3, <1>4, <1>5

-----------------------------------------------------------------------------
(* The clock is read first, and is whatever it may be.                     *)

\* The clock's time is one of those assumed until it is read.
Unread == part = "skills" /\ pc = "clock" => world.stamp \in Stamps

\* The dates of a report and the epochs of the records are those of the calendar,
\* counted day by day, for every date of four digits, with any offset; only an
\* offset that leads beyond these years is not written back as it was read.
THEOREM DatesAreCounted == Spec => []DatesAgree
  <1>1. Init => Unread
    BY DEF Init, Use!Init, Unread
  <1>2. Unread /\ [Next]_vars => Unread'
    <2> SUFFICES ASSUME Unread, [Next]_vars, part' = "skills", pc' = "clock"
                 PROVE  world'.stamp \in Stamps
      BY DEF Unread
    <2>1. CASE Inspect
      <3>1. Use!Next
        BY <2>1 DEF Inspect
      <3> QED
        BY <3>1, Zenon DEF Use!Next, Use!ReadClock, Use!BeginTurn, Use!CallTool,
           Use!OtherRecord, Use!Report
    <2>2. CASE Render \/ UNCHANGED vars
      BY <2>2 DEF Render, vars, Unread
    <2> QED
      BY <2>1, <2>2 DEF Next
  <1>3. Unread => DatesAgree
    BY StampAgrees, CommandAssumption DEF Unread, DatesAgree, Use!DatesAgree
  <1> QED
    BY <1>1, <1>2, <1>3, PTL DEF Spec

-----------------------------------------------------------------------------
(* `gr inspect codex skills`: the uses are counted by the turns they are   *)
(* seen in, and the turns of the task by their keys.                       *)

\* Retaining the first use of every key retains as many as there are keys.
LEMMA RetainedTurns ==
  ASSUME NEW S,
         \A u \in S : u.pos \in Nat /\ u.rollout = 1,
         \A u, v \in S : u.pos = v.pos => u = v,
         IsFiniteSet({u.turn : u \in S})
  PROVE  Cardinality(Use!Retained(S)) = Cardinality({u.turn : u \in S})
  <1> DEFINE kept == Use!Retained(S)
             turns == {u.turn : u \in S}
             f == [u \in kept |-> u.turn]
  <1>1. kept \subseteq S /\ \A u \in kept, v \in S : v.turn = u.turn => u.pos <= v.pos
    BY DEF Use!Retained
  <1>2. \A t \in turns : \E u \in kept : u.turn = t
    <2> TAKE t \in turns
    <2> DEFINE places == {u.pos : u \in {v \in S : v.turn = t}}
    <2>1. places \in SUBSET Nat /\ places # {}
      OBVIOUS
    <2> HIDE DEF places
    <2>2. PICK p \in places : \A q \in places : p <= q
      BY <2>1, Evidence!LeastNumber, CommandAssumption
    <2>3. PICK u \in S : u.turn = t /\ u.pos = p
      BY <2>2 DEF places
    <2>4. \A v \in S : v.turn = t => v.pos \in places
      BY DEF places
    <2>5. u \in kept
      BY <2>2, <2>3, <2>4 DEF Use!Retained
    <2> QED
      BY <2>3, <2>5
  <1>3. \A u, v \in kept : u.turn = v.turn => u = v
    <2> TAKE u, v \in kept
    <2> HAVE u.turn = v.turn
    <2>1. u.pos <= v.pos /\ v.pos <= u.pos /\ u.pos \in Nat /\ v.pos \in Nat
      BY <1>1
    <2> HIDE DEF kept
    <2> QED
      BY <1>1, <2>1
  <1>4. \A u \in kept : u.turn \in turns
    BY <1>1
  <1> HIDE DEF kept, turns
  <1>5. f \in Injection(kept, turns) /\ f \in Surjection(kept, turns)
    BY <1>2, <1>3, <1>4 DEF Injection, Surjection, IsInjective
  <1> QED
    BY <1>5, FS_Injection DEF kept, turns

Owned(st) == {u \in st.uses : u.skill = "owned"}
Keys(st) == {u.turn : u \in Owned(st)}

\* The uses by their places.
Placed(st) ==
  /\ st \in Known
  /\ \A u \in st.uses : u.pos <= st.pos
  /\ \A u, v \in Owned(st) : u.pos = v.pos => u = v

LEMMA CallKeys ==
  ASSUME NEW st, NEW rec, NEW t \in Int, NEW after, Placed(st), Called(st, rec, t, after)
  PROVE  /\ Placed(after)
         /\ Use!Mentions(rec.words, "owned") => Keys(after) = Keys(st) \cup {TurnNow(st, t)}
         /\ ~Use!Mentions(rec.words, "owned") => Keys(after) = Keys(st)
  <1> DEFINE use(s) == [pos |-> st.pos + 1, skill |-> s, turn |-> TurnNow(st, t), epoch |-> t]
             reads == Use!Mentions(rec.words, "owned")
  <1>1. /\ after \in Known /\ after.pos = st.pos + 1 /\ st.pos \in Nat
        /\ after.uses = st.uses \cup {use(s) : s \in {x \in Skills : Use!Mentions(rec.words, x)}}
    BY DEF Called, Placed, Known
  <1>2. "owned" \in Skills
    BY CommandAssumption
  <1>3. \A s \in Skills : use(s).skill = s /\ use(s).pos = st.pos + 1
                          /\ use(s).turn = TurnNow(st, t)
    OBVIOUS
  <1>4. Owned(after) = Owned(st) \cup (IF reads THEN {use("owned")} ELSE {})
    <2> HIDE DEF use
    <2> QED
      BY <1>1, <1>2, <1>3 DEF Owned
  <1>5. \A u \in Owned(st) : u.pos <= st.pos /\ u.pos \in Nat
    BY DEF Placed, Owned, Known, SeenUses
  <1>6. \A u \in after.uses : u.pos <= after.pos
    <2> HIDE DEF use
    <2>1. \A u \in st.uses : u.pos \in Nat /\ u.pos <= st.pos
      BY DEF Placed, Known, SeenUses
    <2> QED
      BY <1>1, <1>3, <2>1
  <1> HIDE DEF use, reads
  <1>7. \A u, v \in Owned(after) : u.pos = v.pos => u = v
    <2>1. \A u, v \in Owned(st) : u.pos = v.pos => u = v
      BY DEF Placed
    <2> QED
      BY <1>1, <1>2, <1>3, <1>4, <1>5, <2>1
  <1>8. Placed(after)
    BY <1>1, <1>6, <1>7 DEF Placed
  <1>9. reads => Keys(after) = Keys(st) \cup {TurnNow(st, t)}
    BY <1>2, <1>3, <1>4 DEF Keys
  <1>10. ~reads => Keys(after) = Keys(st)
    BY <1>4 DEF Keys
  <1> QED
    BY <1>8, <1>9, <1>10 DEF reads

\* What is known against what Codex did.  A turn has a key of its own, which no
\* use of an earlier turn has, and it is in use once the turn has read the skill.
Counted(st, w) ==
  /\ st.pending <=> w.bare
  /\ w.turns = 0 => Keys(st) = {}
  /\ w.turns > 0 => st.turnId \in {w.turns, NoTurn} /\ (st.turnId = NoTurn => st.ordinal > 0)
  /\ \A key \in Keys(st) :
       \/ \E i \in Nat : i <= w.turns /\ key = <<"id", i>>
       \/ \E o \in Nat : o <= st.ordinal /\ key = <<"turn-ordinal", o>>
  /\ w.turns > 0 => (TurnNow(st, 0) \in Keys(st) <=> w.turns \in w.readIn)
  /\ IsFiniteSet(Keys(st)) /\ Cardinality(Keys(st)) = Cardinality(w.readIn)

World == [stamp : Stamps \cup {Use!NoStamp}, turns : Nat, calls : Nat, bare : BOOLEAN,
          readIn : SUBSET Nat]

\* readIn holds turns that there were.
Happened(w) ==
  /\ w \in World /\ w.turns <= MaxTurns /\ w.calls <= MaxCalls
  /\ \A i \in w.readIn : 1 <= i /\ i <= w.turns

LEMMA TurnsAreFinite ==
  ASSUME NEW w, Happened(w)
  PROVE  IsFiniteSet(w.readIn) /\ Cardinality(w.readIn) \in Nat
  <1>1. w.readIn \subseteq 1..w.turns /\ w.turns \in Nat
    BY DEF Happened, World
  <1>2. IsFiniteSet(1..w.turns)
    BY <1>1, FS_Interval
  <1>3. IsFiniteSet(w.readIn)
    BY <1>1, <1>2, FS_Subset
  <1> QED
    BY <1>3, FS_CardinalityType

BeganTurn(w, mark, w2) ==
  /\ w2 \in World /\ w2.turns = w.turns + 1 /\ w2.readIn = w.readIn
  /\ w2.bare <=> Len(mark) = 1 /\ mark[1].kind = "started"

LEMMA BeginCounted ==
  ASSUME NEW st, NEW w, NEW mark, NEW after, NEW w2,
         Placed(st), Happened(w), Counted(st, w), BeganTurn(w, mark, w2),
         Begun(st, w.turns + 1, mark, after), after.bad = {},
         ~(w.bare /\ mark[1].kind = "context" /\ mark[1].id = NoTurn)
  PROVE  Counted(after, w2)
  <1>1. w.turns \in Nat /\ st.ordinal \in Nat /\ w2.turns = w.turns + 1
    BY DEF Happened, World, Placed, Known, BeganTurn
  <1>2. /\ after.ordinal \in {st.ordinal, st.ordinal + 1} /\ after.uses = st.uses
        /\ after.pending <=> w2.bare
        /\ after.turnId \in {w2.turns, NoTurn}
        /\ after.turnId = NoTurn => after.ordinal = st.ordinal + 1
    BY <1>1 DEF Begun, BeganTurn, Counted
  <1>3. Keys(after) = Keys(st)
    BY <1>2 DEF Keys, Owned
  <1>4. \A key \in Keys(after) :
          \/ \E i \in Nat : i <= w.turns /\ key = <<"id", i>>
          \/ \E o \in Nat : o <= st.ordinal /\ key = <<"turn-ordinal", o>>
    BY <1>3 DEF Counted
  <1>5. TurnNow(after, 0) \notin Keys(after)
    <2>1. CASE after.turnId = NoTurn
      <3>1. TurnNow(after, 0) = <<"turn-ordinal", st.ordinal + 1>>
        BY <1>1, <1>2, <2>1 DEF TurnNow
      <3> QED
        BY <1>1, <1>4, <3>1
    <2>2. CASE after.turnId # NoTurn
      <3>1. TurnNow(after, 0) = <<"id", w.turns + 1>>
        BY <1>1, <1>2, <2>2 DEF TurnNow
      <3> QED
        BY <1>1, <1>4, <3>1
    <2> QED
      BY <2>1, <2>2
  <1>6. w2.turns \notin w2.readIn
    BY <1>1 DEF Happened, BeganTurn
  <1>7. \A key \in Keys(after) :
          \/ \E i \in Nat : i <= w2.turns /\ key = <<"id", i>>
          \/ \E o \in Nat : o <= after.ordinal /\ key = <<"turn-ordinal", o>>
    <2> SUFFICES ASSUME NEW key \in Keys(after)
                 PROVE  \/ \E i \in Nat : i <= w2.turns /\ key = <<"id", i>>
                        \/ \E o \in Nat : o <= after.ordinal /\ key = <<"turn-ordinal", o>>
      OBVIOUS
    <2>1. \A i \in Nat : i <= w.turns => i <= w2.turns
      BY <1>1
    <2>2. \A o \in Nat : o <= st.ordinal => o <= after.ordinal
      BY <1>1, <1>2
    <2> QED
      BY <1>4, <2>1, <2>2
  <1>8. IsFiniteSet(Keys(after)) /\ Cardinality(Keys(after)) = Cardinality(w2.readIn)
    BY <1>3 DEF Counted, BeganTurn
  <1> QED
    BY <1>1, <1>2, <1>5, <1>6, <1>7, <1>8 DEF Counted

CalledTool(w, reads, w2) ==
  /\ w2 \in World /\ w2.turns = w.turns /\ w2.bare = w.bare
  /\ w2.readIn = IF reads THEN w.readIn \cup {w.turns} ELSE w.readIn

LEMMA CallCounted ==
  ASSUME NEW st, NEW w, NEW rec, NEW t \in Int, NEW reads \in BOOLEAN, NEW after, NEW w2,
         Placed(st), Happened(w), Counted(st, w), w.turns > 0,
         Called(st, rec, t, after), reads <=> Use!Mentions(rec.words, "owned"),
         CalledTool(w, reads, w2)
  PROVE  Counted(after, w2)
  <1> DEFINE key == TurnNow(st, 0)
  <1>1. /\ w.turns \in Nat /\ st.ordinal \in Nat /\ w2.turns = w.turns
        /\ IsFiniteSet(w.readIn)
    BY TurnsAreFinite DEF Happened, World, Placed, Known, CalledTool
  <1>2. /\ after.turnId = st.turnId /\ after.ordinal = st.ordinal /\ after.pending = st.pending
    BY DEF Called
  <1>3. /\ st.turnId \in {w.turns, NoTurn} /\ (st.turnId = NoTurn => st.ordinal > 0)
        /\ st.pending <=> w2.bare
        /\ key \in Keys(st) <=> w.turns \in w.readIn
        /\ IsFiniteSet(Keys(st)) /\ Cardinality(Keys(st)) = Cardinality(w.readIn)
    BY DEF Counted, CalledTool
  <1>4. TurnNow(st, t) = key /\ TurnNow(after, 0) = key
    BY <1>2, <1>3 DEF TurnNow
  <1>5. Keys(after) = IF reads THEN Keys(st) \cup {key} ELSE Keys(st)
    BY <1>4, CallKeys
  <1>6. \/ key = <<"id", w.turns>>
        \/ key = <<"turn-ordinal", st.ordinal>>
    BY <1>3 DEF TurnNow
  <1> HIDE DEF key
  <1>7. \A k \in Keys(after) :
          \/ \E i \in Nat : i <= w2.turns /\ k = <<"id", i>>
          \/ \E o \in Nat : o <= after.ordinal /\ k = <<"turn-ordinal", o>>
    <2>1. \A k \in Keys(st) :
            \/ \E i \in Nat : i <= w2.turns /\ k = <<"id", i>>
            \/ \E o \in Nat : o <= after.ordinal /\ k = <<"turn-ordinal", o>>
      BY <1>1, <1>2 DEF Counted
    <2>2. w.turns <= w2.turns /\ st.ordinal <= after.ordinal
      BY <1>1, <1>2
    <2> QED
      BY <1>1, <1>5, <1>6, <2>1, <2>2
  <1>8. TurnNow(after, 0) \in Keys(after) <=> w2.turns \in w2.readIn
    BY <1>1, <1>3, <1>4, <1>5 DEF CalledTool
  <1>9. IsFiniteSet(Keys(after)) /\ Cardinality(Keys(after)) = Cardinality(w2.readIn)
    <2>1. CASE ~reads
      BY <1>3, <1>5, <2>1 DEF CalledTool
    <2>2. CASE reads
      <3>1. Keys(after) = Keys(st) \cup {key} /\ w2.readIn = w.readIn \cup {w.turns}
        BY <1>5, <2>2 DEF CalledTool
      <3>2. /\ IsFiniteSet(Keys(st) \cup {key})
            /\ Cardinality(Keys(st) \cup {key}) =
                 IF key \in Keys(st) THEN Cardinality(Keys(st)) ELSE Cardinality(Keys(st)) + 1
        BY <1>3, FS_AddElement
      <3>3. Cardinality(w.readIn \cup {w.turns}) =
              IF w.turns \in w.readIn THEN Cardinality(w.readIn) ELSE Cardinality(w.readIn) + 1
        BY <1>1, FS_AddElement
      <3> QED
        BY <1>3, <3>1, <3>2, <3>3
    <2> QED
      BY <2>1, <2>2
  <1> QED
    BY <1>1, <1>2, <1>3, <1>7, <1>8, <1>9 DEF Counted

LEMMA SameCounted ==
  ASSUME NEW st, NEW w, NEW after, Counted(st, w), Same(st, after)
  PROVE  Counted(after, w)
  <1>1. Keys(after) = Keys(st)
    BY DEF Same, Keys, Owned
  <1>2. TurnNow(after, 0) = TurnNow(st, 0)
    BY DEF Same, TurnNow
  <1> QED
    BY <1>1, <1>2 DEF Counted, Same

\* The count of an assessment is the number of the keys.
LEMMA CountedUses ==
  ASSUME Placed(seen), IsFiniteSet(Keys(seen))
  PROVE  Use!Assessed.items["owned"].count = Cardinality(Keys(seen))
  <1> DEFINE evidence == {[rollout |-> 1, pos |-> u.pos, skill |-> u.skill, turn |-> u.turn,
                           epoch |-> u.epoch] : u \in seen.uses}
             owned == {u \in evidence : u.skill = "owned"}
  <1>1. Use!Assessed.items["owned"].count = Use!Cardinality(Use!Retained(owned))
    BY DEF Use!Assessed, Use!Assess, Use!Item
  <1>2. owned = {[rollout |-> 1, pos |-> u.pos, skill |-> u.skill, turn |-> u.turn,
                  epoch |-> u.epoch] : u \in Owned(seen)}
    BY DEF Owned
  <1> HIDE DEF evidence, owned
  <1>3. {u.turn : u \in owned} = Keys(seen)
    <2> DEFINE copy(u) == [rollout |-> 1, pos |-> u.pos, skill |-> u.skill, turn |-> u.turn,
                           epoch |-> u.epoch]
    <2>1. \A u \in Owned(seen) : copy(u).turn = u.turn
      OBVIOUS
    <2>2. owned = {copy(u) : u \in Owned(seen)}
      BY <1>2
    <2> HIDE DEF copy
    <2>3. {u.turn : u \in owned} = {u.turn : u \in Owned(seen)}
      BY <2>1, <2>2
    <2> QED
      BY <2>3 DEF Keys
  <1>4. \A u \in Owned(seen) : u.pos \in Nat
    BY DEF Placed, Owned, Known, SeenUses
  <1>5. \A u \in owned : u.pos \in Nat /\ u.rollout = 1
    BY <1>2, <1>4
  <1>6. \A u, v \in owned : u.pos = v.pos => u = v
    BY <1>2 DEF Placed
  <1>7. Cardinality(Use!Retained(owned)) = Cardinality(Keys(seen))
    BY <1>3, <1>5, <1>6, RetainedTurns
  <1> QED
    BY <1>1, <1>7, SameCardinality

\* What is known, whatever has been read.
Numbered(st, w) ==
  /\ Placed(st) /\ Happened(w)
  /\ \A b \in st.bad : 1 <= b /\ b <= st.pos
  /\ st.ordinal <= w.turns
  /\ st.bad = {} => Counted(st, w)

SkillsInv ==
  /\ pc \in {"clock", "log", "done"}
  /\ Numbered(seen, world)
  /\ pc # "done" => outcome = NoOutcome
  /\ pc = "done" =>
       outcome = Concluded(IF Use!Assessed.verdict = "baseline_ok"
                           THEN "BASELINE_OK" ELSE "REVIEW", "report")

LEMMA SkillsBegin == ASSUME Use!Init PROVE SkillsInv
  <1>1. /\ seen = [pos |-> 0, turnId |-> NoTurn, ordinal |-> 0, pending |-> FALSE,
                   uses |-> {}, firsts |-> {}, times |-> {}, bad |-> {}]
        /\ pc = "clock" /\ outcome = NoOutcome
        /\ world \in [stamp : Stamps, turns : {0}, calls : {0}, bare : {FALSE}, readIn : {{}}]
    BY DEF Use!Init, Use!BeforeRecords, Use!NoOutcome, NoOutcome, Use!Concluded, Concluded
  <1>2. seen \in Known
    BY <1>1 DEF Known, TurnIds
  <1>3. Placed(seen) /\ Keys(seen) = {}
    BY <1>1, <1>2 DEF Placed, Owned, Keys
  <1>4. /\ world \in World /\ world.turns = 0 /\ world.calls = 0 /\ world.bare = FALSE
        /\ world.readIn = {}
    <2>1. PICK s \in Stamps : world = [stamp |-> s, turns |-> 0, calls |-> 0, bare |-> FALSE,
                                      readIn |-> {}]
      BY <1>1
    <2> QED
      BY <2>1 DEF World
  <1>5. Happened(world)
    BY <1>4, CommandAssumption DEF Happened
  <1>6. Counted(seen, world)
    BY <1>1, <1>3, <1>4, FS_EmptySet DEF Counted
  <1>7. /\ \A b \in seen.bad : 1 <= b /\ b <= seen.pos
        /\ seen.ordinal <= world.turns
    <2>1. seen.bad = {} /\ seen.ordinal = 0
      BY <1>1
    <2> QED
      BY <1>4, <2>1
  <1>8. Numbered(seen, world)
    BY <1>3, <1>5, <1>6, <1>7 DEF Numbered
  <1> QED
    BY <1>1, <1>8 DEF SkillsInv

LEMMA ClockKeeps == ASSUME SkillsInv, Use!ReadClock PROVE SkillsInv'
  <1>1. /\ pc' = "log" /\ outcome' = outcome /\ pc = "clock"
        /\ seen' = seen /\ world' = [world EXCEPT !.stamp = Use!NoStamp]
    BY DEF Use!ReadClock
  <1>2. world \in World
    BY DEF SkillsInv, Numbered, Happened
  <1> DEFINE stamp == Use!NoStamp
  <1>3. stamp \in Stamps \cup {Use!NoStamp} /\ world' = [world EXCEPT !.stamp = stamp]
    BY <1>1
  <1> HIDE DEF stamp
  <1>4. /\ world' \in World /\ world'.turns = world.turns /\ world'.calls = world.calls
        /\ world'.bare = world.bare /\ world'.readIn = world.readIn
    BY <1>2, <1>3 DEF World
  <1>5. Happened(world')
    BY <1>4 DEF SkillsInv, Numbered, Happened
  <1>6. Counted(seen, world) => Counted(seen, world')
    BY <1>4 DEF Counted
  <1>7. Numbered(seen', world')
    BY <1>1, <1>4, <1>5, <1>6 DEF SkillsInv, Numbered
  <1> QED
    BY <1>1, <1>7 DEF SkillsInv

\* An action of the log leaves the outcome.
Logs == pc = "log" /\ pc' = "log" /\ outcome' = outcome

LEMMA LogKeeps ==
  ASSUME SkillsInv, Logs, Numbered(seen', world')
  PROVE  SkillsInv'
  BY DEF SkillsInv, Logs

LEMMA BeginKeeps == ASSUME SkillsInv, Use!BeginTurn PROVE SkillsInv'
  <1>1. PICK mark \in Use!Marks(world.turns + 1) :
          /\ ~Use!Mistaken(mark)
          /\ seen' = ReadMark(seen, mark)
          /\ world' = [world EXCEPT !.turns = @ + 1, !.calls = 0,
                                    !.bare = Len(mark) = 1 /\ mark[1].kind = "started"]
    BY DEF Use!BeginTurn, ReadMark
  <1>2. /\ Logs /\ world.turns < MaxTurns
        /\ Placed(seen) /\ seen \in Known /\ Happened(world) /\ world \in World
        /\ world.turns \in Nat /\ seen.ordinal \in Nat /\ seen.pos \in Nat
        /\ world.turns + 1 \in Nat
        /\ seen.ordinal <= world.turns
    BY DEF Use!BeginTurn, Logs, SkillsInv, Numbered, Placed, Happened, World, Known
  <1>3. Begun(seen, world.turns + 1, mark, seen')
    BY <1>1, <1>2, TurnBegins
  <1>4. BeganTurn(world, mark, world') /\ Happened(world')
    <2> DEFINE turns == world.turns + 1
               bare == Len(mark) = 1 /\ mark[1].kind = "started"
               bit == IF bare THEN TRUE ELSE FALSE
    <2>1. turns \in Nat /\ turns = world.turns + 1 /\ turns <= MaxTurns /\ MaxTurns \in Nat
          /\ 0 <= MaxCalls /\ MaxCalls \in Nat
      BY <1>2, CommandAssumption
    <2>2. world' = [world EXCEPT !.turns = turns, !.calls = 0, !.bare = bit]
      <3>1. world' = [world EXCEPT !.turns = turns, !.calls = 0, !.bare = bare]
        BY <1>1
      <3>2. bit = bare
        OBVIOUS
      <3> QED
        BY <3>1, <3>2, Zenon
    <2>3. bit \in BOOLEAN /\ (bit <=> bare)
      OBVIOUS
    <2> HIDE DEF turns, bit
    <2>4. world' = [stamp |-> world.stamp, turns |-> turns, calls |-> 0, bare |-> bit,
                    readIn |-> world.readIn]
      BY <1>2, <2>2 DEF World
    <2>5. /\ world' \in World /\ world'.turns = turns /\ world'.calls = 0
          /\ world'.bare = bit /\ world'.readIn = world.readIn
      BY <1>2, <2>1, <2>3, <2>4 DEF World
    <2>6. \A i \in world'.readIn : 1 <= i /\ i <= world'.turns
      <3> TAKE i \in world'.readIn
      <3>1. i \in world.readIn /\ i \in Nat
        BY <1>2, <2>5 DEF World
      <3>2. 1 <= i /\ i <= world.turns
        BY <1>2, <3>1 DEF Happened
      <3> QED
        BY <1>2, <2>1, <2>5, <3>1, <3>2
    <2> QED
      BY <2>1, <2>3, <2>5, <2>6 DEF BeganTurn, Happened
  <1>5. Placed(seen')
    <2>1. \A u \in seen.uses : u.pos \in Nat /\ u.pos <= seen.pos
      BY <1>2 DEF Placed, Known, SeenUses
    <2>2. seen' \in Known /\ seen'.uses = seen.uses /\ seen'.pos > seen.pos /\ seen'.pos \in Nat
      BY <1>3 DEF Begun, Known
    <2>3. \A u \in seen'.uses : u.pos <= seen'.pos
      BY <1>2, <2>1, <2>2
    <2>4. Owned(seen') = Owned(seen)
      BY <2>2 DEF Owned
    <2> QED
      BY <1>2, <2>2, <2>3, <2>4 DEF Placed
  <1>6. \A b \in seen'.bad : 1 <= b /\ b <= seen'.pos
    <2>1. /\ seen'.bad \subseteq seen.bad \cup {seen.pos + 1} /\ seen.bad \in SUBSET Nat
          /\ seen'.pos > seen.pos /\ seen'.pos \in Nat
      BY <1>2, <1>3 DEF Begun, Known
    <2>2. \A b \in seen.bad : 1 <= b /\ b <= seen.pos
      BY DEF SkillsInv, Numbered
    <2> QED
      BY <1>2, <2>1, <2>2
  <1>7. seen'.ordinal <= world'.turns
    BY <1>2, <1>3, <1>4 DEF Begun, BeganTurn
  <1>8. seen'.bad = {} => Counted(seen', world')
    <2> HAVE seen'.bad = {}
    <2>1. Counted(seen, world)
      BY <1>3 DEF Begun, SkillsInv, Numbered
    <2>2. ~(world.bare /\ mark[1].kind = "context" /\ mark[1].id = NoTurn)
      BY <1>1 DEF Use!Mistaken
    <2> QED
      BY <1>2, <1>3, <1>4, <2>1, <2>2, BeginCounted
  <1>9. Numbered(seen', world')
    BY <1>4, <1>5, <1>6, <1>7, <1>8 DEF Numbered
  <1> QED
    BY <1>2, <1>9, LogKeeps

LEMMA CallKeeps == ASSUME SkillsInv, Use!CallTool PROVE SkillsInv'
  <1>1. PICK reads \in BOOLEAN :
          /\ seen' = Use!ReadNext(seen, Use!Record("call", NoTurn, <<"cat">> \o
                       (IF reads THEN Manifest["owned"] ELSE Elsewhere)))
          /\ world' = [world EXCEPT !.calls = @ + 1,
                                    !.readIn = IF reads THEN @ \cup {world.turns} ELSE @]
    BY DEF Use!CallTool
  <1> DEFINE path == IF reads THEN Manifest["owned"] ELSE Elsewhere
             words == <<"cat">> \o path
             rec == Use!Record("call", NoTurn, words)
             t == seen.pos + 1
  <1>2. /\ Logs /\ world.turns > 0 /\ world.calls < MaxCalls
        /\ Placed(seen) /\ seen \in Known /\ Happened(world) /\ world \in World
        /\ world.turns \in Nat /\ world.calls \in Nat /\ seen.pos \in Nat /\ t \in Int
        /\ seen.ordinal <= world.turns
    BY DEF Use!CallTool, Logs, SkillsInv, Numbered, Placed, Happened, World, Known
  <1>3. words \in Seq(Words)
    <2>1. path \in Seq(Words) /\ <<"cat">> \in Seq(Words)
      BY CommandWords
    <2> HIDE DEF path
    <2> QED
      BY <2>1, ConcatProperties
  <1>4. reads <=> Use!Mentions(words, "owned")
    BY CallReadsManifest, CallElsewhere
  <1>5. seen' = Use!ReadNext(seen, rec)
    BY <1>1
  <1> HIDE DEF words
  <1>6. rec \in Records /\ rec.kind = "call" /\ rec.at = {t} /\ rec.words = words
    BY <1>2, <1>3 DEF Use!Record, Records, TurnIds, Use!RecordKinds
  <1> HIDE DEF rec, t
  <1>7. Called(seen, rec, t, seen')
    BY <1>2, <1>5, <1>6, CallRead
  <1>8. Placed(seen')
    BY <1>2, <1>7, CallKeys
  <1>9. CalledTool(world, reads, world') /\ Happened(world')
    <2> DEFINE calls == world.calls + 1
               readIn == IF reads THEN world.readIn \cup {world.turns} ELSE world.readIn
    <2>1. world' = [world EXCEPT !.calls = calls, !.readIn = readIn]
      BY <1>1
    <2>2. /\ calls \in Nat /\ calls <= MaxCalls /\ readIn \in SUBSET Nat
          /\ readIn = IF reads THEN world.readIn \cup {world.turns} ELSE world.readIn
      BY <1>2, CommandAssumption DEF World
    <2> HIDE DEF calls, readIn
    <2>3. world' = [stamp |-> world.stamp, turns |-> world.turns, calls |-> calls,
                    bare |-> world.bare, readIn |-> readIn]
      BY <1>2, <2>1 DEF World
    <2>4. /\ world' \in World /\ world'.turns = world.turns /\ world'.calls = calls
          /\ world'.bare = world.bare /\ world'.readIn = readIn
      BY <1>2, <2>2, <2>3 DEF World
    <2>5. \A i \in world'.readIn : 1 <= i /\ i <= world'.turns
      BY <1>2, <2>2, <2>4 DEF Happened
    <2> QED
      BY <1>2, <2>2, <2>4, <2>5 DEF CalledTool, Happened
  <1>10. \A b \in seen'.bad : 1 <= b /\ b <= seen'.pos
    <2>1. seen'.bad = seen.bad /\ seen'.pos = seen.pos + 1 /\ seen.bad \in SUBSET Nat
      BY <1>2, <1>7 DEF Called, Known
    <2>2. \A b \in seen.bad : 1 <= b /\ b <= seen.pos
      BY DEF SkillsInv, Numbered
    <2> QED
      BY <1>2, <2>1, <2>2
  <1>11. seen'.ordinal <= world'.turns
    BY <1>2, <1>7, <1>9 DEF Called, CalledTool
  <1>12. seen'.bad = {} => Counted(seen', world')
    <2> HAVE seen'.bad = {}
    <2>1. Counted(seen, world)
      BY <1>7 DEF Called, SkillsInv, Numbered
    <2>2. t \in Int
      BY <1>2
    <2> QED
      BY <1>2, <1>4, <1>6, <1>7, <1>9, <2>1, <2>2, CallCounted
  <1>13. Numbered(seen', world')
    BY <1>8, <1>9, <1>10, <1>11, <1>12 DEF Numbered
  <1> QED
    BY <1>2, <1>13, LogKeeps

\* The records that are no turn's.
Strays ==
  {Use!Record("meta", NoTurn, << >>), Use!Record("plain", NoTurn, << >>),
   Use!Record("other", NoTurn, << >>), Use!Record("bad", NoTurn, << >>),
   Use!Record("bad payload", NoTurn, << >>),
   [Use!Record("call", NoTurn, Manifest["owned"]) EXCEPT !.at = {}]}

LEMMA UndatedCall ==
  ASSUME NEW rec, rec = [Use!Record("call", NoTurn, Manifest["owned"]) EXCEPT !.at = {}]
  PROVE  rec \in Records /\ rec.kind = "call" /\ rec.at = {}
  <1>1. Manifest["owned"] \in Seq(Words)
    BY CommandWords
  <1>2. rec = [kind |-> "call", at |-> {}, id |-> NoTurn, words |-> Manifest["owned"]]
    BY DEF Use!Record
  <1>3. "call" \in Use!RecordKinds
    BY DEF Use!RecordKinds
  <1> QED
    BY <1>1, <1>2, <1>3 DEF Records, TurnIds

LEMMA EmptyRecord ==
  ASSUME seen \in Known, NEW kind \in Use!RecordKinds, NEW rec,
         rec = Use!Record(kind, NoTurn, << >>)
  PROVE  rec \in Records /\ rec.kind = kind
  <1>1. {seen.pos + 1} \in SUBSET Int
    BY DEF Known
  <1>2. << >> \in Seq(Words)
    BY EmptySeq
  <1> QED
    BY <1>1, <1>2 DEF Use!Record, Records, TurnIds

\* A record that is no turn's: nothing is taken from it, or it is torn.
Stray(st, after) ==
  /\ after \in Known /\ after.pos = st.pos + 1
  /\ after.ordinal = st.ordinal /\ after.uses = st.uses
  /\ Same(st, after) \/ after.bad = st.bad \cup {st.pos + 1}

LEMMA StrayRead ==
  ASSUME seen \in Known, NEW rec \in Strays
  PROVE  Stray(seen, Use!ReadNext(seen, rec))
  <1>1. \/ rec = Use!Record("meta", NoTurn, << >>)
        \/ rec = Use!Record("plain", NoTurn, << >>)
        \/ rec = Use!Record("other", NoTurn, << >>)
        \/ rec = Use!Record("bad", NoTurn, << >>)
        \/ rec = Use!Record("bad payload", NoTurn, << >>)
        \/ rec = [Use!Record("call", NoTurn, Manifest["owned"]) EXCEPT !.at = {}]
    BY Zenon DEF Strays
  <1>2. /\ "meta" \in Use!RecordKinds /\ "plain" \in Use!RecordKinds
        /\ "other" \in Use!RecordKinds /\ "bad" \in Use!RecordKinds
        /\ "bad payload" \in Use!RecordKinds
    BY Zenon DEF Use!RecordKinds
  <1>3. /\ rec \in Records
        /\ \/ rec.kind \in {"meta", "plain", "other"}
           \/ rec.kind \in {"bad", "bad payload"}
           \/ rec.kind = "call" /\ rec.at = {}
    <2>1. CASE rec = [Use!Record("call", NoTurn, Manifest["owned"]) EXCEPT !.at = {}]
      BY <2>1, UndatedCall, Zenon
    <2>2. CASE rec # [Use!Record("call", NoTurn, Manifest["owned"]) EXCEPT !.at = {}]
      BY <1>1, <1>2, <2>2, EmptyRecord, Zenon
    <2> QED
      BY <2>1, <2>2, Zenon
  <1>4. CASE rec.kind \in {"meta", "plain", "other"}
    BY <1>3, <1>4, OthersRead, Zenon DEF Stray, Same
  <1>5. CASE rec.kind \notin {"meta", "plain", "other"}
    <2>1. \/ rec.kind \in {"bad", "bad payload", "bad context"}
          \/ rec.kind = "call" /\ rec.at = {}
      BY <1>3, <1>5, Zenon
    <2>2. rec.kind # "bad context"
      BY <1>3, <1>5, Zenon
    <2>3. /\ Torn(seen, Use!ReadNext(seen, rec))
          /\ BeginsNone(rec, seen, Use!ReadNext(seen, rec))
      BY <1>3, <2>1, TornRead, Zenon
    <2> QED
      BY <2>2, <2>3, Zenon DEF BeginsNone, Torn, Stray
  <1> QED
    BY <1>4, <1>5, Zenon

LEMMA OtherKeeps == ASSUME SkillsInv, Use!OtherRecord PROVE SkillsInv'
  <1>1. /\ Logs /\ world' = world
        /\ Placed(seen) /\ seen \in Known /\ Happened(world)
        /\ seen.pos \in Nat /\ seen.bad \in SUBSET Nat
        /\ seen.ordinal <= world.turns
        /\ \A b \in seen.bad : 1 <= b /\ b <= seen.pos
    BY DEF Use!OtherRecord, Logs, SkillsInv, Numbered, Placed, Happened, Known
  <1>2. PICK rec \in Strays : seen' = Use!ReadNext(seen, rec)
    BY Zenon DEF Use!OtherRecord, Strays
  <1>3. Stray(seen, seen')
    BY <1>1, <1>2, StrayRead
  <1>4. Placed(seen')
    <2>1. \A u \in seen.uses : u.pos \in Nat /\ u.pos <= seen.pos
      BY <1>1 DEF Placed, Known, SeenUses
    <2>2. Owned(seen') = Owned(seen)
      BY <1>3 DEF Stray, Owned
    <2>3. \A u \in seen'.uses : u.pos <= seen'.pos
      BY <1>1, <1>3, <2>1 DEF Stray
    <2> QED
      BY <1>1, <1>3, <2>2, <2>3 DEF Placed, Stray
  <1>5. \A b \in seen'.bad : 1 <= b /\ b <= seen'.pos
    BY <1>1, <1>3 DEF Stray, Same
  <1>6. seen'.bad = {} => Counted(seen', world')
    <2> HAVE seen'.bad = {}
    <2>1. Same(seen, seen')
      BY <1>3 DEF Stray
    <2> QED
      BY <1>1, <2>1, SameCounted DEF SkillsInv, Numbered, Same
  <1>7. Numbered(seen', world')
    BY <1>1, <1>3, <1>4, <1>5, <1>6 DEF Numbered, Stray
  <1> QED
    BY <1>1, <1>7, LogKeeps

LEMMA ReportKeeps == ASSUME SkillsInv, Use!Report PROVE SkillsInv'
  <1>1. /\ pc' = "done" /\ world' = world /\ seen' = seen
        /\ outcome' = Concluded(IF Use!Assessed.verdict = "baseline_ok"
                                THEN "BASELINE_OK" ELSE "REVIEW", "report")
    BY DEF Use!Report, Use!Concluded, Concluded
  <1>2. Use!Assessed' = Use!Assessed
    BY <1>1 DEF Use!Assessed, Use!Counters
  <1> QED
    BY <1>1, <1>2 DEF SkillsInv

LEMMA FirstNumbers ==
  ASSUME NEW n \in Nat, NEW S, S \subseteq 1..n
  PROVE  Cardinality(S) \in Nat /\ (Cardinality(S) = 0 => S = {})
  <1>1. IsFiniteSet(1..n)
    BY FS_Interval
  <1>2. IsFiniteSet(S)
    BY <1>1, FS_Subset
  <1> QED
    BY <1>2, FS_CardinalityType, FS_EmptySet

\* What BASELINE_OK needs.
LEMMA BaselineNeeds ==
  ASSUME Numbered(seen, world), Use!Assessed.verdict = "baseline_ok"
  PROVE  world.readIn # {} /\ seen.bad = {}
  <1> DEFINE evidence == {[rollout |-> 1, pos |-> u.pos, skill |-> u.skill, turn |-> u.turn,
                           epoch |-> u.epoch] : u \in seen.uses}
             owned == {u \in evidence : u.skill = "owned"}
             status == Use!CoverageStatus(Use!Counters)
             sufficient == status = "complete"
                             /\ Use!HistoryIsSufficient(seen.pos + 1, seen.firsts, seen.times)
             items == [s \in {"owned"} |->
                         Use!Item(seen.pos + 1, [x \in {"owned"} |-> "personal"][s],
                                  {u \in evidence : u.skill = s}, sufficient)]
  <1>1. Use!AssessmentVerdict(status, items) = "baseline_ok"
    BY Zenon DEF Use!Assessed, Use!Assess
  <1>2. status = "complete" /\ ~Use!IsActionable(items["owned"].disposition)
    <2> HIDE DEF status
    <2> QED
      BY <1>1 DEF Use!AssessmentVerdict
  <1>3. seen.bad = {}
    <2>1. seen.bad \subseteq 1..seen.pos /\ seen.pos \in Nat
      BY DEF Numbered, Placed, Known
    <2>2. Cardinality(seen.bad) \in Nat /\ (Cardinality(seen.bad) = 0 => seen.bad = {})
      BY <2>1, FirstNumbers
    <2>3. ~(Use!Counters.badRecords > 0)
      BY <1>2 DEF Use!CoverageStatus
    <2>4. Use!Counters.badRecords = Cardinality(seen.bad)
      BY SameCardinality DEF Use!Counters
    <2> QED
      BY <2>2, <2>3, <2>4
  <1>4. owned # {}
    <2>1. items["owned"].disposition
            = Use!CleanupDisposition("personal",
                Use!Signal(seen.pos + 1, Use!Retained(owned), sufficient))
      BY DEF Use!Item
    <2> HIDE DEF owned, items, sufficient
    <2>2. Use!Signal(seen.pos + 1, Use!Retained(owned), sufficient) = "recent"
      BY <1>2, <2>1 DEF Use!CleanupDisposition, Use!IsActionable, Use!Signal
    <2>3. Use!Retained(owned) # {}
      BY <2>2 DEF Use!Signal
    <2> QED
      BY <2>3 DEF Use!Retained
  <1>5. Keys(seen) # {}
    <2>1. PICK u \in seen.uses : u.skill = "owned"
      BY <1>4
    <2> QED
      BY <2>1 DEF Keys, Owned
  <1>6. /\ IsFiniteSet(Keys(seen)) /\ Cardinality(Keys(seen)) = Cardinality(world.readIn)
    BY <1>3 DEF Numbered, Counted
  <1>7. Cardinality(Keys(seen)) # 0
    BY <1>5, <1>6, FS_EmptySet
  <1>8. world.readIn # {}
    BY <1>6, <1>7, FS_EmptySet
  <1> QED
    BY <1>3, <1>8

SkillsPart == part = "skills" => SkillsInv

LEMMA SkillsInductive == SkillsPart /\ [Next]_vars => SkillsPart'
  <1> SUFFICES ASSUME SkillsPart, [Next]_vars, part' = "skills"
               PROVE  SkillsInv'
    BY DEF SkillsPart
  <1>1. part = "skills" /\ SkillsInv
    BY DEF SkillsPart, Next, Inspect, Render, vars
  <1>2. CASE Inspect
    <2>1. Use!Next
      BY <1>1, <1>2 DEF Inspect
    <2> QED
      BY <1>1, <2>1, ClockKeeps, BeginKeeps, CallKeeps, OtherKeeps, ReportKeeps DEF Use!Next
  <1>3. CASE UNCHANGED <<pc, world, seen, outcome>>
    <2>1. Use!Assessed' = Use!Assessed
      BY <1>3 DEF Use!Assessed, Use!Counters
    <2> QED
      BY <1>1, <1>3, <2>1 DEF SkillsInv
  <1> QED
    BY <1>2, <1>3 DEF Next, Render, vars

LEMMA SkillsHold == Spec => []SkillsPart
  <1>1. Init => SkillsPart
    BY SkillsBegin DEF Init, SkillsPart
  <1> QED
    BY <1>1, SkillsInductive, PTL DEF Spec

\* However the turns of a task are marked, with an event, a context or both, with
\* the turn's id or without it, and whatever else the rollout holds: unless a
\* record is torn, a skill is counted once for every turn that read its manifest.
THEOREM CountsAreTrue == Spec => []CountsAreTurns
  <1>1. SkillsPart => CountsAreTurns
    <2> SUFFICES ASSUME SkillsInv, seen.bad = {}
                 PROVE  Use!Assessed.items["owned"].count = Use!Cardinality(world.readIn)
      BY Zenon DEF SkillsPart, CountsAreTurns, Use!CountsAreTurns
    <2>1. Counted(seen, world) /\ Placed(seen)
      BY DEF SkillsInv, Numbered
    <2>2. Use!Assessed.items["owned"].count = Cardinality(Keys(seen))
      BY <2>1, CountedUses DEF Counted
    <2> QED
      BY <2>1, <2>2, SameCardinality DEF Counted
  <1> QED
    BY <1>1, SkillsHold, PTL

SkillsEvidence == part = "skills" => Use!BaselineIsEvidence

LEMMA SkillsBaseline == SkillsPart => SkillsEvidence
  <1> SUFFICES ASSUME SkillsInv, outcome.verdict = "BASELINE_OK"
               PROVE  world.readIn # {} /\ seen.bad = {}
    BY DEF SkillsPart, SkillsEvidence, Use!BaselineIsEvidence
  <1>1. pc = "done"
    <2>1. NoOutcome.verdict = "none"
      BY DEF NoOutcome, Concluded
    <2> QED
      BY <2>1 DEF SkillsInv
  <1>2. Use!Assessed.verdict = "baseline_ok"
    <2>1. outcome = Concluded(IF Use!Assessed.verdict = "baseline_ok"
                              THEN "BASELINE_OK" ELSE "REVIEW", "report")
      BY <1>1 DEF SkillsInv
    <2>2. outcome.verdict = IF Use!Assessed.verdict = "baseline_ok"
                            THEN "BASELINE_OK" ELSE "REVIEW"
      BY <2>1 DEF Concluded
    <2> QED
      BY <2>2
  <1> QED
    BY <1>2, BaselineNeeds DEF SkillsInv

-----------------------------------------------------------------------------
(* `gr inspect codex updates`: the latest version is even and only grows,  *)
(* and what is installed is at most a pre-release of the next one.         *)

Versions == [installed : 2..MaxVersion, latest : 2..MaxVersion, app : BOOLEAN]
VersionsSeen ==
  [installed : 0..MaxVersion, app : {"NOT_INSTALLED", "UNKNOWN"}, latest : 0..MaxVersion,
   availability : Updates!Availabilities, fresh : BOOLEAN]

\* What is installed is published or about to be.
Published(w) == w.latest % 2 = 0 /\ w.installed <= w.latest + 1

\* What is known before the registry answers.
Pending(w, st, concluded) ==
  /\ st.availability = "UNKNOWN" /\ st.installed <= w.latest + 1
  /\ concluded.verdict # "BASELINE_OK"

\* What the answer is worth.
Answered(w, st, concluded) ==
  /\ st.availability = "INSTALLED_NEWER" => st.installed % 2 = 1 /\ concluded.verdict = "REVIEW"
  /\ st.availability = "UPDATE_AVAILABLE" => st.installed < w.latest
  /\ st.availability = "NO_CHANGE" => st.installed = w.latest
  /\ concluded.verdict = "BASELINE_OK" =>
       st.fresh /\ st.installed # 0 /\ st.installed <= st.latest

UpdatesInv ==
  /\ pc \in {"installed", "app", "latest", "done"}
  /\ world \in Versions /\ seen \in VersionsSeen
  /\ Published(world)
  /\ pc # "done" => Pending(world, seen, outcome)
  /\ pc = "done" => Answered(world, seen, outcome)
  /\ pc = "installed" => outcome = NoOutcome
  /\ pc = "app" => (outcome = NoOutcome => seen.installed >= 2)
  /\ pc = "latest" => outcome = NoOutcome /\ seen.installed >= 2

LEMMA UpdatesBegin == ASSUME Updates!Init PROVE UpdatesInv
  <1>1. /\ pc = "installed" /\ outcome = NoOutcome
        /\ world \in [installed : 2..MaxVersion, latest : {2}, app : BOOLEAN]
        /\ world.installed <= world.latest + 1
        /\ seen = [installed |-> 0, app |-> "NOT_INSTALLED", latest |-> 0,
                   availability |-> "UNKNOWN", fresh |-> FALSE]
    BY DEF Updates!Init, Updates!NoOutcome, NoOutcome, Updates!Concluded, Concluded
  <1>2. MaxVersion \in Nat /\ MaxVersion >= 1
    BY CommandAssumption
  <1>3. PICK v \in 2..MaxVersion, a \in BOOLEAN :
          world = [installed |-> v, latest |-> 2, app |-> a]
    BY <1>1
  <1>4. 2 \in 2..MaxVersion /\ 0 \in 0..MaxVersion
    BY <1>2, <1>3
  <1>5. world \in Versions /\ Published(world) /\ world.latest = 2
    BY <1>1, <1>3, <1>4 DEF Versions, Published
  <1>6. seen \in VersionsSeen
    BY <1>1, <1>4 DEF VersionsSeen, Updates!Availabilities
  <1>7. Pending(world, seen, outcome)
    BY <1>1, <1>5 DEF Pending, NoOutcome, Concluded
  <1> QED
    BY <1>1, <1>5, <1>6, <1>7 DEF UpdatesInv

LEMMA UpdatesKeep == ASSUME UpdatesInv, Updates!Next PROVE UpdatesInv'
  <1>1. /\ MaxVersion \in Nat
        /\ world \in Versions /\ seen \in VersionsSeen /\ Published(world)
        /\ world.installed \in Int /\ world.latest \in Int /\ seen.installed \in Int
        /\ seen.latest \in Int
    BY CommandAssumption DEF UpdatesInv, Versions, VersionsSeen
  <1>2. CASE Updates!ReadInstalled
    <2> DEFINE v == world.installed
    <2>1. /\ pc = "installed" /\ pc' = "app" /\ world' = world /\ outcome' = outcome
          /\ seen' = [seen EXCEPT !.installed = v]
      BY <1>2 DEF Updates!ReadInstalled
    <2>2. v \in 0..MaxVersion /\ v >= 2 /\ v <= world.latest + 1
      BY <1>1 DEF Versions, Published
    <2> HIDE DEF v
    <2>3. /\ seen' \in VersionsSeen /\ seen'.installed = v
          /\ seen'.availability = seen.availability
      BY <1>1, <2>1, <2>2 DEF VersionsSeen
    <2>4. Pending(world', seen', outcome')
      BY <2>1, <2>2, <2>3 DEF UpdatesInv, Pending
    <2> QED
      BY <1>1, <2>1, <2>2, <2>3, <2>4 DEF UpdatesInv
  <1>3. CASE Updates!ReadInstalledFails
    <2>1. PICK end \in Updates!ProbeEnds : outcome' = Concluded(FailureVerdict(end), "version")
      BY <1>3 DEF Updates!ReadInstalledFails, Updates!Concluded, Concluded,
         Updates!FailureVerdict, FailureVerdict
    <2>2. outcome' # NoOutcome /\ outcome'.verdict # "BASELINE_OK"
      BY <2>1 DEF Concluded, NoOutcome, FailureVerdict
    <2>3. pc = "installed" /\ pc' = "app" /\ world' = world /\ seen' = seen
      BY <1>3 DEF Updates!ReadInstalledFails
    <2> QED
      BY <1>1, <2>2, <2>3 DEF UpdatesInv, Pending
  <1>4. CASE Updates!ReadApp
    <2>1. PICK answers \in BOOLEAN :
            seen' = [seen EXCEPT !.app = IF world.app /\ answers
                                         THEN "UNKNOWN" ELSE "NOT_INSTALLED"]
      BY <1>4 DEF Updates!ReadApp
    <2>2. /\ pc = "app" /\ world' = world /\ outcome' = outcome
          /\ pc' = IF outcome = NoOutcome THEN "latest" ELSE "done"
      BY <1>4 DEF Updates!ReadApp, Updates!NoOutcome, NoOutcome, Updates!Concluded, Concluded
    <2>3. seen' \in VersionsSeen /\ seen'.installed = seen.installed
          /\ seen'.availability = seen.availability
      BY <1>1, <2>1 DEF VersionsSeen
    <2>4. Pending(world', seen', outcome')
      BY <2>2, <2>3 DEF UpdatesInv, Pending
    <2>5. Answered(world', seen', outcome')
      BY <2>4 DEF Pending, Answered
    <2> QED
      BY <1>1, <2>2, <2>3, <2>4, <2>5 DEF UpdatesInv
  <1>5. CASE Updates!ReadLatest
    <2> DEFINE now == world.latest
               compared == Updates!Compare(seen.installed, now)
    <2>1. /\ pc = "latest" /\ pc' = "done" /\ world' = world
          /\ seen' = [seen EXCEPT !.latest = now, !.fresh = TRUE, !.availability = compared]
          /\ outcome' = Concluded(IF seen.installed > now THEN "REVIEW" ELSE "BASELINE_OK",
                                  "report")
      BY <1>5 DEF Updates!ReadLatest, Updates!Concluded, Concluded
    <2>2. /\ compared = IF seen.installed < now THEN "UPDATE_AVAILABLE"
                        ELSE IF seen.installed = now THEN "NO_CHANGE" ELSE "INSTALLED_NEWER"
          /\ compared \in Updates!Availabilities
          /\ now \in 0..MaxVersion
      BY <1>1 DEF Updates!Compare, Updates!Availabilities, Versions
    <2>3. seen.installed >= 2 /\ seen.installed <= now + 1 /\ now % 2 = 0
      BY <1>1, <2>1 DEF UpdatesInv, Pending, Published
    <2>4. now \in Int /\ world'.latest = now
      BY <1>1, <2>1
    <2> HIDE DEF now, compared
    <2>5. /\ seen' \in VersionsSeen /\ seen'.latest = now /\ seen'.fresh = TRUE
          /\ seen'.availability = compared /\ seen'.installed = seen.installed
      BY <1>1, <2>1, <2>2 DEF VersionsSeen
    <2>6. outcome'.verdict = IF seen.installed > now THEN "REVIEW" ELSE "BASELINE_OK"
      BY <2>1 DEF Concluded
    <2>7. seen.installed > now => seen.installed % 2 = 1
      <3>1. seen.installed > now => seen.installed = now + 1
        BY <1>1, <2>3, <2>4
      <3>2. (now + 1) % 2 = 1
        BY <2>3, <2>4
      <3> QED
        BY <3>1, <3>2
    <2>8. Answered(world', seen', outcome')
      BY <1>1, <2>2, <2>3, <2>4, <2>5, <2>6, <2>7 DEF Answered
    <2> QED
      BY <1>1, <2>1, <2>5, <2>8 DEF UpdatesInv
  <1>6. CASE Updates!ReadLatestFails
    <2>1. /\ pc = "latest" /\ pc' = "done" /\ world' = world /\ seen' = seen
          /\ outcome'.verdict = "INCOMPLETE"
      BY <1>6 DEF Updates!ReadLatestFails, Updates!Concluded
    <2> QED
      BY <1>1, <2>1 DEF UpdatesInv, Pending, Answered
  <1>7. CASE Updates!Publish
    <2> DEFINE v == world.latest + 2
    <2>1. /\ pc # "done" /\ pc' = pc /\ seen' = seen /\ outcome' = outcome
          /\ world' = [world EXCEPT !.latest = v] /\ v <= MaxVersion
      BY <1>7 DEF Updates!Publish
    <2>2. v \in 2..MaxVersion /\ v >= world.latest /\ v % 2 = 0 /\ v \in Int
      BY <1>1, <2>1 DEF Versions, Published
    <2> HIDE DEF v
    <2>3. world' \in Versions /\ world'.latest = v /\ world'.installed = world.installed
      BY <1>1, <2>1, <2>2 DEF Versions
    <2>4. Published(world')
      BY <1>1, <2>2, <2>3 DEF Published
    <2>5. Pending(world', seen', outcome')
      BY <1>1, <2>1, <2>2, <2>3 DEF UpdatesInv, Pending
    <2> QED
      BY <1>1, <2>1, <2>3, <2>4, <2>5 DEF UpdatesInv
  <1>8. CASE Updates!Upgrade
    <2>1. PICK v \in {world.latest, world.latest + 1} :
            world.installed < v /\ v <= MaxVersion
            /\ world' = [world EXCEPT !.installed = v]
      BY <1>8 DEF Updates!Upgrade
    <2>2. pc # "done" /\ pc' = pc /\ seen' = seen /\ outcome' = outcome
      BY <1>8 DEF Updates!Upgrade
    <2>3. v \in 2..MaxVersion
      BY <1>1, <2>1 DEF Versions
    <2>4. world' \in Versions /\ world'.latest = world.latest /\ world'.installed = v
      BY <1>1, <2>1, <2>3 DEF Versions
    <2>5. Published(world')
      BY <1>1, <2>1, <2>4 DEF Published
    <2>6. Pending(world', seen', outcome')
      BY <2>2, <2>4 DEF UpdatesInv, Pending
    <2> QED
      BY <1>1, <2>2, <2>4, <2>5, <2>6 DEF UpdatesInv
  <1> QED
    BY <1>2, <1>3, <1>4, <1>5, <1>6, <1>7, <1>8 DEF Updates!Next

UpdatesPart == part = "updates" => UpdatesInv

LEMMA UpdatesHold == Spec => []UpdatesPart
  <1>1. Init => UpdatesPart
    BY UpdatesBegin DEF Init, UpdatesPart
  <1>2. UpdatesPart /\ [Next]_vars => UpdatesPart'
    <2> SUFFICES ASSUME UpdatesPart, [Next]_vars, part' = "updates"
                 PROVE  UpdatesInv'
      BY DEF UpdatesPart
    <2>1. part = "updates" /\ UpdatesInv
      BY DEF UpdatesPart, Next, Inspect, Render, vars
    <2>2. CASE Inspect
      <3>1. Updates!Next
        BY <2>1, <2>2 DEF Inspect
      <3> QED
        BY <2>1, <3>1, UpdatesKeep
    <2>3. CASE UNCHANGED <<pc, world, seen, outcome>>
      BY <2>1, <2>3 DEF UpdatesInv
    <2> QED
      BY <2>2, <2>3 DEF Next, Render, vars
  <1> QED
    BY <1>1, <1>2, PTL DEF Spec

UpdatesEvidence ==
  part = "updates" => Updates!BaselineIsEvidence /\ Updates!AvailabilityIsTrue

LEMMA UpdatesTrue == UpdatesPart => UpdatesEvidence
  BY DEF UpdatesPart, UpdatesEvidence, UpdatesInv, Pending, Answered,
     Updates!BaselineIsEvidence, Updates!AvailabilityIsTrue

-----------------------------------------------------------------------------
(* `gr inspect claude`: a plugin's directory that is there when it is      *)
(* examined was there when the plugins were listed or came since.          *)

Ids == {p.id : p \in ClaudePlugins}
PluginWorld ==
  [installed : SUBSET ClaudePlugins, denied : SUBSET ClaudePlugins]
ClaudeSeen ==
  [listing : Claude!WorkerStates, marketplaces : Claude!WorkerStates,
   listed : SUBSET ClaudePlugins, since : SUBSET ClaudePlugins,
   examined : SUBSET ClaudePlugins,
   findings : SUBSET ({"unreadable", "missing", "duplicate"} \X Ids)]

\* What is seen fits what is installed, and a plugin that was examined and cannot
\* be accounted for has left a finding.
Found(w, st) ==
  /\ st.examined \subseteq st.listed
  /\ \A p \in st.listed : p \in w.installed => p \in st.since
  /\ st.findings = {} =>
       \A p \in st.examined : p.path # {} => p \in st.since /\ p \notin w.denied

NotRunning(st) == st.listing # "running" /\ st.marketplaces # "running"
BothListed(st) == st.listing = "output" /\ st.marketplaces = "output"

Accounted(w, st) ==
  /\ BothListed(st)
  /\ \A p \in st.listed : p.path # {} => p \in st.since /\ p \notin w.denied
  /\ \A p, q \in st.listed : p.id = q.id => p = q

ClaudeInv ==
  /\ pc \in {"version", "spawn", "join", "judge", "local", "examine", "done"}
  /\ world \in PluginWorld /\ seen \in ClaudeSeen
  /\ Found(world, seen)
  /\ pc # "done" => outcome = NoOutcome
  /\ pc # "join" => NotRunning(seen)
  /\ pc \in {"local", "examine"} => BothListed(seen)
  /\ pc \notin {"examine", "done"} => seen.examined = {}
  /\ outcome.verdict = "BASELINE_OK" => Accounted(world, seen)

LEMMA NotBaseline ==
  ASSUME NEW end
  PROVE  /\ NoOutcome.verdict # "BASELINE_OK"
         /\ Concluded(FailureVerdict(end), "version").verdict # "BASELINE_OK"
  BY DEF NoOutcome, Concluded, FailureVerdict

LEMMA ClaudeBegin == ASSUME Claude!Init PROVE ClaudeInv
  <1>1. /\ pc = "version" /\ outcome = NoOutcome
        /\ world \in PluginWorld
        /\ seen = [listing |-> "none", marketplaces |-> "none", listed |-> {},
                   examined |-> {}, findings |-> {}, since |-> {}]
    BY DEF Claude!Init, Claude!NoOutcome, NoOutcome, Claude!Concluded, Concluded, PluginWorld
  <1>2. seen \in ClaudeSeen
    BY <1>1 DEF ClaudeSeen, Claude!WorkerStates
  <1>3. Found(world, seen) /\ NotRunning(seen)
    BY <1>1 DEF Found, NotRunning
  <1> QED
    BY <1>1, <1>2, <1>3, NotBaseline DEF ClaudeInv

LEMMA ClaudeKeep == ASSUME ClaudeInv, Claude!Next PROVE ClaudeInv'
  <1>1. /\ world \in PluginWorld /\ seen \in ClaudeSeen /\ Found(world, seen)
        /\ world.installed \in SUBSET ClaudePlugins
    BY DEF ClaudeInv, PluginWorld
  <1>2. CASE Claude!VersionOk
    BY <1>2 DEF Claude!VersionOk, ClaudeInv
  <1>3. ASSUME NEW verdict, NEW where, Claude!Conclude(verdict, where),
               verdict # "BASELINE_OK", pc # "join"
        PROVE  ClaudeInv'
    <2>1. /\ pc' = "done" /\ world' = world /\ seen' = seen /\ outcome'.verdict # "BASELINE_OK"
      BY <1>3 DEF Claude!Conclude, Claude!Concluded
    <2> QED
      BY <1>3, <2>1 DEF ClaudeInv
  <1>4. CASE Claude!VersionFails
    <2>1. PICK end \in Claude!ProbeEnds : Claude!Conclude(Claude!FailureVerdict(end), "version")
      BY <1>4 DEF Claude!VersionFails
    <2>2. Claude!FailureVerdict(end) # "BASELINE_OK" /\ pc # "join"
      BY <1>4 DEF Claude!FailureVerdict, Claude!VersionFails
    <2> QED
      BY <1>3, <2>1, <2>2
  <1>5. CASE Claude!Spawn
    <2>1. /\ pc = "spawn" /\ pc' = "join" /\ world' = world /\ outcome' = outcome
          /\ seen' = [seen EXCEPT !.listing = "running", !.marketplaces = "running"]
      BY <1>5 DEF Claude!Spawn
    <2>2. /\ seen' \in ClaudeSeen /\ seen'.listed = seen.listed
          /\ seen'.since = seen.since /\ seen'.examined = seen.examined
          /\ seen'.findings = seen.findings
      BY <1>1, <2>1 DEF ClaudeSeen, Claude!WorkerStates
    <2>3. Found(world', seen')
      BY <1>1, <2>1, <2>2 DEF Found
    <2> QED
      BY <2>1, <2>2, <2>3, NotBaseline DEF ClaudeInv
  <1>6. CASE Claude!ListingEnds
    <2>1. PICK end \in Claude!Ends, recorded \in SUBSET ClaudePlugins :
            seen' = [seen EXCEPT !.listing = end, !.listed = recorded,
                                 !.since = world.installed]
      BY <1>6 DEF Claude!ListingEnds
    <2>2. /\ seen.listing = "running" /\ pc' = pc /\ world' = world /\ outcome' = outcome
      BY <1>6 DEF Claude!ListingEnds
    <2>3. pc = "join" /\ outcome = NoOutcome
      BY <2>2 DEF ClaudeInv, NotRunning
    <2>4. end \in Claude!WorkerStates
      BY DEF Claude!Ends, Claude!WorkerStates
    <2>5. /\ seen' \in ClaudeSeen /\ seen'.listed = recorded
          /\ seen'.since = world.installed /\ seen'.examined = seen.examined
          /\ seen'.findings = seen.findings
      BY <1>1, <2>1, <2>4 DEF ClaudeSeen
    <2>6. Found(world', seen')
      BY <2>2, <2>3, <2>5 DEF Found, ClaudeInv
    <2> QED
      BY <1>1, <2>2, <2>3, <2>5, <2>6, NotBaseline DEF ClaudeInv
  <1>7. CASE Claude!MarketplacesEnds
    <2>1. PICK end \in Claude!Ends : seen' = [seen EXCEPT !.marketplaces = end]
      BY <1>7 DEF Claude!MarketplacesEnds
    <2>2. /\ seen.marketplaces = "running" /\ pc' = pc /\ world' = world /\ outcome' = outcome
      BY <1>7 DEF Claude!MarketplacesEnds
    <2>3. pc = "join" /\ outcome = NoOutcome
      BY <2>2 DEF ClaudeInv, NotRunning
    <2>4. end \in Claude!WorkerStates
      BY DEF Claude!Ends, Claude!WorkerStates
    <2>5. /\ seen' \in ClaudeSeen /\ seen'.listed = seen.listed
          /\ seen'.since = seen.since /\ seen'.examined = seen.examined
          /\ seen'.findings = seen.findings
      BY <1>1, <2>1, <2>4 DEF ClaudeSeen
    <2>6. Found(world', seen')
      BY <1>1, <2>2, <2>5 DEF Found
    <2> QED
      BY <1>1, <2>2, <2>3, <2>5, <2>6, NotBaseline DEF ClaudeInv
  <1>8. CASE Claude!Join
    <2>1. /\ pc = "join" /\ pc' = "judge" /\ UNCHANGED <<world, seen, outcome>>
          /\ NotRunning(seen)
      BY <1>8 DEF Claude!Join, NotRunning
    <2> QED
      BY <2>1 DEF ClaudeInv
  <1>9. CASE Claude!Judge
    <2>1. CASE ~BothListed(seen)
      <3>1. \E where : Claude!Conclude("INCOMPLETE", where)
        BY <1>9, <2>1 DEF Claude!Judge, BothListed
      <3>2. pc # "join"
        BY <1>9 DEF Claude!Judge
      <3> QED
        BY <1>3, <3>1, <3>2
    <2>2. CASE BothListed(seen)
      <3>1. pc = "judge" /\ pc' = "local" /\ UNCHANGED <<world, seen, outcome>>
        BY <1>9, <2>2 DEF Claude!Judge, BothListed
      <3> QED
        BY <2>2, <3>1 DEF ClaudeInv
    <2> QED
      BY <2>1, <2>2
  <1>10. CASE Claude!ReadLocal
    BY <1>10 DEF Claude!ReadLocal, ClaudeInv
  <1>11. CASE Claude!LocalFails
    BY <1>3, <1>11 DEF Claude!LocalFails
  <1>12. ASSUME NEW p \in ClaudePlugins, Claude!Examine(p) PROVE ClaudeInv'
    <2> DEFINE new == IF p.path = {} THEN {}
                      ELSE IF p \in world.denied THEN {<<"unreadable", p.id>>}
                      ELSE IF p \notin world.installed THEN {<<"missing", p.id>>} ELSE {}
               examined == seen.examined \cup {p}
               findings == seen.findings \cup new
    <2>1. /\ pc = "examine" /\ pc' = pc /\ world' = world /\ outcome' = outcome
          /\ p \in seen.listed
          /\ seen' = [seen EXCEPT !.examined = examined, !.findings = findings]
      BY <1>12 DEF Claude!Examine
    <2>2. new \in SUBSET ({"unreadable", "missing", "duplicate"} \X Ids)
      BY DEF Ids
    <2>3. examined \in SUBSET ClaudePlugins /\ examined = seen.examined \cup {p}
          /\ findings \in SUBSET ({"unreadable", "missing", "duplicate"} \X Ids)
      BY <1>1, <2>2 DEF ClaudeSeen
    <2>4. findings = {} => seen.findings = {} /\ new = {}
      OBVIOUS
    <2>5. new = {} => p.path = {} \/ (p \notin world.denied /\ p \in world.installed)
      OBVIOUS
    <2> HIDE DEF new, examined, findings
    <2>6. /\ seen' \in ClaudeSeen /\ seen'.listed = seen.listed
          /\ seen'.since = seen.since /\ seen'.examined = examined
          /\ seen'.findings = findings /\ seen'.listing = seen.listing
          /\ seen'.marketplaces = seen.marketplaces
      BY <1>1, <2>1, <2>3 DEF ClaudeSeen
    <2>7. Found(world', seen')
      BY <1>1, <2>1, <2>3, <2>4, <2>5, <2>6 DEF Found
    <2> QED
      BY <1>1, <2>1, <2>6, <2>7, NotBaseline DEF ClaudeInv, NotRunning, BothListed
  <1>13. CASE Claude!Synthesize
    <2> DEFINE findings == seen.findings \cup ({"duplicate"} \X Claude!Duplicates)
    <2>1. /\ pc = "examine" /\ pc' = "done" /\ world' = world
          /\ seen.examined = seen.listed
          /\ outcome'.verdict = (IF findings = {} THEN "BASELINE_OK" ELSE "REVIEW")
          /\ seen' = [seen EXCEPT !.findings = findings]
      BY <1>13 DEF Claude!Synthesize, Claude!Concluded
    <2>2. Claude!Duplicates \subseteq Ids
      BY <1>1 DEF Claude!Duplicates, Ids, ClaudeSeen
    <2>3. findings \in SUBSET ({"unreadable", "missing", "duplicate"} \X Ids)
      BY <1>1, <2>2 DEF ClaudeSeen
    <2>4. findings = {} => seen.findings = {} /\ Claude!Duplicates = {}
      <3> HAVE findings = {}
      <3>1. seen.findings = {}
        OBVIOUS
      <3>2. \A id \in Claude!Duplicates : <<"duplicate", id>> \in findings
        OBVIOUS
      <3> QED
        BY <3>1, <3>2
    <2> HIDE DEF findings
    <2>5. /\ seen' \in ClaudeSeen /\ seen'.listed = seen.listed
          /\ seen'.since = seen.since /\ seen'.examined = seen.examined
          /\ seen'.findings = findings /\ seen'.listing = seen.listing
          /\ seen'.marketplaces = seen.marketplaces
      BY <1>1, <2>1, <2>3 DEF ClaudeSeen
    <2>6. Found(world', seen')
      BY <1>1, <2>1, <2>4, <2>5 DEF Found
    <2>7. outcome'.verdict = "BASELINE_OK" => Accounted(world', seen')
      <3> HAVE outcome'.verdict = "BASELINE_OK"
      <3>1. seen.findings = {} /\ Claude!Duplicates = {}
        BY <2>1, <2>4
      <3>2. \A p, q \in seen.listed : p.id = q.id => p = q
        BY <3>1 DEF Claude!Duplicates
      <3>3. BothListed(seen')
        BY <2>1, <2>5 DEF ClaudeInv, BothListed
      <3> QED
        BY <1>1, <2>1, <2>5, <3>1, <3>2, <3>3 DEF Accounted, Found
    <2> QED
      BY <1>1, <2>1, <2>5, <2>6, <2>7 DEF ClaudeInv, NotRunning
  <1>14. ASSUME NEW p \in ClaudePlugins, Claude!Uninstall(p) PROVE ClaudeInv'
    <2> DEFINE installed == world.installed \ {p}
    <2>1. /\ pc # "done" /\ pc' = pc /\ seen' = seen /\ outcome' = outcome
          /\ world' = [world EXCEPT !.installed = installed]
      BY <1>14 DEF Claude!Uninstall
    <2>2. installed \in SUBSET ClaudePlugins /\ installed \subseteq world.installed
      BY <1>1 DEF PluginWorld
    <2> HIDE DEF installed
    <2>3. world' \in PluginWorld /\ world'.installed = installed /\ world'.denied = world.denied
      BY <1>1, <2>1, <2>2 DEF PluginWorld
    <2>4. Found(world', seen')
      BY <1>1, <2>1, <2>2, <2>3 DEF Found
    <2> QED
      BY <1>1, <2>1, <2>3, <2>4, NotBaseline DEF ClaudeInv
  <1>15. ASSUME NEW p \in ClaudePlugins, Claude!Install(p) PROVE ClaudeInv'
    <2> DEFINE installed == world.installed \cup {p}
               since == seen.since \cup {p}
    <2>1. /\ pc # "done" /\ pc' = pc /\ outcome' = outcome
          /\ world' = [world EXCEPT !.installed = installed]
          /\ seen' = [seen EXCEPT !.since = since]
      BY <1>15 DEF Claude!Install
    <2>2. /\ installed \in SUBSET ClaudePlugins /\ installed = world.installed \cup {p}
          /\ since \in SUBSET ClaudePlugins /\ since = seen.since \cup {p}
      BY <1>1 DEF PluginWorld, ClaudeSeen
    <2> HIDE DEF installed, since
    <2>3. world' \in PluginWorld /\ world'.installed = installed /\ world'.denied = world.denied
      BY <1>1, <2>1, <2>2 DEF PluginWorld
    <2>4. /\ seen' \in ClaudeSeen /\ seen'.listed = seen.listed /\ seen'.since = since
          /\ seen'.examined = seen.examined /\ seen'.findings = seen.findings
          /\ seen'.listing = seen.listing /\ seen'.marketplaces = seen.marketplaces
      BY <1>1, <2>1, <2>2 DEF ClaudeSeen
    <2>5. Found(world', seen')
      BY <1>1, <2>2, <2>3, <2>4 DEF Found
    <2> QED
      BY <1>1, <2>1, <2>3, <2>4, <2>5, NotBaseline DEF ClaudeInv, NotRunning, BothListed
  <1> QED
    BY <1>2, <1>4, <1>5, <1>6, <1>7, <1>8, <1>9, <1>10, <1>11, <1>12, <1>13, <1>14, <1>15
       DEF Claude!Next

ClaudePart == part = "claude" => ClaudeInv

LEMMA ClaudeHolds == Spec => []ClaudePart
  <1>1. Init => ClaudePart
    BY ClaudeBegin DEF Init, ClaudePart
  <1>2. ClaudePart /\ [Next]_vars => ClaudePart'
    <2> SUFFICES ASSUME ClaudePart, [Next]_vars, part' = "claude"
                 PROVE  ClaudeInv'
      BY DEF ClaudePart
    <2>1. part = "claude" /\ ClaudeInv
      BY DEF ClaudePart, Next, Inspect, Render, vars
    <2>2. CASE Inspect
      <3>1. Claude!Next
        BY <2>1, <2>2 DEF Inspect
      <3> QED
        BY <2>1, <3>1, ClaudeKeep
    <2>3. CASE UNCHANGED <<pc, world, seen, outcome>>
      BY <2>1, <2>3 DEF ClaudeInv
    <2> QED
      BY <2>2, <2>3 DEF Next, Render, vars
  <1> QED
    BY <1>1, <1>2, PTL DEF Spec

ClaudeEvidence == part = "claude" => Claude!BaselineIsEvidence

LEMMA ClaudeTrue == ClaudePart => ClaudeEvidence
  BY DEF ClaudePart, ClaudeEvidence, ClaudeInv, Accounted, BothListed, Claude!BaselineIsEvidence

-----------------------------------------------------------------------------
(* How every inspection ends, and what the process then shows of it.       *)

\* A report, or a failure that says INCOMPLETE or BLOCKED.
Ending(o) ==
  /\ o.verdict \in Verdicts \cup {"none", "accepted"}
  /\ o.verdict = "none" => o = NoOutcome
  /\ o.verdict \in {"BASELINE_OK", "REVIEW"} => o.where = "report"

Ended == Ending(outcome) /\ (pc = "done" => outcome # NoOutcome)

LEMMA Endings ==
  ASSUME NEW verdict, NEW where,
         \/ verdict \in {"BASELINE_OK", "REVIEW"} /\ where = "report"
         \/ verdict \in {"INCOMPLETE", "BLOCKED", "accepted"}
  PROVE  Ending(Concluded(verdict, where)) /\ Concluded(verdict, where) # NoOutcome
  <1>1. Concluded(verdict, where).verdict = verdict /\ Concluded(verdict, where).where = where
    BY DEF Concluded
  <1>2. NoOutcome.verdict = "none"
    BY DEF NoOutcome, Concluded
  <1> HIDE DEF Concluded
  <1> QED
    BY <1>1, <1>2 DEF Ending, Verdicts

LEMMA FailureVerdicts == \A end : FailureVerdict(end) \in {"INCOMPLETE", "BLOCKED"}
  BY DEF FailureVerdict

LEMMA EndsOrNot ==
  ASSUME Ended,
         \/ outcome' = outcome /\ (pc' = "done" => pc = "done" \/ outcome # NoOutcome)
         \/ \E verdict, where :
              /\ outcome' = Concluded(verdict, where)
              /\ \/ verdict \in {"BASELINE_OK", "REVIEW"} /\ where = "report"
                 \/ verdict \in {"INCOMPLETE", "BLOCKED", "accepted"}
  PROVE  Ended'
  <1>1. CASE outcome' = outcome /\ (pc' = "done" => pc = "done" \/ outcome # NoOutcome)
    <2>1. NoOutcome' = NoOutcome
      BY DEF NoOutcome, Concluded
    <2> QED
      BY <1>1, <2>1 DEF Ended
  <1>2. ASSUME NEW verdict, NEW where, outcome' = Concluded(verdict, where),
               \/ verdict \in {"BASELINE_OK", "REVIEW"} /\ where = "report"
               \/ verdict \in {"INCOMPLETE", "BLOCKED", "accepted"}
        PROVE  Ended'
    <2>1. Ending(Concluded(verdict, where)) /\ Concluded(verdict, where) # NoOutcome
      BY <1>2, Endings
    <2> QED
      BY <1>2, <2>1 DEF Ended
  <1> QED
    BY <1>1, <1>2

LEMMA SkillsEnd == ASSUME Ended, Use!Next PROVE Ended'
  <1>1. CASE Use!Report
    <2> DEFINE verdict == IF Use!Assessed.verdict = "baseline_ok" THEN "BASELINE_OK" ELSE "REVIEW"
    <2>1. outcome' = Concluded(verdict, "report")
      BY <1>1 DEF Use!Report, Use!Concluded, Concluded
    <2>2. verdict \in {"BASELINE_OK", "REVIEW"}
      OBVIOUS
    <2> HIDE DEF verdict
    <2> QED
      BY <2>1, <2>2, EndsOrNot
  <1>2. CASE ~Use!Report
    <2>1. outcome' = outcome /\ pc' # "done"
      BY <1>2, Zenon DEF Use!Next, Use!ReadClock, Use!BeginTurn, Use!CallTool, Use!OtherRecord
    <2> QED
      BY <2>1, EndsOrNot
  <1> QED
    BY <1>1, <1>2

LEMMA PluginsEnd == ASSUME Ended, Plugins!Next PROVE Ended'
  <1>1. CASE Plugins!Build
    <2>1. \E verdict \in {"BASELINE_OK", "REVIEW"} : outcome' = Concluded(verdict, "report")
      BY <1>1, Zenon DEF Plugins!Build, Plugins!Concluded, Concluded
    <2> QED
      BY <2>1, EndsOrNot
  <1>2. ASSUME NEW end, NEW where, Plugins!Fail(end, where) PROVE Ended'
    <2>1. outcome' = Concluded(FailureVerdict(end), where)
      BY <1>2 DEF Plugins!Fail, Plugins!Concluded, Concluded,
         Plugins!FailureVerdict, FailureVerdict
    <2> QED
      BY <2>1, FailureVerdicts, EndsOrNot
  <1>3. CASE Plugins!ListFails \/ Plugins!SkillsFail
    BY <1>2, <1>3 DEF Plugins!ListFails, Plugins!SkillsFail
  <1>4. CASE Plugins!List \/ Plugins!ReadCatalog \/ Plugins!Scan
             \/ \E p \in world.plugins : Plugins!Replace(p)
    <2>1. outcome' = outcome /\ pc' # "done"
      BY <1>4, Zenon DEF Plugins!List, Plugins!ReadCatalog, Plugins!Scan, Plugins!Replace
    <2> QED
      BY <2>1, EndsOrNot
  <1> QED
    BY <1>1, <1>3, <1>4 DEF Plugins!Next

LEMMA UpdatesEnd == ASSUME Ended, Updates!Next PROVE Ended'
  <1>1. CASE Updates!ReadInstalledFails
    <2>1. \E end : outcome' = Concluded(FailureVerdict(end), "version")
      BY <1>1 DEF Updates!ReadInstalledFails, Updates!Concluded, Concluded,
         Updates!FailureVerdict, FailureVerdict
    <2> QED
      BY <2>1, FailureVerdicts, EndsOrNot
  <1>2. CASE Updates!ReadApp
    <2>1. outcome' = outcome /\ pc' = IF outcome = NoOutcome THEN "latest" ELSE "done"
      BY <1>2 DEF Updates!ReadApp, Updates!NoOutcome, NoOutcome, Updates!Concluded, Concluded
    <2> QED
      BY <2>1, EndsOrNot
  <1>3. CASE Updates!ReadLatest
    <2>1. \E verdict \in {"BASELINE_OK", "REVIEW"} : outcome' = Concluded(verdict, "report")
      BY <1>3, Zenon DEF Updates!ReadLatest, Updates!Concluded, Concluded
    <2> QED
      BY <2>1, EndsOrNot
  <1>4. CASE Updates!ReadLatestFails
    <2>1. outcome' = Concluded("INCOMPLETE", "source")
      BY <1>4 DEF Updates!ReadLatestFails, Updates!Concluded, Concluded
    <2> QED
      BY <2>1, EndsOrNot
  <1>5. CASE Updates!ReadInstalled \/ Updates!Publish \/ Updates!Upgrade
    <2>1. outcome' = outcome /\ pc' # "done"
      BY <1>5, Zenon DEF Updates!ReadInstalled, Updates!Publish, Updates!Upgrade
    <2> QED
      BY <2>1, EndsOrNot
  <1> QED
    BY <1>1, <1>2, <1>3, <1>4, <1>5 DEF Updates!Next

LEMMA ClaudeEnds == ASSUME Ended, Claude!Next PROVE Ended'
  <1>1. ASSUME NEW verdict \in {"INCOMPLETE", "BLOCKED"}, NEW where,
               Claude!Conclude(verdict, where)
        PROVE  Ended'
    <2>1. outcome' = Concluded(verdict, where)
      BY <1>1 DEF Claude!Conclude, Claude!Concluded, Concluded
    <2> QED
      BY <2>1, EndsOrNot
  <1>2. CASE Claude!VersionFails
    <2>1. \E end : Claude!Conclude(FailureVerdict(end), "version")
      BY <1>2 DEF Claude!VersionFails, Claude!FailureVerdict, FailureVerdict
    <2> QED
      BY <1>1, <2>1, FailureVerdicts
  <1>3. CASE Claude!Judge
    <2>1. \/ \E where : Claude!Conclude("INCOMPLETE", where)
          \/ pc' = "local" /\ UNCHANGED outcome
      BY <1>3 DEF Claude!Judge
    <2> QED
      BY <1>1, <2>1, EndsOrNot
  <1>4. CASE Claude!LocalFails
    BY <1>1, <1>4 DEF Claude!LocalFails
  <1>5. CASE Claude!Synthesize
    <2>1. \E verdict \in {"BASELINE_OK", "REVIEW"} : outcome' = Concluded(verdict, "report")
      BY <1>5, Zenon DEF Claude!Synthesize, Claude!Concluded, Concluded
    <2> QED
      BY <2>1, EndsOrNot
  <1>6. CASE \/ Claude!VersionOk \/ Claude!Spawn \/ Claude!ListingEnds
             \/ Claude!MarketplacesEnds \/ Claude!Join \/ Claude!ReadLocal
             \/ \E p \in ClaudePlugins : Claude!Examine(p) \/ Claude!Uninstall(p)
                                         \/ Claude!Install(p)
    <2>1. outcome' = outcome /\ (pc' = pc \/ pc' # "done")
      BY <1>6, Zenon DEF Claude!VersionOk, Claude!Spawn, Claude!ListingEnds,
         Claude!MarketplacesEnds, Claude!Join, Claude!ReadLocal, Claude!Examine, Claude!Uninstall,
         Claude!Install
    <2> QED
      BY <2>1, EndsOrNot
  <1> QED
    BY <1>2, <1>3, <1>4, <1>5, <1>6 DEF Claude!Next

LEMMA LocalEnds == ASSUME Ended, Local!Next PROVE Ended'
  <1>1. CASE Local!End \/ Local!ReadFails
    <2>1. \E verdict \in {"accepted", "INCOMPLETE"} : outcome' = Concluded(verdict, "local")
      BY <1>1, Zenon DEF Local!End, Local!ReadFails, Local!Concluded, Concluded
    <2> QED
      BY <2>1, EndsOrNot
  <1>2. CASE ~(Local!End \/ Local!ReadFails)
    <2>1. outcome' = outcome /\ pc' # "done"
      BY <1>2, Zenon DEF Local!Next, Local!FindRoot, Local!ReadConfig, Local!ReadMcp,
         Local!ReadSkills, Local!ReadInstruction, Local!Edit
    <2> QED
      BY <2>1, EndsOrNot
  <1> QED
    BY <1>1, <1>2

LEMMA AgentsEnd == ASSUME Ended, Agents!Next PROVE Ended'
  <1>1. CASE Agents!EndFiles \/ Agents!ReadFails
    <2>1. \E verdict \in {"accepted", "INCOMPLETE"} : outcome' = Concluded(verdict, "agents")
      BY <1>1, Zenon DEF Agents!EndFiles, Agents!ReadFails, Agents!Fail,
         Agents!Concluded, Concluded
    <2> QED
      BY <2>1, EndsOrNot
  <1>2. CASE ~(Agents!EndFiles \/ Agents!ReadFails)
    <2>1. outcome' = outcome /\ pc' # "done"
      BY <1>2, Zenon DEF Agents!Next, Agents!ReadConfig, Agents!FindRoot, Agents!ReadLayer,
         Agents!EndLayers, Agents!Examine, Agents!Edit
    <2> QED
      BY <2>1, EndsOrNot
  <1> QED
    BY <1>1, <1>2

LEMMA EndedHolds == Spec => []Ended
  <1>1. Init => Ended
    <2>1. Ending(NoOutcome)
      BY DEF Ending, NoOutcome, Concluded
    <2> QED
      BY <2>1 DEF Init, Ended, Use!Init, Use!NoOutcome, Use!Concluded,
         Plugins!Init, Plugins!NoOutcome, Plugins!Concluded,
         Updates!Init, Updates!NoOutcome, Updates!Concluded,
         Claude!Init, Claude!NoOutcome, Claude!Concluded,
         Local!Init, Local!NoOutcome, Local!Concluded,
         Agents!Init, Agents!NoOutcome, Agents!Concluded, NoOutcome, Concluded
  <1>2. Ended /\ [Next]_vars => Ended'
    <2> SUFFICES ASSUME Ended, [Next]_vars PROVE Ended'
      OBVIOUS
    <2>1. CASE Inspect
      BY <2>1, SkillsEnd, PluginsEnd, UpdatesEnd, ClaudeEnds, LocalEnds, AgentsEnd DEF Inspect
    <2>2. CASE pc' = pc /\ outcome' = outcome
      BY <2>2, EndsOrNot
    <2> QED
      BY <2>1, <2>2 DEF Next, Render, vars
  <1> QED
    BY <1>1, <1>2, PTL DEF Spec

\* What can be concluded of an outcome.
LEMMA ConclusionIs ==
  ASSUME Ended, pc = "done", NEW conclusion \in Conclusions
  PROVE  /\ conclusion.verdict \in Verdicts
         /\ conclusion.verdict \in {"BASELINE_OK", "REVIEW"} => conclusion.where = "report"
         /\ conclusion.verdict = "BASELINE_OK" => outcome.verdict \in {"BASELINE_OK", "accepted"}
         /\ conclusion.verdict = "BLOCKED" => outcome.verdict = "BLOCKED"
         /\ outcome.verdict # "accepted" => conclusion = outcome
  <1>1. outcome.verdict \in Verdicts \cup {"accepted"}
    BY DEF Ended, Ending
  <1>2. CASE outcome.verdict = "accepted"
    <2>1. PICK v \in {"BASELINE_OK", "REVIEW"} : conclusion = Concluded(v, "report")
      BY <1>2 DEF Conclusions
    <2>2. conclusion.verdict = v /\ conclusion.where = "report"
      BY <2>1 DEF Concluded
    <2> QED
      BY <1>2, <2>2 DEF Verdicts
  <1>3. CASE outcome.verdict # "accepted"
    <2>1. conclusion = outcome
      BY <1>3 DEF Conclusions
    <2> QED
      BY <1>1, <1>3, <2>1 DEF Ended, Ending
  <1> QED
    BY <1>2, <1>3

Exits ==
  [code : {-1, 0, 1, 3, 4, 101}, stdout : {"nothing", "json", "human"},
   stderr : {"nothing", "json", "human", "error"},
   flags : SUBSET {"outer", "inner", "actionable"}, items : SUBSET {"owned"}]

LEMMA ExitCodes ==
  ASSUME NEW verdict \in Verdicts
  PROVE  /\ ExitCode(verdict) \in {0, 1, 3, 4}
         /\ ExitCode(verdict) = 0 => verdict = "BASELINE_OK"
         /\ ExitCode(verdict) = 1 => verdict = "REVIEW"
         /\ ExitCode(verdict) = 4 => verdict = "BLOCKED"
  BY DEF ExitCode, Verdicts

LEMMA ListedItems ==
  ASSUME NEW flags
  PROVE  /\ Listed(flags) \in SUBSET {"owned"}
         /\ part = "skills" /\ "actionable" \in flags =>
              /\ Use!Assessed.verdict = "baseline_ok" => Listed(flags) = {}
              /\ Use!Assessed.verdict # "baseline_ok" =>
                   Listed(flags) # {} \/ Use!Assessed.status # "complete"
  <1>1. /\ DOMAIN Use!Assessed.items = {"owned"}
        /\ Use!Assessed.verdict = Use!AssessmentVerdict(Use!Assessed.status, Use!Assessed.items)
    BY Zenon DEF Use!Assessed, Use!Assess
  <1> DEFINE items == Use!Assessed.items
             shown == {s \in DOMAIN items :
                         "actionable" \in flags => Use!IsActionable(items[s].disposition)}
  <1>2. Use!ItemView(items, "actionable" \in flags).returned = shown
    BY DEF Use!ItemView
  <1>3. Listed(flags) = IF part = "skills" THEN shown ELSE {}
    BY <1>2 DEF Listed
  <1> HIDE DEF items
  <1>4. Listed(flags) \in SUBSET {"owned"}
    BY <1>1, <1>3 DEF items
  <1>5. ASSUME part = "skills", "actionable" \in flags
        PROVE  /\ Use!Assessed.verdict = "baseline_ok" => Listed(flags) = {}
               /\ Use!Assessed.verdict # "baseline_ok" =>
                    Listed(flags) # {} \/ Use!Assessed.status # "complete"
    <2>1. Use!Assessed.verdict = "baseline_ok" <=>
            Use!Assessed.status = "complete"
            /\ \A s \in DOMAIN items : ~Use!IsActionable(items[s].disposition)
      BY <1>1 DEF Use!AssessmentVerdict, items
    <2> QED
      BY <1>3, <1>5, <2>1
  <1> QED
    BY <1>4, <1>5

\* What a script sees of an exit, but for the threads.
Tells(e) ==
  /\ e.code \in {0, 1} => e.stdout # "nothing" /\ e.stderr = "nothing"
  /\ e.code = 0 => outcome.verdict \in {"BASELINE_OK", "accepted"}
  /\ e.code = 4 => outcome.verdict = "BLOCKED"
  /\ e.flags \cap {"outer", "inner"} # {} => e.stdout # "human" /\ e.stderr # "human"
  /\ part = "skills" /\ "actionable" \in e.flags =>
       /\ e.code = 0 => e.items = {}
       /\ e.code = 1 => e.items # {} \/ Use!Assessed.status # "complete"

LEMMA RenderedTells ==
  ASSUME Ended, SkillsPart, pc = "done",
         NEW flags \in SUBSET Flags, NEW conclusion \in Conclusions,
         NEW broken \in SUBSET {"stdout", "stderr"}, NEW serializable \in BOOLEAN
  PROVE  LET e == Rendered(flags, conclusion, serializable, broken)
         IN  e \in Exits /\ Tells(e)
  <1> DEFINE e == Rendered(flags, conclusion, serializable, broken)
             json == AsksJson(flags)
             unserializable == json /\ ~serializable
             toStdout == ~unserializable /\ (json \/ ~IsFailure(conclusion))
             stream == IF toStdout THEN "stdout" ELSE "stderr"
             text == IF unserializable THEN "error" ELSE IF json THEN "json" ELSE "human"
             verdict == IF unserializable THEN "INCOMPLETE" ELSE conclusion.verdict
             items == Listed(flags)
  <1>1. flags \in SUBSET {"outer", "inner", "actionable"}
    BY DEF Flags
  <1>2. items \in SUBSET {"owned"}
    BY ListedItems
  <1>3. json <=> flags \cap {"outer", "inner"} # {}
    BY DEF AsksJson
  <1>4. CASE stream \in broken
    <2>1. e = [NotExited EXCEPT !.code = 101, !.flags = flags]
      BY <1>4 DEF Rendered
    <2> HIDE DEF e
    <2>2. e = [code |-> 101, stdout |-> "nothing", stderr |-> "nothing", flags |-> flags,
               items |-> {}]
      BY <2>1 DEF NotExited
    <2>3. e \in Exits /\ Tells(e)
      BY <1>1, <2>2 DEF Exits, Tells
    <2> QED
      BY <2>3 DEF e
  <1>5. CASE stream \notin broken
    <2>1. e = [code |-> ExitCode(verdict), flags |-> flags, items |-> items,
               stdout |-> IF toStdout THEN text ELSE "nothing",
               stderr |-> IF toStdout THEN "nothing" ELSE text]
      BY <1>5 DEF Rendered
    <2>2. /\ verdict \in Verdicts
          /\ verdict \in {"BASELINE_OK", "REVIEW"} =>
               ~unserializable /\ verdict = conclusion.verdict
          /\ verdict = "BLOCKED" => ~unserializable /\ verdict = conclusion.verdict
      BY ConclusionIs DEF Verdicts
    <2>3. verdict \in {"BASELINE_OK", "REVIEW"} => toStdout
      BY <2>2, ConclusionIs DEF IsFailure
    <2>4. /\ ExitCode(verdict) \in {0, 1, 3, 4}
          /\ ExitCode(verdict) = 0 => verdict = "BASELINE_OK"
          /\ ExitCode(verdict) = 1 => verdict = "REVIEW"
          /\ ExitCode(verdict) = 4 => verdict = "BLOCKED"
      BY <2>2, ExitCodes
    <2>5. /\ text \in {"json", "human", "error"}
          /\ text = "error" => ~toStdout
          /\ json => text # "human"
      OBVIOUS
    <2>6. /\ verdict = "BASELINE_OK" => outcome.verdict \in {"BASELINE_OK", "accepted"}
          /\ verdict = "BLOCKED" => outcome.verdict = "BLOCKED"
      BY <2>2, ConclusionIs
    <2>7. ASSUME part = "skills", "actionable" \in flags
          PROVE  /\ verdict = "BASELINE_OK" => items = {}
                 /\ verdict = "REVIEW" => items # {} \/ Use!Assessed.status # "complete"
      <3>1. outcome = Concluded(IF Use!Assessed.verdict = "baseline_ok"
                                THEN "BASELINE_OK" ELSE "REVIEW", "report")
        BY <2>7 DEF SkillsPart, SkillsInv
      <3>2. /\ outcome.verdict = "BASELINE_OK" <=> Use!Assessed.verdict = "baseline_ok"
            /\ outcome.verdict \in {"BASELINE_OK", "REVIEW"}
        BY <3>1 DEF Concluded
      <3>3. verdict \in {"BASELINE_OK", "REVIEW"} => verdict = outcome.verdict
        BY <2>2, <3>2, ConclusionIs
      <3>4. /\ Use!Assessed.verdict = "baseline_ok" => items = {}
            /\ Use!Assessed.verdict # "baseline_ok" =>
                 items # {} \/ Use!Assessed.status # "complete"
        BY <2>7, ListedItems
      <3> HIDE DEF verdict, items
      <3> QED
        BY <3>2, <3>3, <3>4
    <2> DEFINE out == IF toStdout THEN text ELSE "nothing"
               err == IF toStdout THEN "nothing" ELSE text
               code == ExitCode(verdict)
    <2>8. /\ out \in {"nothing", "json", "human"} /\ err \in {"nothing", "json", "human", "error"}
          /\ toStdout => out # "nothing" /\ err = "nothing"
          /\ json => out # "human" /\ err # "human"
      BY <2>5
    <2>9. e = [code |-> code, flags |-> flags, items |-> items, stdout |-> out, stderr |-> err]
      BY <2>1
    <2> HIDE DEF e, json, unserializable, toStdout, stream, text, verdict, items, out, err, code
    <2>10. /\ e.code = code /\ e.flags = flags /\ e.items = items
           /\ e.stdout = out /\ e.stderr = err
      BY <2>9
    <2>11. code \in {0, 1, 3, 4}
      BY <2>4 DEF code
    <2>12. e \in Exits
      BY <1>1, <1>2, <2>8, <2>9, <2>11 DEF Exits
    <2>13. Tells(e)
      BY <1>3, <2>3, <2>4, <2>6, <2>7, <2>8, <2>10 DEF Tells, code
    <2> QED
      BY <2>12, <2>13 DEF e
  <1> QED
    BY <1>4, <1>5

\* Once the process has exited nothing changes, and what it showed is true.
Shown == exit # NotExited => pc = "done" /\ Tells(exit)
ExitInv == exit \in Exits /\ Shown

\* An inspection that is done takes no step.
LEMMA DoneIsLast == ASSUME ClaudePart, Inspect PROVE pc # "done"
  <1> SUFFICES ASSUME pc = "done" PROVE FALSE
    OBVIOUS
  <1>1. CASE part = "skills" /\ Use!Next
    BY <1>1, Zenon DEF Use!Next, Use!ReadClock, Use!BeginTurn, Use!CallTool, Use!OtherRecord,
       Use!Report
  <1>2. CASE part = "plugins" /\ Plugins!Next
    BY <1>2, Zenon DEF Plugins!Next, Plugins!List, Plugins!ListFails, Plugins!ReadCatalog,
       Plugins!SkillsFail, Plugins!Scan, Plugins!Build, Plugins!Replace
  <1>3. CASE part = "updates" /\ Updates!Next
    BY <1>3, Zenon DEF Updates!Next, Updates!ReadInstalled, Updates!ReadInstalledFails,
       Updates!ReadApp, Updates!ReadLatest, Updates!ReadLatestFails, Updates!Publish,
       Updates!Upgrade
  <1>4. CASE part = "claude" /\ Claude!Next
    <2>1. seen.listing # "running" /\ seen.marketplaces # "running"
      BY <1>4 DEF ClaudePart, ClaudeInv, NotRunning
    <2> QED
      BY <1>4, <2>1, Zenon DEF Claude!Next, Claude!VersionOk, Claude!VersionFails,
         Claude!Spawn, Claude!ListingEnds, Claude!MarketplacesEnds, Claude!Join, Claude!Judge,
         Claude!ReadLocal, Claude!LocalFails, Claude!Examine, Claude!Synthesize, Claude!Uninstall,
         Claude!Install
  <1>5. CASE part = "local" /\ Local!Next
    BY <1>5, Zenon DEF Local!Next, Local!FindRoot, Local!ReadConfig, Local!ReadMcp,
       Local!ReadSkills, Local!ReadInstruction, Local!End, Local!ReadFails, Local!Edit
  <1>6. CASE part = "instructions" /\ Agents!Next
    BY <1>6, Zenon DEF Agents!Next, Agents!ReadConfig, Agents!FindRoot, Agents!ReadLayer,
       Agents!EndLayers, Agents!Examine, Agents!EndFiles, Agents!ReadFails, Agents!Edit
  <1> QED
    BY <1>1, <1>2, <1>3, <1>4, <1>5, <1>6 DEF Inspect

LEMMA ExitHolds == Spec => []ExitInv
  <1>1. Init => ExitInv
    BY DEF Init, NotExited, Exits, ExitInv, Shown
  <1>2. ExitInv /\ Ended /\ SkillsPart /\ ClaudePart /\ [Next]_vars => ExitInv'
    <2> SUFFICES ASSUME ExitInv, Ended, SkillsPart, ClaudePart, [Next]_vars PROVE ExitInv'
      OBVIOUS
    <2>1. CASE Inspect
      <3>1. pc # "done"
        BY <2>1, DoneIsLast
      <3>2. exit = NotExited /\ exit' = exit
        BY <2>1, <3>1 DEF ExitInv, Shown, Inspect
      <3>3. NotExited' = NotExited
        BY DEF NotExited
      <3> QED
        BY <3>2, <3>3 DEF ExitInv, Shown, Exits
    <2>2. CASE Render
      <3>1. PICK flags \in SUBSET Flags, conclusion \in Conclusions,
                 broken \in SUBSET {"stdout", "stderr"} :
              \E serializable \in Serializable(conclusion) :
                exit' = Rendered(flags, conclusion, serializable, broken)
        BY <2>2 DEF Render
      <3>2. PICK serializable \in BOOLEAN :
              exit' = Rendered(flags, conclusion, serializable, broken)
        BY <3>1 DEF Serializable
      <3>3. pc = "done" /\ UNCHANGED <<part, pc, world, seen, outcome>>
        BY <2>2 DEF Render
      <3>4. exit' \in Exits /\ Tells(exit')
        BY <3>2, <3>3, RenderedTells
      <3>5. Use!Assessed' = Use!Assessed
        BY <3>3 DEF Use!Assessed, Use!Counters
      <3>6. Tells(exit)'
        BY <3>3, <3>4, <3>5 DEF Tells
      <3> QED
        BY <3>3, <3>4, <3>6 DEF ExitInv, Shown, Exits
    <2>3. CASE UNCHANGED vars
      <3>1. Use!Assessed' = Use!Assessed /\ UNCHANGED <<part, pc, outcome, exit>>
        BY <2>3 DEF vars, Use!Assessed, Use!Counters
      <3>2. NotExited' = NotExited /\ Exits' = Exits
        BY DEF NotExited, Exits
      <3>3. Tells(exit) => Tells(exit)'
        BY <3>1 DEF Tells
      <3> QED
        BY <3>1, <3>2, <3>3 DEF ExitInv, Shown
    <2> QED
      BY <2>1, <2>2, <2>3 DEF Next
  <1> QED
    BY <1>1, <1>2, EndedHolds, SkillsHold, ClaudeHolds, PTL DEF Spec

\* What a script sees is what was concluded, whichever inspection ran,
\* whichever flags were given and whichever stream was broken: the exit codes 0, 1
\* and 4, the stream that the report is on, the skills that --actionable lists;
\* and neither thread of the Claude inspection runs when the process exits.
THEOREM ExitIsTrue == Spec => []ExitTellsVerdict
  <1>1. ExitInv /\ ClaudePart => ExitTellsVerdict
    <2> SUFFICES ASSUME exit # NotExited, Tells(exit), pc = "done", ClaudePart
                 PROVE  /\ Tells(exit)
                        /\ part = "claude" => Claude!NothingLeftRunning
      BY DEF ExitInv, Shown, ExitTellsVerdict, Tells
    <2>1. part = "claude" => Claude!NothingLeftRunning
      BY DEF ClaudePart, ClaudeInv, NotRunning, Claude!NothingLeftRunning
    <2> QED
      BY <2>1
  <1> QED
    BY <1>1, ExitHolds, ClaudeHolds, PTL

-----------------------------------------------------------------------------
(* The types of what the other inspections know.                           *)

PluginsInv ==
  /\ pc \in {"list", "catalog", "scan", "build", "done"}
  /\ world = [home |-> world.home, plugins |-> world.plugins, removed |-> world.removed]
  /\ world.removed \in BOOLEAN
  /\ seen = [plugins |-> seen.plugins, catalog |-> seen.catalog, status |-> seen.status,
             report |-> seen.report]
  /\ seen.status \in Plugins!Statuses

LEMMA PluginsBegin == ASSUME Plugins!Init PROVE PluginsInv
  <1>1. PICK i \in Installations :
          world = [home |-> i.home, plugins |-> i.plugins, removed |-> FALSE]
    BY DEF Plugins!Init
  <1>2. /\ pc = "list"
        /\ seen = [plugins |-> {}, catalog |-> {}, status |-> "none",
                   report |-> Plugins!NoReport]
    BY DEF Plugins!Init
  <1> QED
    BY <1>1, <1>2 DEF PluginsInv, Plugins!Statuses

LEMMA PluginsKeep == ASSUME PluginsInv, Plugins!Next PROVE PluginsInv'
  <1>1. /\ world = [home |-> world.home, plugins |-> world.plugins, removed |-> world.removed]
        /\ seen = [plugins |-> seen.plugins, catalog |-> seen.catalog, status |-> seen.status,
                   report |-> seen.report]
    BY DEF PluginsInv
  <1>2. CASE Plugins!List
    <2>1. /\ pc = "list" /\ pc' = "catalog" /\ world' = world
          /\ seen' = [seen EXCEPT !.plugins = world.plugins]
      BY <1>2 DEF Plugins!List
    <2>2. seen' = [plugins |-> world.plugins, catalog |-> seen.catalog,
                   status |-> seen.status, report |-> seen.report]
      BY <1>1, <2>1
    <2> QED
      BY <2>1, <2>2 DEF PluginsInv
  <1>3. CASE Plugins!ReadCatalog
    <2> DEFINE catalog == Plugins!CatalogOf(world)
    <2>1. /\ pc = "catalog" /\ pc' = "scan" /\ world' = world
          /\ seen' = [seen EXCEPT !.catalog = catalog]
      BY <1>3 DEF Plugins!ReadCatalog
    <2> HIDE DEF catalog
    <2>2. seen' = [plugins |-> seen.plugins, catalog |-> catalog,
                   status |-> seen.status, report |-> seen.report]
      BY <1>1, <2>1
    <2> QED
      BY <2>1, <2>2 DEF PluginsInv
  <1>4. CASE Plugins!Scan
    <2>1. PICK status \in Plugins!Statuses : seen' = [seen EXCEPT !.status = status]
      BY <1>4 DEF Plugins!Scan
    <2>2. pc = "scan" /\ pc' = "build" /\ world' = world
      BY <1>4 DEF Plugins!Scan
    <2>3. seen' = [plugins |-> seen.plugins, catalog |-> seen.catalog,
                   status |-> status, report |-> seen.report]
      BY <1>1, <2>1
    <2> QED
      BY <2>1, <2>2, <2>3 DEF PluginsInv
  <1>5. CASE Plugins!Build
    <2>1. PICK report : seen' = [seen EXCEPT !.report = report]
      BY <1>5 DEF Plugins!Build
    <2>2. pc = "build" /\ pc' = "done" /\ world' = world
      BY <1>5 DEF Plugins!Build
    <2>3. seen' = [plugins |-> seen.plugins, catalog |-> seen.catalog,
                   status |-> seen.status, report |-> report]
      BY <1>1, <2>1
    <2> QED
      BY <2>2, <2>3 DEF PluginsInv
  <1>6. CASE Plugins!ListFails \/ Plugins!SkillsFail
    <2>1. pc' = "done" /\ world' = world /\ seen' = seen
      BY <1>6 DEF Plugins!ListFails, Plugins!SkillsFail, Plugins!Fail
    <2> QED
      BY <2>1 DEF PluginsInv
  <1>7. ASSUME NEW p \in world.plugins, Plugins!Replace(p) PROVE PluginsInv'
    <2>1. PICK plugins : world' = [world EXCEPT !.plugins = plugins, !.removed = TRUE]
      BY <1>7 DEF Plugins!Replace
    <2>2. pc' = pc /\ seen' = seen
      BY <1>7 DEF Plugins!Replace
    <2>3. world' = [home |-> world.home, plugins |-> plugins, removed |-> TRUE]
      BY <1>1, <2>1
    <2> QED
      BY <2>2, <2>3 DEF PluginsInv
  <1> QED
    BY <1>2, <1>3, <1>4, <1>5, <1>6, <1>7 DEF Plugins!Next

LocalInv ==
  /\ pc \in {"root", "config", "mcp", "skills", "instructions", "done"}
  /\ world = [now |-> world.now, before |-> world.before, edited |-> world.edited]
  /\ world.edited \/ world.now = world.before
  /\ seen = [dir |-> seen.dir, file |-> seen.file, root |-> seen.root, user |-> seen.user,
             local |-> seen.local, key |-> seen.key, project |-> seen.project,
             personalSkills |-> seen.personalSkills, projectSkills |-> seen.projectSkills,
             sources |-> seen.sources]
  /\ seen.dir \in 0..(Depth + 1) /\ seen.root \in 0..Depth
  /\ seen.key \in {"none", "exact", "canonical"}
  /\ pc # "done" /\ pc # "instructions" => seen.dir <= Depth

LEMMA LocalBegins == ASSUME Local!Init PROVE LocalInv
  <1>1. PICK t \in ClaudeTrees : world = [now |-> t, before |-> t, edited |-> FALSE]
    BY DEF Local!Init
  <1>2. pc = "root" /\ seen = Local!NothingSeen
    BY DEF Local!Init
  <1>3. Depth \in Nat
    BY CommandAssumption
  <1> QED
    BY <1>1, <1>2, <1>3 DEF LocalInv, Local!NothingSeen

LEMMA LocalDirectories ==
  ASSUME seen.root \in 0..Depth, NEW d \in 0..Depth
  PROVE  /\ Local!NextDirectory(d) \in 0..(Depth + 1)
         /\ d # Depth => Local!NextDirectory(d) \in 0..Depth
  <1>1. Depth \in Nat \ {0}
    BY CommandAssumption
  <1>2. Local!FirstDirectory(seen.root) \in 0..Depth
    BY <1>1 DEF Local!FirstDirectory
  <1> QED
    BY <1>1, <1>2 DEF Local!NextDirectory

LEMMA LocalKeeps == ASSUME LocalInv, Local!Next PROVE LocalInv'
  <1>1. /\ world = [now |-> world.now, before |-> world.before, edited |-> world.edited]
        /\ seen = [dir |-> seen.dir, file |-> seen.file, root |-> seen.root, user |-> seen.user,
                   local |-> seen.local, key |-> seen.key, project |-> seen.project,
                   personalSkills |-> seen.personalSkills,
                   projectSkills |-> seen.projectSkills, sources |-> seen.sources]
        /\ seen.dir \in 0..(Depth + 1) /\ seen.root \in 0..Depth
    BY DEF LocalInv
  <1>2. Depth \in Nat \ {0}
    BY CommandAssumption
  <1>3. CASE Local!FindRoot
    <2>1. /\ pc = "root" /\ world' = world
          /\ \/ seen.dir > 1 /\ seen' = [seen EXCEPT !.dir = @ - 1] /\ pc' = pc
             \/ \E r \in {0, seen.dir} : seen' = [seen EXCEPT !.root = r] /\ pc' = "config"
      BY <1>3, Zenon DEF Local!FindRoot
    <2>2. seen.dir <= Depth
      BY <2>1 DEF LocalInv
    <2>3. CASE seen.dir > 1 /\ seen' = [seen EXCEPT !.dir = @ - 1] /\ pc' = pc
      <3> DEFINE d == seen.dir - 1
      <3>1. seen' = [seen EXCEPT !.dir = d]
        BY <2>3
      <3>2. d \in 0..Depth
        BY <1>1, <1>2, <2>2, <2>3
      <3>3. d \in 0..(Depth + 1) /\ d <= Depth
        BY <1>2, <3>2
      <3> HIDE DEF d
      <3> QED
        BY <1>1, <2>1, <2>3, <3>1, <3>3 DEF LocalInv
    <2>4. ASSUME NEW r \in {0, seen.dir}, seen' = [seen EXCEPT !.root = r], pc' = "config"
          PROVE  LocalInv'
      <3>1. r \in 0..Depth
        BY <1>1, <1>2, <2>2
      <3> QED
        BY <1>1, <2>1, <2>2, <2>4, <3>1 DEF LocalInv
    <2> QED
      BY <2>1, <2>3, <2>4
  <1>4. CASE Local!ReadConfig
    <2>1. pc = "config" /\ pc' = "mcp" /\ world' = world
      BY <1>4 DEF Local!ReadConfig
    <2>2. PICK config : seen' = [seen EXCEPT !.user = config.user,
                                             !.key = Local!MatchingKey(config),
                                             !.local = Local!LocalServers(config)]
      BY <1>4, Zenon DEF Local!ReadConfig
    <2> DEFINE user == config.user
               key == Local!MatchingKey(config)
               local == Local!LocalServers(config)
    <2>3. key \in {"none", "exact", "canonical"}
      BY DEF Local!MatchingKey
    <2>4. seen' = [seen EXCEPT !.user = user, !.key = key, !.local = local]
      BY <2>2
    <2> HIDE DEF user, key, local
    <2>5. seen.dir <= Depth
      BY <2>1 DEF LocalInv
    <2> QED
      BY <1>1, <2>1, <2>5, <2>3, <2>4 DEF LocalInv
  <1>5. CASE Local!ReadMcp
    <2>1. PICK n : seen' = [seen EXCEPT !.project = n, !.dir = 0]
      BY <1>5, Zenon DEF Local!ReadMcp
    <2>2. pc' = "skills" /\ world' = world
      BY <1>5 DEF Local!ReadMcp
    <2>3. 0 \in 0..(Depth + 1) /\ 0 <= Depth
      BY <1>2
    <2> QED
      BY <1>1, <2>1, <2>2, <2>3 DEF LocalInv
  <1>6. CASE Local!ReadSkills
    <2> DEFINE next == IF seen.dir = Depth THEN 0 ELSE Local!NextDirectory(seen.dir)
    <2>1. PICK m, n : seen' = [seen EXCEPT !.personalSkills = m, !.projectSkills = n,
                                           !.dir = next]
      BY <1>6, Zenon DEF Local!ReadSkills
    <2>2. pc = "skills" /\ pc' \in {"instructions", "skills"} /\ world' = world
      BY <1>6 DEF Local!ReadSkills
    <2>3. seen.dir \in 0..Depth
      BY <1>1, <1>2, <2>2 DEF LocalInv
    <2>4. next \in 0..Depth
      BY <1>1, <1>2, <2>3, LocalDirectories
    <2>5. next \in 0..(Depth + 1) /\ next <= Depth
      BY <1>2, <2>4
    <2> HIDE DEF next
    <2> QED
      BY <1>1, <2>1, <2>2, <2>5 DEF LocalInv
  <1>7. CASE Local!ReadInstruction
    <2>1. PICK sources, file, dir :
            /\ dir \in {seen.dir, Local!NextDirectory(seen.dir)}
            /\ seen' = [seen EXCEPT !.sources = sources, !.file = file, !.dir = dir]
      <3> DEFINE name == Local!InstructionNames[seen.file]
                 last == seen.dir = 0 \/ seen.file = 3
                 sources == IF Local!File(seen.dir, name) = Absent THEN seen.sources
                            ELSE Append(seen.sources, <<seen.dir, name>>)
                 file == IF last THEN 1 ELSE seen.file + 1
                 dir == IF last THEN Local!NextDirectory(seen.dir) ELSE seen.dir
      <3>1. seen' = [seen EXCEPT !.sources = sources, !.file = file, !.dir = dir]
        BY <1>7, Zenon DEF Local!ReadInstruction
      <3>2. dir \in {seen.dir, Local!NextDirectory(seen.dir)}
        OBVIOUS
      <3> HIDE DEF sources, file, dir
      <3> QED
        BY <3>1, <3>2
    <2>2. pc = "instructions" /\ pc' = pc /\ world' = world /\ seen.dir <= Depth
      BY <1>7 DEF Local!ReadInstruction
    <2>3. seen.dir \in 0..Depth
      BY <1>1, <1>2, <2>2
    <2>4. dir \in 0..(Depth + 1)
      BY <1>1, <2>1, <2>3, LocalDirectories
    <2> QED
      BY <1>1, <2>1, <2>2, <2>4 DEF LocalInv
  <1>8. CASE Local!End \/ Local!ReadFails
    <2>1. pc' = "done" /\ world' = world /\ seen' = seen
      BY <1>8 DEF Local!End, Local!ReadFails
    <2> QED
      BY <2>1 DEF LocalInv
  <1>9. CASE Local!Edit
    <2>1. PICK now : world' = [world EXCEPT !.now = now, !.edited = TRUE]
      BY <1>9, Zenon DEF Local!Edit
    <2>2. pc' = pc /\ seen' = seen
      BY <1>9 DEF Local!Edit
    <2>3. world' = [now |-> now, before |-> world.before, edited |-> TRUE]
      BY <1>1, <2>1
    <2> QED
      BY <2>2, <2>3 DEF LocalInv
  <1> QED
    BY <1>3, <1>4, <1>5, <1>6, <1>7, <1>8, <1>9 DEF Local!Next

AgentsInv ==
  /\ pc \in {"config", "root", "layers", "files", "done"}
  /\ world = [now |-> world.now, before |-> world.before, edited |-> world.edited]
  /\ world.edited \/ world.now = world.before
  /\ Agents!IsTree(world.now)
  /\ seen = [user |-> seen.user, dir |-> seen.dir, file |-> seen.file, root |-> seen.root,
             max |-> seen.max, fallbacks |-> seen.fallbacks, layers |-> seen.layers,
             sources |-> seen.sources, bytes |-> seen.bytes]
  /\ seen.dir \in 0..(Depth + 1) /\ seen.root \in 0..Depth
  /\ pc \in {"config", "root"} => 1 <= seen.dir /\ seen.dir <= Depth
  /\ pc = "layers" => 1 <= seen.dir
  /\ seen.max \in Nat
  /\ pc # "files" /\ pc # "done" => seen.bytes = 0
  /\ seen.bytes <= seen.max

LEMMA AgentsBegin == ASSUME Agents!Init PROVE AgentsInv
  <1>1. PICK t \in InstructionTrees : world = [now |-> t, before |-> t, edited |-> FALSE]
    BY DEF Agents!Init
  <1>2. pc = "config" /\ seen = Agents!NothingSeen
    BY DEF Agents!Init
  <1>3. Depth \in Nat \ {0} /\ DefaultMaxBytes \in Nat
    BY CommandAssumption
  <1>4. Agents!IsTree(world.now)
    <2>1. world.now \in InstructionTrees
      BY <1>1
    <2> QED
      BY <2>1, CommandAssumption
  <1>5. seen = [user |-> Agents!NoConfig, dir |-> Depth, file |-> 1, root |-> 0,
                max |-> DefaultMaxBytes, fallbacks |-> << >>, layers |-> << >>,
                sources |-> << >>, bytes |-> 0]
    BY <1>2 DEF Agents!NothingSeen
  <1>6. /\ world = [now |-> world.now, before |-> world.before, edited |-> world.edited]
        /\ world.edited \/ world.now = world.before
    BY <1>1
  <1> QED
    BY <1>2, <1>3, <1>4, <1>5, <1>6 DEF AgentsInv

\* A setting of a configuration that was read.
LEMMA BudgetIsNumber ==
  ASSUME NEW tree, Agents!IsTree(tree), NEW l \in Agents!Files, l[2] \in {"config", "layer"},
         NEW default \in Nat, NEW config, tree[l] # Denied,
         config = IF tree[l] = Absent THEN Agents!NoConfig ELSE tree[l]
  PROVE  Agents!OrElse(config.max, default) \in Nat
  <1>1. config.max \subseteq Nat
    <2>1. CASE tree[l] = Absent
      BY <2>1 DEF Agents!NoConfig
    <2>2. CASE tree[l] # Absent
      BY <2>2, Zenon DEF Agents!IsTree, Agents!IsContent
    <2> QED
      BY <2>1, <2>2
  <1> DEFINE values == config.max
  <1>2. values \subseteq Nat
    BY <1>1
  <1> HIDE DEF values
  <1>3. IF values = {} THEN default \in Nat ELSE (CHOOSE v \in values : TRUE) \in Nat
    BY <1>2
  <1> QED
    BY <1>3 DEF Agents!OrElse, values

LEMMA AgentsDirectories ==
  ASSUME NEW r \in 0..Depth
  PROVE  /\ Agents!FirstDirectory(r) \in 0..(Depth + 1)
         /\ 1 <= Agents!FirstDirectory(r) /\ Agents!FirstDirectory(r) <= Depth
  <1>1. Depth \in Nat \ {0}
    BY CommandAssumption
  <1> QED
    BY <1>1 DEF Agents!FirstDirectory

LEMMA AgentsNext ==
  ASSUME seen.root \in 0..Depth, NEW d \in 0..Depth
  PROVE  Agents!NextDirectory(d) \in 0..(Depth + 1)
  <1>1. Depth \in Nat \ {0}
    BY CommandAssumption
  <1> QED
    BY <1>1, AgentsDirectories DEF Agents!NextDirectory

LEMMA AgentsKeep == ASSUME AgentsInv, Agents!Next PROVE AgentsInv'
  <1>1. /\ world = [now |-> world.now, before |-> world.before, edited |-> world.edited]
        /\ Agents!IsTree(world.now)
        /\ seen = [user |-> seen.user, dir |-> seen.dir, file |-> seen.file,
                   root |-> seen.root, max |-> seen.max, fallbacks |-> seen.fallbacks,
                   layers |-> seen.layers, sources |-> seen.sources, bytes |-> seen.bytes]
        /\ seen.dir \in 0..(Depth + 1) /\ seen.root \in 0..Depth /\ seen.max \in Nat
        /\ seen.bytes <= seen.max
    BY DEF AgentsInv
  <1>2. Depth \in Nat \ {0} /\ DefaultMaxBytes \in Nat
    BY CommandAssumption
  <1>3. CASE Agents!ReadConfig
    <2>1. PICK user :
            /\ user = IF world.now[<<0, "config">>] = Absent THEN Agents!NoConfig
                      ELSE world.now[<<0, "config">>]
            /\ seen' = [seen EXCEPT !.user = user,
                                    !.max = Agents!OrElse(user.max, DefaultMaxBytes),
                                    !.fallbacks = Agents!OrElse(user.fallbacks, << >>),
                                    !.root = IF user.markers THEN 0 ELSE Depth]
      BY <1>3, Zenon DEF Agents!ReadConfig, Agents!File
    <2>2. /\ pc = "config" /\ pc' \in {"root", "layers"} /\ world' = world
          /\ world.now[<<0, "config">>] # Denied
      BY <1>3 DEF Agents!ReadConfig, Agents!File
    <2> DEFINE max == Agents!OrElse(user.max, DefaultMaxBytes)
               fallbacks == Agents!OrElse(user.fallbacks, << >>)
               root == IF user.markers THEN 0 ELSE Depth
    <2>3. max \in Nat
      <3>1. <<0, "config">> \in Agents!Files
        BY Zenon DEF Agents!Files
      <3> QED
        BY <1>1, <1>2, <2>1, <2>2, <3>1, BudgetIsNumber
    <2>4. root \in 0..Depth
      BY <1>2
    <2>5. seen' = [seen EXCEPT !.user = user, !.max = max, !.fallbacks = fallbacks,
                               !.root = root]
      BY <2>1
    <2> HIDE DEF max, fallbacks, root
    <2>6. seen' = [user |-> user, dir |-> seen.dir, file |-> seen.file,
                   root |-> root, max |-> max, fallbacks |-> fallbacks,
                   layers |-> seen.layers, sources |-> seen.sources, bytes |-> seen.bytes]
      BY <1>1, <2>5
    <2>7. 1 <= seen.dir /\ seen.dir <= Depth /\ seen.bytes = 0
      BY <2>2 DEF AgentsInv
    <2>8. 0 <= max
      BY <2>3
    <2> QED
      BY <1>1, <2>2, <2>3, <2>4, <2>6, <2>7, <2>8 DEF AgentsInv
  <1>4. CASE Agents!FindRoot
    <2>1. pc = "root" /\ world' = world
      BY <1>4 DEF Agents!FindRoot
    <2>2. 1 <= seen.dir /\ seen.dir <= Depth /\ seen.bytes = 0
      BY <2>1 DEF AgentsInv
    <2>3. CASE seen.dir > 1 /\ seen' = [seen EXCEPT !.dir = @ - 1] /\ pc' = pc
      <3> DEFINE d == seen.dir - 1
      <3>1. seen' = [seen EXCEPT !.dir = d]
        BY <2>3
      <3>2. d \in 0..(Depth + 1) /\ 1 <= d /\ d <= Depth
        BY <1>1, <1>2, <2>2, <2>3
      <3> HIDE DEF d
      <3> QED
        BY <1>1, <2>1, <2>2, <2>3, <3>1, <3>2 DEF AgentsInv
    <2>4. ASSUME NEW r \in {0, seen.dir}, pc' = "layers",
                 seen' = [seen EXCEPT !.root = r, !.dir = Agents!FirstDirectory(r)]
          PROVE  AgentsInv'
      <3> DEFINE d == Agents!FirstDirectory(r)
      <3>1. r \in 0..Depth
        BY <1>1, <1>2, <2>2
      <3>2. d \in 0..(Depth + 1) /\ 1 <= d
        BY <3>1, AgentsDirectories
      <3>3. seen' = [seen EXCEPT !.root = r, !.dir = d]
        BY <2>4
      <3> HIDE DEF d
      <3> QED
        BY <1>1, <2>1, <2>2, <2>4, <3>1, <3>2, <3>3 DEF AgentsInv
    <2>5. \/ seen.dir > 1 /\ seen' = [seen EXCEPT !.dir = @ - 1] /\ pc' = pc
          \/ \E r \in {0, seen.dir} :
               /\ seen' = [seen EXCEPT !.root = r, !.dir = Agents!FirstDirectory(r)]
               /\ pc' = "layers"
      BY <1>4, Zenon DEF Agents!FindRoot
    <2> QED
      BY <2>3, <2>4, <2>5
  <1>5. CASE Agents!ReadLayer
    <2>1. pc = "layers" /\ pc' = pc /\ world' = world /\ seen.dir <= Depth
      BY <1>5, Zenon DEF Agents!ReadLayer
    <2>2. PICK layer, layers :
            /\ layer = IF world.now[<<seen.dir, "layer">>] = Absent
                       THEN Agents!NoConfig ELSE world.now[<<seen.dir, "layer">>]
            /\ seen' = [seen EXCEPT !.dir = @ + 1, !.max = Agents!OrElse(layer.max, @),
                                    !.fallbacks = Agents!OrElse(layer.fallbacks, @),
                                    !.layers = layers]
      BY <1>5, Zenon DEF Agents!ReadLayer, Agents!File
    <2>3. 1 <= seen.dir /\ seen.bytes = 0
      BY <2>1 DEF AgentsInv
    <2> DEFINE max == Agents!OrElse(layer.max, seen.max)
               fallbacks == Agents!OrElse(layer.fallbacks, seen.fallbacks)
               d == seen.dir + 1
    <2>4. max \in Nat
      <3>1. seen.dir \in 1..Depth
        BY <1>1, <1>2, <2>1, <2>3
      <3>2. <<seen.dir, "layer">> \in Agents!Files
        BY <3>1, Zenon DEF Agents!Files
      <3>3. world.now[<<seen.dir, "layer">>] # Denied
        BY <1>5, Zenon DEF Agents!ReadLayer, Agents!File
      <3> QED
        BY <1>1, <2>2, <3>2, <3>3, BudgetIsNumber, Zenon
    <2>5. d \in 0..(Depth + 1) /\ 1 <= d
      BY <1>1, <1>2, <2>1, <2>3
    <2>6. seen' = [seen EXCEPT !.dir = d, !.max = max, !.fallbacks = fallbacks,
                               !.layers = layers]
      BY <2>2, Zenon
    <2> HIDE DEF max, fallbacks, d
    <2>7. seen' = [user |-> seen.user, dir |-> d, file |-> seen.file,
                   root |-> seen.root, max |-> max, fallbacks |-> fallbacks,
                   layers |-> layers, sources |-> seen.sources, bytes |-> seen.bytes]
      BY <1>1, <2>6
    <2>8. 0 <= max
      BY <2>4
    <2> QED
      BY <1>1, <2>1, <2>3, <2>4, <2>5, <2>7, <2>8 DEF AgentsInv
  <1>6. CASE Agents!EndLayers
    <2>1. pc = "layers" /\ pc' = "files" /\ world' = world /\ seen' = [seen EXCEPT !.dir = 0]
      BY <1>6 DEF Agents!EndLayers
    <2>2. 0 \in 0..(Depth + 1)
      BY <1>2
    <2> QED
      BY <1>1, <2>1, <2>2 DEF AgentsInv
  <1>7. CASE Agents!Examine
    <2>1. pc = "files" /\ pc' = pc /\ world' = world /\ seen.dir <= Depth
      BY <1>7, Zenon DEF Agents!Examine
    <2>2. seen.dir \in 0..Depth
      BY <1>1, <1>2, <2>1
    <2> DEFINE next == Agents!NextDirectory(seen.dir)
               last == Depth + 1
    <2>3. next \in 0..(Depth + 1) /\ last \in 0..(Depth + 1)
      BY <1>1, <1>2, <2>2, AgentsNext
    <2>4. \/ seen' = [seen EXCEPT !.dir = last]
          \/ \E bytes, sources :
               /\ bytes <= seen.max
               /\ seen' = [seen EXCEPT !.dir = next, !.file = 1,
                                       !.bytes = bytes, !.sources = sources]
          \/ seen' = [seen EXCEPT !.file = @ + 1]
          \/ seen' = [seen EXCEPT !.dir = next, !.file = 1]
      <3> DEFINE names == Agents!Candidates(seen.dir, seen.fallbacks)
                 size == Agents!File(seen.dir, names[seen.file])
                 bytes == seen.bytes + size
                            + (IF seen.sources = << >> THEN 0 ELSE SeparatorBytes)
                 sources == Append(seen.sources, <<seen.dir, names[seen.file]>>)
      <3>1. \/ seen' = [seen EXCEPT !.dir = last]
            \/ /\ bytes <= seen.max
               /\ seen' = [seen EXCEPT !.dir = next, !.file = 1,
                                       !.bytes = bytes, !.sources = sources]
            \/ seen' = [seen EXCEPT !.file = @ + 1]
            \/ seen' = [seen EXCEPT !.dir = next, !.file = 1]
        BY <1>7, Zenon DEF Agents!Examine
      <3> HIDE DEF bytes, sources
      <3> QED
        BY <3>1, Zenon
    <2> HIDE DEF next, last
    <2>5. CASE seen' = [seen EXCEPT !.dir = last]
      BY <1>1, <2>1, <2>3, <2>5 DEF AgentsInv
    <2>6. ASSUME NEW bytes, NEW sources, bytes <= seen.max,
                 seen' = [seen EXCEPT !.dir = next, !.file = 1, !.bytes = bytes,
                                      !.sources = sources]
          PROVE  AgentsInv'
      BY <1>1, <2>1, <2>3, <2>6 DEF AgentsInv
    <2>7. CASE seen' = [seen EXCEPT !.file = @ + 1]
      BY <1>1, <2>1, <2>7 DEF AgentsInv
    <2>8. CASE seen' = [seen EXCEPT !.dir = next, !.file = 1]
      BY <1>1, <2>1, <2>3, <2>8 DEF AgentsInv
    <2> QED
      BY <2>4, <2>5, <2>6, <2>7, <2>8
  <1>8. CASE Agents!EndFiles \/ Agents!ReadFails
    <2>1. pc' = "done" /\ world' = world /\ seen' = seen
      BY <1>8 DEF Agents!EndFiles, Agents!ReadFails, Agents!Fail
    <2> QED
      BY <1>1, <2>1 DEF AgentsInv
  <1>9. CASE Agents!Edit
    <2>1. PICK e \in Edits : world' = [world EXCEPT !.now[e[1]] = e[2], !.edited = TRUE]
      BY <1>9 DEF Agents!Edit
    <2>2. pc' = pc /\ seen' = seen
      BY <1>9 DEF Agents!Edit
    <2> DEFINE now == [world.now EXCEPT ![e[1]] = e[2]]
    <2>3. world' = [now |-> now, before |-> world.before, edited |-> TRUE]
      BY <1>1, <2>1
    <2>4. Agents!IsTree(now)
      <3>1. DOMAIN now = DOMAIN world.now
        OBVIOUS
      <3>2. \A l \in DOMAIN world.now : now[l] = IF l = e[1] THEN e[2] ELSE world.now[l]
        OBVIOUS
      <3>3. Agents!IsContent(e[1], e[2])
        BY CommandAssumption
      <3> HIDE DEF now
      <3> QED
        BY <1>1, <3>1, <3>2, <3>3 DEF Agents!IsTree
    <2> HIDE DEF now
    <2> QED
      BY <1>1, <2>2, <2>3, <2>4 DEF AgentsInv
  <1> QED
    BY <1>3, <1>4, <1>5, <1>6, <1>7, <1>8, <1>9 DEF Agents!Next

-----------------------------------------------------------------------------
(* The types of the whole command.                                         *)

PluginsPart == part = "plugins" => PluginsInv
LocalPart == part = "local" => LocalInv
AgentsPart == part = "instructions" => AgentsInv

LEMMA PluginsHold == Spec => []PluginsPart
  <1>1. Init => PluginsPart
    BY PluginsBegin DEF Init, PluginsPart
  <1>2. PluginsPart /\ [Next]_vars => PluginsPart'
    <2> SUFFICES ASSUME PluginsPart, [Next]_vars, part' = "plugins"
                 PROVE  PluginsInv'
      BY DEF PluginsPart
    <2>1. part = "plugins" /\ PluginsInv
      BY DEF PluginsPart, Next, Inspect, Render, vars
    <2>2. CASE Inspect
      <3>1. Plugins!Next
        BY <2>1, <2>2 DEF Inspect
      <3> QED
        BY <2>1, <3>1, PluginsKeep
    <2>3. CASE UNCHANGED <<pc, world, seen, outcome>>
      BY <2>1, <2>3 DEF PluginsInv
    <2> QED
      BY <2>2, <2>3 DEF Next, Render, vars
  <1> QED
    BY <1>1, <1>2, PTL DEF Spec

LEMMA LocalHolds == Spec => []LocalPart
  <1>1. Init => LocalPart
    BY LocalBegins DEF Init, LocalPart
  <1>2. LocalPart /\ [Next]_vars => LocalPart'
    <2> SUFFICES ASSUME LocalPart, [Next]_vars, part' = "local"
                 PROVE  LocalInv'
      BY DEF LocalPart
    <2>1. part = "local" /\ LocalInv
      BY DEF LocalPart, Next, Inspect, Render, vars
    <2>2. CASE Inspect
      <3>1. Local!Next
        BY <2>1, <2>2 DEF Inspect
      <3> QED
        BY <2>1, <3>1, LocalKeeps
    <2>3. CASE UNCHANGED <<pc, world, seen, outcome>>
      BY <2>1, <2>3 DEF LocalInv
    <2> QED
      BY <2>2, <2>3 DEF Next, Render, vars
  <1> QED
    BY <1>1, <1>2, PTL DEF Spec

LEMMA AgentsHold == Spec => []AgentsPart
  <1>1. Init => AgentsPart
    BY AgentsBegin DEF Init, AgentsPart
  <1>2. AgentsPart /\ [Next]_vars => AgentsPart'
    <2> SUFFICES ASSUME AgentsPart, [Next]_vars, part' = "instructions"
                 PROVE  AgentsInv'
      BY DEF AgentsPart
    <2>1. part = "instructions" /\ AgentsInv
      BY DEF AgentsPart, Next, Inspect, Render, vars
    <2>2. CASE Inspect
      <3>1. Agents!Next
        BY <2>1, <2>2 DEF Inspect
      <3> QED
        BY <2>1, <3>1, AgentsKeep
    <2>3. CASE UNCHANGED <<pc, world, seen, outcome>>
      BY <2>1, <2>3 DEF AgentsInv
    <2> QED
      BY <2>2, <2>3 DEF Next, Render, vars
  <1> QED
    BY <1>1, <1>2, PTL DEF Spec

Parts == {"skills", "plugins", "updates", "claude", "local", "instructions"}
OnePart == part \in Parts

LEMMA OnePartRuns == Spec => []OnePart
  <1>1. Init => OnePart
    BY DEF Init, OnePart, Parts
  <1>2. OnePart /\ [Next]_vars => OnePart'
    BY DEF OnePart, Parts, Next, Inspect, Render, vars
  <1> QED
    BY <1>1, <1>2, PTL DEF Spec

LEMMA SkillsTyped == ASSUME SkillsInv PROVE Use!TypeOK
  <1>1. Happened(world) /\ Placed(seen)
    BY DEF SkillsInv, Numbered
  <1>2. world \in World /\ seen \in Known
    BY <1>1 DEF Happened, Placed
  <1>3. world.turns \in 0..MaxTurns /\ world.calls \in 0..MaxCalls
    <2>1. MaxTurns \in Nat /\ MaxCalls \in Nat
      BY CommandAssumption
    <2>2. world.turns \in Nat /\ world.calls \in Nat
      BY <1>2 DEF World
    <2> QED
      BY <1>1, <2>1, <2>2 DEF Happened
  <1>4. world.readIn \subseteq 0..world.turns
    <2>1. world.readIn \subseteq Nat /\ world.turns \in Nat
      BY <1>2 DEF World
    <2>2. \A i \in world.readIn : i <= world.turns
      BY <1>1 DEF Happened
    <2> QED
      BY <2>1, <2>2
  <1>5. seen.ordinal <= world.turns
    BY DEF SkillsInv, Numbered
  <1>6. seen.bad \subseteq 1..seen.pos
    <2>1. seen.bad \subseteq Nat /\ seen.pos \in Nat
      BY <1>2 DEF Known
    <2>2. \A b \in seen.bad : 1 <= b /\ b <= seen.pos
      BY DEF SkillsInv, Numbered
    <2> QED
      BY <2>1, <2>2
  <1>7. pc \in {"clock", "log", "done"}
    BY DEF SkillsInv
  <1> QED
    BY <1>3, <1>4, <1>5, <1>6, <1>7 DEF Use!TypeOK

LEMMA PluginsTyped == ASSUME PluginsInv PROVE Plugins!TypeOK
  <1>1. world = [home |-> world.home, plugins |-> world.plugins, removed |-> world.removed]
    BY DEF PluginsInv
  <1>2. DOMAIN world = {"home", "plugins", "removed"}
    BY <1>1
  <1> QED
    BY <1>2 DEF PluginsInv, Plugins!TypeOK

\* Whichever inspection a command runs, what it knows has its type, and so has
\* what the process shows: a place in a tree is one of the tree, a budget that a
\* file may set is a number and what was read stays within it, a count of turns is
\* bounded by the turns there were.
THEOREM TypeCorrect == Spec => []TypeOK
  <1>1. SkillsPart => (part = "skills" => Use!TypeOK)
    BY SkillsTyped DEF SkillsPart
  <1>2. PluginsPart => (part = "plugins" => Plugins!TypeOK)
    BY PluginsTyped DEF PluginsPart
  <1>3. UpdatesPart => (part = "updates" => Updates!TypeOK)
    BY DEF UpdatesPart, UpdatesInv, Versions, VersionsSeen, Updates!TypeOK
  <1>4. ClaudePart => (part = "claude" => Claude!TypeOK)
    BY DEF ClaudePart, ClaudeInv, PluginWorld, ClaudeSeen, Found, Claude!TypeOK
  <1>5. LocalPart => (part = "local" => Local!TypeOK)
    BY DEF LocalPart, LocalInv, Local!TypeOK
  <1>6. AgentsPart => (part = "instructions" => Agents!TypeOK)
    BY DEF AgentsPart, AgentsInv, Agents!TypeOK
  <1>7. Ended => outcome.verdict \in Verdicts \cup {"none", "accepted"}
    BY DEF Ended, Ending
  <1>8. OnePart /\ ExitInv =>
          /\ part \in {"skills", "plugins", "updates", "claude", "local", "instructions"}
          /\ exit \in Exits
    BY DEF OnePart, Parts, ExitInv
  <1>9. /\ SkillsPart /\ PluginsPart /\ UpdatesPart /\ ClaudePart /\ LocalPart
        /\ AgentsPart /\ Ended /\ OnePart /\ ExitInv
        => TypeOK
    BY <1>1, <1>2, <1>3, <1>4, <1>5, <1>6, <1>7, <1>8 DEF TypeOK, Exits
  <1> QED
    BY <1>9, SkillsHold, PluginsHold, UpdatesHold, ClaudeHolds, LocalHolds, AgentsHold,
       EndedHolds, OnePartRuns, ExitHolds, PTL

-----------------------------------------------------------------------------
(* Paths, and the links among them.                                        *)

\* The names of a path, with those that the command adds.
Names == STRING \cup {"home", "plugins", "cache", "SKILL.md"}
Paths == Seq(Names)

LEMMA PathsOfStrings == \A s \in Seq(STRING) : s \in Paths
  BY DEF Paths, Names

LEMMA PrefixIs ==
  ASSUME NEW a \in Paths, NEW b \in Paths
  PROVE  Plugins!IsPrefix(a, b) <=> Len(a) <= Len(b) /\ \A i \in 1..Len(a) : a[i] = b[i]
  <1> DEFINE c == SubSeq(a, 1, Len(a))
             d == SubSeq(b, 1, Len(a))
  <1>1. Plugins!IsPrefix(a, b) <=> Len(a) <= Len(b) /\ c = d
    BY DEF Plugins!IsPrefix
  <1>2. Len(a) \in Nat /\ Len(b) \in Nat
    BY DEF Paths
  <1>3. c \in Seq(Names) /\ Len(c) = Len(a) /\ \A i \in 1..Len(a) : c[i] = a[i]
    BY DEF Paths
  <1>4. ASSUME Len(a) <= Len(b)
        PROVE  d \in Seq(Names) /\ Len(d) = Len(a) /\ \A i \in 1..Len(a) : d[i] = b[i]
    BY <1>2, <1>4 DEF Paths
  <1> HIDE DEF c, d
  <1>5. ASSUME Len(a) <= Len(b), \A i \in 1..Len(a) : a[i] = b[i]
        PROVE  c = d
    <2>1. \A i \in 1..Len(a) : c[i] = d[i]
      BY <1>3, <1>4, <1>5
    <2> QED
      BY <1>3, <1>4, <1>5, <2>1
  <1>6. ASSUME Len(a) <= Len(b), c = d
        PROVE  \A i \in 1..Len(a) : a[i] = b[i]
    BY <1>3, <1>4, <1>6
  <1> QED
    BY <1>1, <1>5, <1>6

\* Resolving a path keeps its length, and resolves one name after the other.
LEMMA RealIs ==
  ASSUME NEW a \in Paths
  PROVE  /\ Plugins!Real(a) \in Paths
         /\ Len(Plugins!Real(a)) = Len(a)
         /\ \A i \in 1..Len(a) : Plugins!Real(a)[i] = Plugins!RealName(a[i])
  BY DEF Plugins!Real, Plugins!RealName, Paths, Names

LEMMA RealTwice == \A a \in Paths : Plugins!Real(Plugins!Real(a)) = Plugins!Real(a)
  <1> SUFFICES ASSUME NEW a \in Paths
               PROVE  Plugins!Real(Plugins!Real(a)) = Plugins!Real(a)
    OBVIOUS
  <1> DEFINE b == Plugins!Real(a)
             c == Plugins!Real(b)
  <1>1. b \in Paths /\ Len(b) = Len(a) /\ \A i \in 1..Len(a) : b[i] = Plugins!RealName(a[i])
    BY RealIs
  <1>2. c \in Paths /\ Len(c) = Len(b) /\ \A i \in 1..Len(b) : c[i] = Plugins!RealName(b[i])
    BY <1>1, RealIs
  <1>3. \A n : Plugins!RealName(Plugins!RealName(n)) = Plugins!RealName(n)
    BY DEF Plugins!RealName
  <1> HIDE DEF b, c
  <1>4. \A i \in 1..Len(a) : c[i] = b[i]
    BY <1>1, <1>2, <1>3
  <1> QED
    BY <1>1, <1>2, <1>4 DEF b, c, Paths

LEMMA RealOfBoth ==
  ASSUME NEW a \in Paths, NEW b \in Paths
  PROVE  Plugins!Real(a \o b) = Plugins!Real(a) \o Plugins!Real(b)
  <1> DEFINE l == Plugins!Real(a \o b)
             r == Plugins!Real(a) \o Plugins!Real(b)
  <1>1. \A x, y \in Paths : x \o y \in Paths /\ Len(x \o y) = Len(x) + Len(y)
    BY DEF Paths
  <1>2. a \o b \in Paths /\ l \in Paths /\ Len(l) = Len(a) + Len(b)
    BY <1>1, RealIs
  <1>3. /\ Plugins!Real(a) \in Paths /\ Len(Plugins!Real(a)) = Len(a)
        /\ Plugins!Real(b) \in Paths /\ Len(Plugins!Real(b)) = Len(b)
    BY RealIs
  <1>4. r \in Paths /\ Len(r) = Len(a) + Len(b)
    BY <1>1, <1>3
  <1>5. ASSUME NEW i \in 1..(Len(a) + Len(b)) PROVE l[i] = r[i]
    <2>1. l[i] = Plugins!RealName((a \o b)[i])
      BY <1>1, <1>2, RealIs
    <2>2. CASE i <= Len(a)
      <3>1. (a \o b)[i] = a[i] /\ i \in 1..Len(a)
        BY <2>2 DEF Paths
      <3>2. r[i] = Plugins!Real(a)[i]
        BY <1>3, <2>2 DEF Paths
      <3> QED
        BY <2>1, <3>1, <3>2, RealIs
    <2>3. CASE ~(i <= Len(a))
      <3>1. (a \o b)[i] = b[i - Len(a)] /\ i - Len(a) \in 1..Len(b)
        BY <2>3 DEF Paths
      <3>2. r[i] = Plugins!Real(b)[i - Len(a)]
        BY <1>3, <2>3 DEF Paths
      <3> QED
        BY <2>1, <3>1, <3>2, RealIs
    <2> QED
      BY <2>2, <2>3
  <1> HIDE DEF l, r
  <1>6. l = r
    BY <1>2, <1>4, <1>5 DEF Paths
  <1> QED
    BY <1>6 DEF l, r

LEMMA PrefixOfBoth == \A a, b \in Paths : Plugins!IsPrefix(a, a \o b)
  <1> SUFFICES ASSUME NEW a \in Paths, NEW b \in Paths
               PROVE  Plugins!IsPrefix(a, a \o b)
    OBVIOUS
  <1>1. /\ a \o b \in Paths /\ Len(a) <= Len(a \o b)
        /\ \A i \in 1..Len(a) : (a \o b)[i] = a[i]
    BY DEF Paths
  <1> QED
    BY <1>1, PrefixIs

LEMMA PrefixOfPrefix ==
  ASSUME NEW a \in Paths, NEW b \in Paths, NEW c \in Paths,
         Plugins!IsPrefix(a, b), Plugins!IsPrefix(b, c)
  PROVE  Plugins!IsPrefix(a, c)
  <1>1. Len(a) \in Nat /\ Len(b) \in Nat /\ Len(c) \in Nat
    BY DEF Paths
  <1>2. Len(a) <= Len(b) /\ \A i \in 1..Len(a) : a[i] = b[i]
    BY PrefixIs
  <1>3. Len(b) <= Len(c) /\ \A i \in 1..Len(b) : b[i] = c[i]
    BY PrefixIs
  <1>4. Len(a) <= Len(c) /\ \A i \in 1..Len(a) : a[i] = c[i]
    BY <1>1, <1>2, <1>3
  <1> QED
    BY <1>4, PrefixIs

LEMMA RealPrefix ==
  ASSUME NEW a \in Paths, NEW b \in Paths, Plugins!IsPrefix(a, b)
  PROVE  Plugins!IsPrefix(Plugins!Real(a), Plugins!Real(b))
  <1>1. Len(a) \in Nat /\ Len(b) \in Nat
    BY DEF Paths
  <1>2. Len(a) <= Len(b) /\ \A i \in 1..Len(a) : a[i] = b[i]
    BY PrefixIs
  <1>3. /\ Plugins!Real(a) \in Paths /\ Len(Plugins!Real(a)) = Len(a)
        /\ \A i \in 1..Len(a) : Plugins!Real(a)[i] = Plugins!RealName(a[i])
    BY RealIs
  <1>4. /\ Plugins!Real(b) \in Paths /\ Len(Plugins!Real(b)) = Len(b)
        /\ \A i \in 1..Len(b) : Plugins!Real(b)[i] = Plugins!RealName(b[i])
    BY RealIs
  <1>5. \A i \in 1..Len(a) : Plugins!Real(a)[i] = Plugins!Real(b)[i]
    BY <1>1, <1>2, <1>3, <1>4
  <1> QED
    BY <1>2, <1>3, <1>4, <1>5, PrefixIs

\* What a path is compared as resolves to what the path resolves to.
LEMMA ComparableIs ==
  ASSUME NEW a \in Paths, NEW existing
  PROVE  /\ Plugins!Comparable(a, existing) \in Paths
         /\ Plugins!Comparable(a, existing) \in {a, Plugins!Real(a)}
         /\ Plugins!Real(Plugins!Comparable(a, existing)) = Plugins!Real(a)
  <1>1. Plugins!Comparable(a, existing) \in {a, Plugins!Real(a)}
    BY DEF Plugins!Comparable
  <1> QED
    BY <1>1, RealIs, RealTwice

\* A path in which a file lies that exists is compared as what it resolves to.
LEMMA ExistingIsReal ==
  ASSUME NEW a \in Paths, NEW file \in Paths, NEW existing, Plugins!Real(file) \in existing,
         Plugins!IsPrefix(Plugins!Real(a), Plugins!Real(file))
  PROVE  /\ Plugins!Exists(a, existing)
         /\ Plugins!Comparable(a, existing) = Plugins!Real(a)
  <1>1. Plugins!Real(Plugins!Real(file)) = Plugins!Real(file)
    BY RealTwice
  <1>2. Plugins!Exists(a, existing)
    BY <1>1 DEF Plugins!Exists
  <1> QED
    BY <1>2 DEF Plugins!Comparable

-----------------------------------------------------------------------------
(* The roots of a plugin, and the files that lie in them.                  *)

IsReal(path) == Plugins!Real(path) = path

LEMMA InstallationIs ==
  ASSUME NEW i \in Installations, NEW p \in Plugins!AllOf(i)
  PROVE  /\ i.home.path \in Paths /\ p.at \in Paths /\ IsReal(p.at)
         /\ <<p.market, p.name, p.version>> \in Paths
         /\ \A root \in Plugins!Roots(i.home, p) :
              root \in Paths /\ (IsReal(i.home.path) => IsReal(root))
  <1>1. Plugins!IsInstallation(i)
    BY CommandAssumption
  <1>2. /\ i.home.path \in Seq(STRING)
        /\ {p.market, p.name, p.version} \subseteq STRING
        /\ p.at \in Seq(STRING) /\ Plugins!Real(p.at) = p.at
        /\ \A root \in Plugins!Roots(i.home, p) :
             root \in Seq(STRING)
             /\ (i.home.path = Plugins!Real(i.home.path) => Plugins!Real(root) = root)
    BY <1>1, Zenon DEF Plugins!IsInstallation
  <1>3. <<p.market, p.name, p.version>> \in Paths
    BY <1>2 DEF Paths, Names
  <1>4. \A root \in Plugins!Roots(i.home, p) :
          root \in Paths /\ (IsReal(i.home.path) => IsReal(root))
    BY <1>2, PathsOfStrings DEF IsReal
  <1> QED
    BY <1>2, <1>3, <1>4, PathsOfStrings DEF IsReal

LEMMA FixedNames ==
  /\ <<"plugins">> \in Paths /\ IsReal(<<"plugins">>)
  /\ <<"SKILL.md">> \in Paths /\ IsReal(<<"SKILL.md">>)
  /\ <<"plugins", "cache">> \in Paths /\ IsReal(<<"plugins", "cache">>)
  <1>1. <<"plugins">> \in Paths /\ <<"SKILL.md">> \in Paths /\ <<"plugins", "cache">> \in Paths
    BY DEF Paths, Names
  <1>2. IsReal(<<"plugins">>)
    BY DEF IsReal, Plugins!Real, Plugins!RealName
  <1>3. IsReal(<<"SKILL.md">>)
    BY DEF IsReal, Plugins!Real, Plugins!RealName
  <1>4. IsReal(<<"plugins", "cache">>)
    BY DEF IsReal, Plugins!Real, Plugins!RealName
  <1> QED
    BY <1>1, <1>2, <1>3, <1>4

LEMMA RealBoth == ASSUME NEW a \in Paths, NEW b \in Paths, IsReal(a), IsReal(b)
                  PROVE  a \o b \in Paths /\ IsReal(a \o b)
  <1>1. a \o b \in Paths
    BY DEF Paths
  <1> QED
    BY <1>1, RealOfBoth DEF IsReal

LEMMA ComparedReal == ASSUME NEW a \in Paths, NEW existing, IsReal(a)
                      PROVE  Plugins!Comparable(a, existing) = a
  BY ComparableIs DEF IsReal

\* A manifest lies in the directory of the plugins.
LEMMA ManifestIs ==
  ASSUME NEW i \in Installations, NEW p \in Plugins!AllOf(i)
  PROVE  LET m == Plugins!ManifestOf(i.home, p)
             root == i.home.path \o <<"plugins">>
         IN  /\ m \in Paths /\ root \in Paths
             /\ Plugins!IsPrefix(Plugins!Real(root), Plugins!Real(m))
             /\ IsReal(i.home.path) => IsReal(m) /\ Plugins!IsPrefix(root, m)
  <1> DEFINE m == Plugins!ManifestOf(i.home, p)
             root == i.home.path \o <<"plugins">>
             home == IF i.home.resolved THEN Plugins!Real(i.home.path) ELSE i.home.path
             top == home \o <<"plugins">>
             at == top \o p.at
  <1>1. i.home.path \in Paths /\ p.at \in Paths /\ IsReal(p.at)
    BY InstallationIs
  <1>2. /\ home \in Paths /\ Plugins!Real(home) = Plugins!Real(i.home.path)
        /\ IsReal(i.home.path) => home = i.home.path
    BY <1>1, RealIs, RealTwice DEF IsReal
  <1>3. m = at \o <<"SKILL.md">>
    BY DEF Plugins!ManifestOf
  <1> HIDE DEF m, home
  <1>4. /\ top \in Paths /\ root \in Paths
        /\ Plugins!Real(top) = Plugins!Real(root)
        /\ IsReal(i.home.path) => top = root /\ IsReal(top)
    <2>1. top \in Paths /\ root \in Paths
      BY <1>1, <1>2, FixedNames DEF Paths
    <2>2. /\ Plugins!Real(top) = Plugins!Real(home) \o Plugins!Real(<<"plugins">>)
          /\ Plugins!Real(root) = Plugins!Real(i.home.path) \o Plugins!Real(<<"plugins">>)
      BY <1>1, <1>2, FixedNames, RealOfBoth
    <2>3. IsReal(i.home.path) => IsReal(top)
      BY <1>1, <1>2, FixedNames, RealBoth
    <2> QED
      BY <1>2, <2>1, <2>2, <2>3
  <1> HIDE DEF top, root
  <1>5. /\ at \in Paths /\ Plugins!IsPrefix(top, at)
        /\ IsReal(i.home.path) => IsReal(at)
    <2>1. at \in Paths
      BY <1>1, <1>4 DEF Paths
    <2> QED
      BY <1>1, <1>4, <2>1, PrefixOfBoth, RealBoth
  <1> HIDE DEF at
  <1>6. /\ m \in Paths /\ Plugins!IsPrefix(at, m)
        /\ IsReal(i.home.path) => IsReal(m)
    <2>1. m \in Paths
      BY <1>3, <1>5, FixedNames DEF Paths
    <2> QED
      BY <1>3, <1>5, <2>1, FixedNames, PrefixOfBoth, RealBoth
  <1>7. Plugins!IsPrefix(top, m)
    BY <1>4, <1>5, <1>6, PrefixOfPrefix
  <1>8. Plugins!IsPrefix(Plugins!Real(top), Plugins!Real(m))
    BY <1>4, <1>6, <1>7, RealPrefix
  <1>9. /\ m \in Paths /\ root \in Paths
        /\ Plugins!IsPrefix(Plugins!Real(root), Plugins!Real(m))
        /\ IsReal(i.home.path) => IsReal(m) /\ Plugins!IsPrefix(root, m)
    BY <1>4, <1>6, <1>7, <1>8
  <1> QED
    BY <1>9 DEF m, root

\* The place of an identity in the cache.
CacheRoot(home) == home.path \o <<"plugins", "cache">>
IdentityOf(q) == <<q.market, q.name, q.version>>

LEMMA IdentityIs ==
  ASSUME NEW i \in Installations, NEW q \in Plugins!AllOf(i)
  PROVE  LET c == CacheRoot(i.home)
             raw == i.home.path \o <<"plugins", "cache">>
                      \o <<q.market, q.name, q.version>>
         IN  /\ c \in Paths /\ raw \in Paths /\ raw = c \o IdentityOf(q)
             /\ Plugins!Real(c) \o Plugins!Real(IdentityOf(q)) = Plugins!Real(raw)
             /\ Plugins!IsPrefix(Plugins!Real(c), Plugins!Real(raw))
             /\ IsReal(i.home.path) => IsReal(c)
  <1> DEFINE c == CacheRoot(i.home)
             raw == i.home.path \o <<"plugins", "cache">>
                      \o <<q.market, q.name, q.version>>
  <1>1. i.home.path \in Paths /\ IdentityOf(q) \in Paths
    BY InstallationIs DEF IdentityOf
  <1>2. c \in Paths
    BY <1>1, FixedNames DEF CacheRoot, Paths
  <1>3. raw = c \o IdentityOf(q)
    BY DEF CacheRoot, IdentityOf
  <1> HIDE DEF raw
  <1>4. raw \in Paths
    BY <1>1, <1>2, <1>3 DEF Paths
  <1>5. IsReal(i.home.path) => IsReal(c)
    BY <1>1, FixedNames, RealBoth DEF CacheRoot
  <1> HIDE DEF c
  <1>6. Plugins!Real(c) \o Plugins!Real(IdentityOf(q)) = Plugins!Real(raw)
    BY <1>1, <1>2, <1>3, RealOfBoth
  <1>7. Plugins!IsPrefix(Plugins!Real(c), Plugins!Real(raw))
    BY <1>1, <1>2, <1>6, RealIs, PrefixOfBoth
  <1>8. /\ c \in Paths /\ raw \in Paths /\ raw = c \o IdentityOf(q)
        /\ Plugins!Real(c) \o Plugins!Real(IdentityOf(q)) = Plugins!Real(raw)
        /\ Plugins!IsPrefix(Plugins!Real(c), Plugins!Real(raw))
        /\ IsReal(i.home.path) => IsReal(c)
    BY <1>2, <1>3, <1>4, <1>5, <1>6, <1>7
  <1> QED
    BY <1>8 DEF c, raw

\* Every root that skills are linked by is that of an identity or a source.
LEMMA LinkRootIs ==
  ASSUME NEW i \in Installations, NEW q \in Plugins!AllOf(i), NEW existing,
         NEW root \in Plugins!LinkRoots(q, i.home, existing)
  PROVE  /\ root \in Paths
         /\ \E raw \in Plugins!Roots(i.home, q) : Plugins!Real(root) = Plugins!Real(raw)
  <1> DEFINE c == CacheRoot(i.home)
             raw == i.home.path \o <<"plugins", "cache">>
                      \o <<q.market, q.name, q.version>>
             cc == Plugins!Comparable(c, existing)
             identity == cc \o IdentityOf(q)
             sources == {s.path : s \in {x \in q.source : Plugins!ValidAbsoluteRoot(x)}}
  <1>1. \/ Plugins!IdentityValid(q, i.home) /\ root = Plugins!Comparable(identity, existing)
        \/ \E s \in {x \in q.source : Plugins!ValidAbsoluteRoot(x)} :
             root = Plugins!Comparable(s.path, existing)
    BY Zenon DEF Plugins!LinkRoots, CacheRoot, IdentityOf
  <1>2. CASE Plugins!IdentityValid(q, i.home) /\ root = Plugins!Comparable(identity, existing)
    <2>1. raw \in Plugins!Roots(i.home, q)
      BY <1>2, Zenon DEF Plugins!Roots
    <2>2. /\ c \in Paths /\ raw \in Paths /\ IdentityOf(q) \in Paths
          /\ Plugins!Real(c) \o Plugins!Real(IdentityOf(q)) = Plugins!Real(raw)
      BY IdentityIs, InstallationIs DEF IdentityOf
    <2> HIDE DEF c, raw
    <2>3. cc \in Paths /\ Plugins!Real(cc) = Plugins!Real(c)
      BY <2>2, ComparableIs
    <2> HIDE DEF cc
    <2>4. identity \in Paths
      BY <2>2, <2>3 DEF Paths
    <2>5. Plugins!Real(identity) = Plugins!Real(raw)
      BY <2>2, <2>3, RealOfBoth
    <2> HIDE DEF identity
    <2>6. root \in Paths /\ Plugins!Real(root) = Plugins!Real(raw)
      BY <1>2, <2>4, <2>5, ComparableIs
    <2> QED
      BY <2>1, <2>6
  <1>3. ASSUME NEW s \in {x \in q.source : Plugins!ValidAbsoluteRoot(x)},
               root = Plugins!Comparable(s.path, existing)
        PROVE  root \in Paths /\ \E r \in Plugins!Roots(i.home, q) :
                                   Plugins!Real(root) = Plugins!Real(r)
    <2>1. s.path \in Plugins!Roots(i.home, q)
      BY <1>3 DEF Plugins!Roots
    <2>2. s.path \in Paths
      BY <2>1, InstallationIs
    <2> QED
      BY <1>3, <2>1, <2>2, ComparableIs
  <1> QED
    BY <1>1, <1>2, <1>3

\* A root resolves unless links are in the way of files that are gone.
LEMMA RootIsLinked ==
  ASSUME NEW i \in Installations, NEW q \in Plugins!AllOf(i), NEW existing, NEW file \in Paths,
         NEW r \in Plugins!Roots(i.home, q),
         Plugins!IsPrefix(Plugins!Real(r), Plugins!Real(file)),
         IsReal(i.home.path) \/ Plugins!Real(file) \in existing
  PROVE  Plugins!Real(r) \in Plugins!LinkRoots(q, i.home, existing)
  <1> DEFINE c == CacheRoot(i.home)
             raw == i.home.path \o <<"plugins", "cache">>
                      \o <<q.market, q.name, q.version>>
             cc == Plugins!Comparable(c, existing)
             identity == cc \o IdentityOf(q)
  <1>1. r \in Paths /\ (IsReal(i.home.path) => IsReal(r))
    BY InstallationIs
  <1>2. \/ Plugins!IdentityValid(q, i.home) /\ r = raw
        \/ \E s \in {x \in q.source : Plugins!ValidAbsoluteRoot(x)} : r = s.path
    BY Zenon DEF Plugins!Roots
  <1>3. \A a \in Paths :
          /\ IsReal(i.home.path) => IsReal(a)
          /\ Plugins!IsPrefix(Plugins!Real(a), Plugins!Real(file))
          => Plugins!Comparable(a, existing) = Plugins!Real(a)
    BY ComparedReal, ExistingIsReal DEF IsReal
  <1>4. CASE Plugins!IdentityValid(q, i.home) /\ r = raw
    <2>1. Plugins!Comparable(identity, existing) \in Plugins!LinkRoots(q, i.home, existing)
      BY <1>4, Zenon DEF Plugins!LinkRoots, CacheRoot, IdentityOf
    <2>2. /\ c \in Paths /\ raw \in Paths /\ IdentityOf(q) \in Paths
          /\ Plugins!Real(c) \o Plugins!Real(IdentityOf(q)) = Plugins!Real(raw)
          /\ Plugins!IsPrefix(Plugins!Real(c), Plugins!Real(raw))
          /\ raw = c \o IdentityOf(q)
          /\ IsReal(i.home.path) => IsReal(c)
      BY IdentityIs, InstallationIs DEF IdentityOf
    <2>3. r = raw
      BY <1>4
    <2> HIDE DEF c, raw
    <2>4. Plugins!IsPrefix(Plugins!Real(c), Plugins!Real(file))
      BY <2>2, <2>3, RealIs, PrefixOfPrefix
    <2>5. cc = Plugins!Real(c)
      BY <1>3, <2>2, <2>4
    <2> HIDE DEF cc
    <2>6. identity \in Paths
      BY <2>2, <2>5, RealIs DEF Paths
    <2>7. Plugins!Real(identity) = Plugins!Real(raw)
      <3>1. cc \in Paths /\ Plugins!Real(cc) = Plugins!Real(c)
        BY <2>2, <2>5, RealIs, RealTwice
      <3>2. Plugins!Real(identity) = Plugins!Real(cc) \o Plugins!Real(IdentityOf(q))
        BY <2>2, <3>1, RealOfBoth
      <3> QED
        BY <2>2, <3>1, <3>2
    <2>8. IsReal(i.home.path) => IsReal(identity)
      <3>1. ASSUME IsReal(i.home.path) PROVE identity = raw
        BY <2>2, <2>5, <3>1 DEF IsReal
      <3> QED
        BY <1>1, <2>3, <3>1
    <2> HIDE DEF identity
    <2>9. Plugins!Comparable(identity, existing) = Plugins!Real(raw)
      BY <1>3, <2>3, <2>6, <2>7, <2>8
    <2> QED
      BY <2>1, <2>3, <2>9
  <1>5. ASSUME NEW s \in {x \in q.source : Plugins!ValidAbsoluteRoot(x)}, r = s.path
        PROVE  Plugins!Real(r) \in Plugins!LinkRoots(q, i.home, existing)
    <2>1. Plugins!Comparable(r, existing) \in Plugins!LinkRoots(q, i.home, existing)
      BY <1>5 DEF Plugins!LinkRoots
    <2>2. Plugins!Comparable(r, existing) = Plugins!Real(r)
      BY <1>1, <1>3
    <2> QED
      BY <2>1, <2>2
  <1> QED
    BY <1>2, <1>4, <1>5

\* A root that a manifest is found under holds it, by the links that there are.
LEMMA MatchLies ==
  ASSUME NEW i \in Installations, NEW p \in Plugins!AllOf(i), NEW existing,
         NEW plugins \in SUBSET Plugins!AllOf(i), NEW skill,
         skill.path = Plugins!ManifestOf(i.home, p),
         NEW q \in Plugins!Matches(skill, plugins, i.home, existing)
  PROVE  q \in plugins /\ Plugins!LiesIn(p, q, i.home)
  <1> DEFINE m == skill.path
             cm == Plugins!Comparable(m, existing)
  <1>1. m \in Paths
    BY ManifestIs
  <1>2. cm \in Paths /\ Plugins!Real(cm) = Plugins!Real(m)
    BY <1>1, ComparableIs
  <1>3. /\ q \in plugins
        /\ \E root \in Plugins!LinkRoots(q, i.home, existing) : Plugins!IsPrefix(root, cm)
    BY Zenon DEF Plugins!Matches
  <1>4. PICK root \in Plugins!LinkRoots(q, i.home, existing) : Plugins!IsPrefix(root, cm)
    BY <1>3
  <1>5. q \in Plugins!AllOf(i)
    BY <1>3
  <1>6. PICK raw \in Plugins!Roots(i.home, q) : Plugins!Real(root) = Plugins!Real(raw)
    BY <1>5, LinkRootIs
  <1>7. root \in Paths
    BY <1>5, LinkRootIs
  <1>8. Plugins!IsPrefix(Plugins!Real(root), Plugins!Real(m))
    BY <1>2, <1>4, <1>7, RealPrefix
  <1>9. Plugins!IsPrefix(Plugins!Real(raw), Plugins!Real(Plugins!ManifestOf(i.home, p)))
    BY <1>6, <1>8, Zenon
  <1> QED
    BY <1>3, <1>9, Zenon DEF Plugins!LiesIn

\* A plugin whose files lie in a root of its own is found.
LEMMA OwnMatches ==
  ASSUME NEW i \in Installations, NEW p \in Plugins!AllOf(i), NEW existing,
         NEW plugins \in SUBSET Plugins!AllOf(i), NEW skill,
         skill.path = Plugins!ManifestOf(i.home, p),
         p \in plugins, Plugins!LiesIn(p, p, i.home),
         IsReal(i.home.path) \/ Plugins!Real(skill.path) \in existing
  PROVE  p \in Plugins!Matches(skill, plugins, i.home, existing)
  <1> DEFINE m == skill.path
             cm == Plugins!Comparable(m, existing)
  <1>1. m \in Paths /\ (IsReal(i.home.path) => IsReal(m))
    BY ManifestIs
  <1>2. PICK r \in Plugins!Roots(i.home, p) :
          Plugins!IsPrefix(Plugins!Real(r), Plugins!Real(m))
    BY Zenon DEF Plugins!LiesIn
  <1>3. Plugins!Real(r) \in Plugins!LinkRoots(p, i.home, existing)
    BY <1>1, <1>2, RootIsLinked
  <1>4. cm = Plugins!Real(m)
    <2>1. CASE IsReal(i.home.path)
      BY <1>1, <2>1, ComparedReal DEF IsReal
    <2>2. CASE Plugins!Real(m) \in existing
      <3>1. Plugins!IsPrefix(Plugins!Real(m), Plugins!Real(m))
        BY <1>1, RealIs, PrefixIs DEF Paths
      <3> QED
        BY <1>1, <2>2, <3>1, ExistingIsReal
    <2> QED
      BY <2>1, <2>2
  <1>5. Plugins!IsPrefix(Plugins!Real(r), cm)
    BY <1>2, <1>4
  <1> QED
    BY <1>3, <1>5, Zenon DEF Plugins!Matches

-----------------------------------------------------------------------------
(* What the plugins' report says, of an inventory, a catalog and a disk    *)
(* that are read one after the other while a plugin is replaced.           *)

\* The plugin that a skill is linked to, if it is.
LinkedOf(s, plugins, home, existing) ==
  Plugins!LinkOf(Plugins!Matches(s, plugins, home, existing), Plugins!DuplicateIds(plugins))

\* No finding: every skill is linked, to its only match.
LEMMA NothingFound ==
  ASSUME NEW plugins, NEW skills, NEW status, NEW home, NEW existing, NEW built,
         built = Plugins!BuildReport(plugins, skills, status, home, existing)
  PROVE  /\ built.findings = {} =>
              status = "complete"
              /\ \A s \in skills : LinkedOf(s, plugins, home, existing) # {}
         /\ built.report.links =
              UNION {{<<p.id, s>> : p \in LinkedOf(s, plugins, home, existing)} : s \in skills}
  <1> DEFINE matches == [s \in skills |-> Plugins!Matches(s, plugins, home, existing)]
             duplicates == Plugins!DuplicateIds(plugins)
             of(s) == Plugins!LinkOf(Plugins!Matches(s, plugins, home, existing), duplicates)
             links == UNION {{<<p.id, s>> : p \in Plugins!LinkOf(matches[s], duplicates)} :
                               s \in skills}
             unlinked == {s \in skills : matches[s] = {}}
             ambiguous == {s \in skills : matches[s] # {}
                                          /\ Plugins!LinkOf(matches[s], duplicates) = {}}
             invalid == {p.id : p \in {x \in plugins : Plugins!IsInvalid(x, home)}}
             r == [links |-> links, unlinked |-> unlinked, ambiguous |-> ambiguous,
                   invalid |-> invalid, duplicate |-> duplicates]
             findings == Plugins!PluginFindings(status, r)
  <1>1. built = [findings |-> findings, report |-> r]
    BY Zenon DEF Plugins!BuildReport
  <1>2. \A s \in skills : matches[s] = Plugins!Matches(s, plugins, home, existing)
    OBVIOUS
  <1>3. links = UNION {{<<p.id, s>> : p \in of(s)} : s \in skills}
    <2> HIDE DEF duplicates
    <2> QED
      BY <1>2, Zenon
  <1>4. /\ unlinked = {s \in skills : Plugins!Matches(s, plugins, home, existing) = {}}
        /\ ambiguous = {s \in skills : Plugins!Matches(s, plugins, home, existing) # {}
                                       /\ of(s) = {}}
    <2> HIDE DEF duplicates
    <2> QED
      BY <1>2
  <1> HIDE DEF links, unlinked, ambiguous, invalid, duplicates, matches
  <1>5. built.findings = findings /\ built.report = r /\ r.links = links
    BY <1>1
  <1>6. r["unlinked"] = unlinked /\ r["ambiguous"] = ambiguous
    OBVIOUS
  <1> HIDE DEF r
  <1>7. ASSUME findings = {}
        PROVE  status = "complete" /\ unlinked = {} /\ ambiguous = {}
    <2>1. {f \in {"invalid", "duplicate", "unlinked", "ambiguous"} : r[f] # {}} = {}
          /\ {status} \ {"complete"} = {}
      BY <1>7 DEF Plugins!PluginFindings
    <2> QED
      BY <1>6, <2>1
  <1> HIDE DEF findings
  <1>8. ASSUME findings = {} PROVE \A s \in skills : of(s) # {}
    <2> SUFFICES ASSUME NEW s \in skills, of(s) = {} PROVE FALSE
      OBVIOUS
    <2> HIDE DEF of
    <2> QED
      BY <1>4, <1>7, <1>8
  <1>9. /\ built.findings = {} => status = "complete" /\ \A s \in skills : of(s) # {}
        /\ built.report.links = UNION {{<<p.id, s>> : p \in of(s)} : s \in skills}
    BY <1>3, <1>5, <1>7, <1>8
  <1> QED
    BY <1>9, Zenon DEF LinkedOf, duplicates

EntryOf(home, p) ==
  [name |-> p.name, path |-> Plugins!ManifestOf(home, p), scope |-> "user",
   enabled |-> p.enabled]

\* What is installed, listed and catalogued is of one installation: a plugin that
\* is in the catalog but not in the list came after the list was read, which then
\* is that of the start.
Installed(i, w) ==
  /\ w.home = i.home /\ w.plugins \subseteq Plugins!AllOf(i)
  /\ w.removed \/ w.plugins = i.plugins

Catalogued(i, st, w) ==
  \A e \in st.catalog :
    e = Plugins!OwnSkill \/
    \E p \in Plugins!AllOf(i) :
      /\ e = EntryOf(i.home, p)
      /\ p \in st.plugins \/ (st.plugins = i.plugins /\ p \notin i.plugins)
      /\ w.removed \/ p \in w.plugins

LinkedTo(st, w, p, s) ==
  /\ p.enabled /\ s.path = Plugins!ManifestOf(w.home, p)
  /\ {l \in st.report.links : l[2] = s} = {<<p.id, s>>}
  /\ \A q \in st.plugins : q.id = p.id => q = p

AllLinked(st, w) ==
  /\ st.status = "complete"
  /\ IsReal(w.home.path) \/ ~w.removed =>
       \A s \in Plugins!UniqueActive(st.catalog) :
         s.name # "mine" => \E p \in st.plugins : LinkedTo(st, w, p, s)

PluginsFound ==
  /\ \E i \in Installations :
       /\ Installed(i, world)
       /\ pc \notin {"list", "done"} => seen.plugins \in {i.plugins, world.plugins}
       /\ Catalogued(i, seen, world)
  /\ pc \in {"list", "catalog"} => seen.catalog = {}
  /\ pc # "done" => outcome = NoOutcome
  /\ outcome.verdict = "BASELINE_OK" => AllLinked(seen, world)

\* A skill of the catalog is a plugin's, if it is not the user's own.
LEMMA SkillOf ==
  ASSUME NEW i \in Installations, Catalogued(i, seen, world),
         NEW s \in Plugins!UniqueActive(seen.catalog), s.name # "mine"
  PROVE  \E p \in Plugins!AllOf(i) :
           /\ p.enabled /\ s.path = Plugins!ManifestOf(i.home, p)
           /\ p \in seen.plugins \/ (seen.plugins = i.plugins /\ p \notin i.plugins)
           /\ world.removed \/ p \in world.plugins
  <1>1. PICK x \in seen.catalog :
          x.enabled /\ s = [name |-> x.name, path |-> x.path, scope |-> x.scope]
    BY DEF Plugins!UniqueActive
  <1>2. s.name = x.name /\ s.path = x.path
    BY <1>1
  <1>3. Plugins!OwnSkill.name = "mine"
    BY DEF Plugins!OwnSkill
  <1>4. x # Plugins!OwnSkill
    BY <1>2, <1>3
  <1>5. PICK p \in Plugins!AllOf(i) :
          /\ x = EntryOf(i.home, p)
          /\ p \in seen.plugins \/ (seen.plugins = i.plugins /\ p \notin i.plugins)
          /\ world.removed \/ p \in world.plugins
    BY <1>1, <1>4, Zenon DEF Catalogued
  <1>6. x.enabled = p.enabled /\ x.path = Plugins!ManifestOf(i.home, p)
    BY <1>5 DEF EntryOf
  <1> QED
    BY <1>1, <1>2, <1>5, <1>6

\* The manifest of a plugin that is still installed exists.
LEMMA OnDiskStill ==
  ASSUME NEW p \in world.plugins
  PROVE  Plugins!Real(Plugins!ManifestOf(world.home, p)) \in Plugins!OnDisk(world)
  BY DEF Plugins!OnDisk

\* The skill of a plugin is classified as one, unless links are in the way.
LEMMA ClassifiedAsPlugin ==
  ASSUME NEW i \in Installations, NEW p \in Plugins!AllOf(i), NEW s, NEW existing,
         s.path = Plugins!ManifestOf(i.home, p),
         IsReal(i.home.path) \/ Plugins!Real(s.path) \in existing
  PROVE  Plugins!Classify(s, i.home.path, existing) = "plugin"
  <1> DEFINE m == s.path
             root == i.home.path \o <<"plugins">>
  <1>1. /\ m \in Paths /\ root \in Paths
        /\ Plugins!IsPrefix(Plugins!Real(root), Plugins!Real(m))
        /\ IsReal(i.home.path) => IsReal(m) /\ Plugins!IsPrefix(root, m)
    BY ManifestIs
  <1>2. CASE IsReal(i.home.path)
    BY <1>1, <1>2 DEF Plugins!Classify, Plugins!UnderPlugins
  <1>3. CASE Plugins!Real(m) \in existing
    <2>1. Plugins!IsPrefix(Plugins!Real(m), Plugins!Real(m))
      BY <1>1, RealIs, PrefixIs DEF Paths
    <2>2. Plugins!Exists(m, existing) /\ Plugins!Exists(root, existing)
      BY <1>1, <1>3, <2>1, ExistingIsReal
    <2> QED
      BY <1>1, <2>2 DEF Plugins!Classify, Plugins!UnderPlugins
  <1> QED
    BY <1>2, <1>3

LEMMA PluginsCardinality == \A S : Plugins!Cardinality(S) = Cardinality(S)
  BY DEF Plugins!Cardinality, Cardinality

\* The only plugin of a link, and the only one of its id.
LEMMA LinkIs ==
  ASSUME NEW i \in Installations, NEW plugins \in SUBSET Plugins!AllOf(i),
         NEW matches \in SUBSET plugins,
         NEW q \in Plugins!LinkOf(matches, Plugins!DuplicateIds(plugins))
  PROVE  /\ matches = {q}
         /\ Plugins!LinkOf(matches, Plugins!DuplicateIds(plugins)) = {q}
         /\ \A p \in plugins : p.id = q.id => p = q
  <1>1. /\ q \in matches /\ Plugins!Cardinality(matches) = 1
        /\ q.id \notin Plugins!DuplicateIds(plugins)
    BY Zenon DEF Plugins!LinkOf
  <1>2. IsFiniteSet(matches)
    <2>1. Plugins!IsInstallation(i)
      BY CommandAssumption
    <2>2. IsFiniteSet(Plugins!AllOf(i))
      BY <2>1, Zenon DEF Plugins!IsInstallation, Plugins!IsFiniteSet, IsFiniteSet
    <2> QED
      BY <2>2, FS_Subset
  <1>3. \E x : matches = {x}
    BY <1>1, <1>2, FS_Singleton, PluginsCardinality
  <1>4. matches = {q}
    BY <1>1, <1>3
  <1>5. Plugins!LinkOf(matches, Plugins!DuplicateIds(plugins)) = {q}
    BY <1>1, <1>4, Zenon DEF Plugins!LinkOf
  <1>6. ASSUME NEW p \in plugins, p.id = q.id, p # q PROVE FALSE
    <2>1. q \in plugins
      BY <1>1
    <2>2. q.id \in Plugins!DuplicateIds(plugins)
      BY <1>6, <2>1 DEF Plugins!DuplicateIds
    <2> QED
      BY <1>1, <2>2
  <1> QED
    BY <1>4, <1>5, <1>6

\* A report without a finding links every skill of a plugin to that plugin.
LEMMA BuiltLinks ==
  ASSUME NEW i \in Installations, Installed(i, world), Catalogued(i, seen, world),
         seen.plugins \in {i.plugins, world.plugins},
         NEW built,
         built = Plugins!BuildReport(seen.plugins, Plugins!PluginSkills, seen.status,
                                     world.home, Plugins!OnDisk(world)),
         built.findings = {},
         IsReal(world.home.path) \/ ~world.removed,
         NEW s \in Plugins!UniqueActive(seen.catalog), s.name # "mine"
  PROVE  /\ seen.status = "complete"
         /\ \E p \in seen.plugins :
              /\ p.enabled /\ s.path = Plugins!ManifestOf(world.home, p)
              /\ {l \in built.report.links : l[2] = s} = {<<p.id, s>>}
              /\ \A q \in seen.plugins : q.id = p.id => q = p
  <1> DEFINE existing == Plugins!OnDisk(world)
             skills == Plugins!PluginSkills
             matches == Plugins!Matches(s, seen.plugins, i.home, existing)
             of(t) == LinkedOf(t, seen.plugins, i.home, existing)
  <1>1. world.home = i.home /\ seen.plugins \in SUBSET Plugins!AllOf(i)
    BY DEF Installed, Plugins!AllOf
  <1>2. /\ seen.status = "complete"
        /\ \A t \in skills : of(t) # {}
        /\ built.report.links = UNION {{<<p.id, t>> : p \in of(t)} : t \in skills}
    BY <1>1, NothingFound
  <1>3. PICK p \in Plugins!AllOf(i) :
          /\ p.enabled /\ s.path = Plugins!ManifestOf(i.home, p)
          /\ p \in seen.plugins \/ (seen.plugins = i.plugins /\ p \notin i.plugins)
          /\ world.removed \/ p \in world.plugins
    BY SkillOf
  <1>4. IsReal(i.home.path) \/ Plugins!Real(s.path) \in existing
    BY <1>1, <1>3, OnDiskStill
  <1>5. s \in skills
    <2>1. Plugins!Classify(s, i.home.path, existing) = "plugin"
      BY <1>3, <1>4, ClassifiedAsPlugin
    <2> QED
      BY <1>1, <2>1, Zenon DEF Plugins!PluginSkills
  <1>6. PICK q \in of(s) : TRUE
    BY <1>2, <1>5
  <1>7. /\ \A x \in matches : x \in seen.plugins /\ Plugins!LiesIn(p, x, i.home)
        /\ p \in seen.plugins /\ Plugins!LiesIn(p, p, i.home) => p \in matches
    <2>1. seen.plugins \in SUBSET Plugins!AllOf(i) /\ s.path = Plugins!ManifestOf(i.home, p)
      BY <1>1, <1>3
    <2> HIDE DEF existing
    <2> QED
      BY <1>4, <2>1, MatchLies, OwnMatches
  <1>8. matches \in SUBSET seen.plugins
    BY <1>7
  <1>9. /\ matches = {q} /\ of(s) = {q}
        /\ \A x \in seen.plugins : x.id = q.id => x = q
    <2>1. of(s) = Plugins!LinkOf(matches, Plugins!DuplicateIds(seen.plugins))
      BY Zenon DEF LinkedOf
    <2> HIDE DEF of, matches
    <2> QED
      BY <1>1, <1>6, <1>8, <2>1, LinkIs
  <1>10. q \in seen.plugins /\ q \in Plugins!AllOf(i) /\ Plugins!LiesIn(p, q, i.home)
    BY <1>1, <1>7, <1>9
  <1>11. Plugins!IsSeparate(i)
    BY CommandAssumption, Zenon DEF Plugins!IsInstallation
  <1>12. p \in seen.plugins
    <2>1. ASSUME seen.plugins = i.plugins, p \notin i.plugins PROVE FALSE
      BY <1>10, <1>11, <2>1 DEF Plugins!IsSeparate
    <2> QED
      BY <1>3, <2>1
  <1>13. Plugins!LiesIn(p, p, i.home)
    BY <1>10, <1>11, Zenon DEF Plugins!IsSeparate
  <1>14. p = q
    BY <1>7, <1>9, <1>12, <1>13
  <1> HIDE DEF matches
  <1>15. {l \in built.report.links : l[2] = s} = {<<p.id, s>>}
    <2> HIDE DEF of, skills
    <2>1. ASSUME NEW l \in built.report.links, l[2] = s PROVE l = <<p.id, s>>
      <3>1. PICK t \in skills : \E x \in of(t) : l = <<x.id, t>>
        BY <1>2
      <3>2. t = s
        BY <2>1, <3>1
      <3> QED
        BY <1>9, <1>14, <3>1, <3>2
    <2>2. <<p.id, s>> \in built.report.links
      BY <1>2, <1>5, <1>9, <1>14
    <2> DEFINE pair == <<p.id, s>>
    <2>3. pair[2] = s
      OBVIOUS
    <2> HIDE DEF pair
    <2> QED
      BY <2>1, <2>2, <2>3 DEF pair
  <1> QED
    BY <1>1, <1>2, <1>3, <1>9, <1>12, <1>14, <1>15

PluginsFoundIn(i) ==
  /\ Installed(i, world)
  /\ pc \notin {"list", "done"} => seen.plugins \in {i.plugins, world.plugins}
  /\ Catalogued(i, seen, world)

LEMMA NotBaselineYet == ASSUME outcome' = NoOutcome PROVE outcome'.verdict # "BASELINE_OK"
  BY DEF NoOutcome, Concluded

LEMMA PluginsFoundFirst == ASSUME Plugins!Init PROVE PluginsFound
  <1>1. PICK i \in Installations :
          world = [home |-> i.home, plugins |-> i.plugins, removed |-> FALSE]
    BY DEF Plugins!Init
  <1>2. pc = "list" /\ outcome = NoOutcome /\ seen.catalog = {}
    <2>1. /\ pc = "list" /\ outcome = NoOutcome
          /\ seen = [plugins |-> {}, catalog |-> {}, status |-> "none",
                     report |-> Plugins!NoReport]
      BY DEF Plugins!Init, Plugins!NoOutcome, Plugins!Concluded, NoOutcome, Concluded
    <2> QED
      BY <2>1
  <1>3. Installed(i, world)
    BY <1>1 DEF Installed, Plugins!AllOf
  <1>4. Catalogued(i, seen, world)
    BY <1>2 DEF Catalogued
  <1>5. outcome.verdict # "BASELINE_OK"
    BY <1>2 DEF NoOutcome, Concluded
  <1> QED
    BY <1>2, <1>3, <1>4, <1>5 DEF PluginsFound

LEMMA PluginsFoundNext ==
  ASSUME PluginsInv, PluginsFound, Plugins!Next
  PROVE  PluginsFound'
  <1>1. PICK i \in Installations : PluginsFoundIn(i)
    BY DEF PluginsFound, PluginsFoundIn
  <1>2. /\ world = [home |-> world.home, plugins |-> world.plugins, removed |-> world.removed]
        /\ seen = [plugins |-> seen.plugins, catalog |-> seen.catalog, status |-> seen.status,
                   report |-> seen.report]
        /\ pc # "done" => outcome = NoOutcome
        /\ pc \in {"list", "catalog"} => seen.catalog = {}
    BY DEF PluginsInv, PluginsFound
  <1>3. /\ Installed(i, world) /\ Catalogued(i, seen, world)
        /\ pc \notin {"list", "done"} => seen.plugins \in {i.plugins, world.plugins}
    BY <1>1 DEF PluginsFoundIn
  <1>4. ASSUME PluginsFoundIn(i)', outcome' = outcome, pc # "done",
               pc' \in {"list", "catalog"} => seen'.catalog = {}
        PROVE  PluginsFound'
    <2>1. outcome' = NoOutcome
      BY <1>2, <1>4
    <2>2. outcome'.verdict # "BASELINE_OK"
      BY <2>1, NotBaselineYet
    <2>3. NoOutcome' = NoOutcome
      BY DEF NoOutcome, Concluded
    <2> QED
      BY <1>4, <2>1, <2>2, <2>3 DEF PluginsFound, PluginsFoundIn
  <1>5. CASE Plugins!List
    <2>1. /\ pc = "list" /\ pc' = "catalog" /\ world' = world /\ outcome' = outcome
          /\ seen' = [seen EXCEPT !.plugins = world.plugins]
      BY <1>5 DEF Plugins!List
    <2>2. seen'.plugins = world.plugins /\ seen'.catalog = {}
      BY <1>2, <2>1
    <2>3. PluginsFoundIn(i)'
      BY <1>3, <2>1, <2>2 DEF PluginsFoundIn, Installed, Catalogued
    <2> QED
      BY <1>4, <2>1, <2>2, <2>3
  <1>6. CASE Plugins!ReadCatalog
    <2>1. /\ pc = "catalog" /\ pc' = "scan" /\ world' = world /\ outcome' = outcome
          /\ seen' = [seen EXCEPT !.catalog = Plugins!CatalogOf(world)]
      BY <1>6 DEF Plugins!ReadCatalog
    <2>2. seen'.plugins = seen.plugins /\ seen'.catalog = Plugins!CatalogOf(world)
      BY <1>2, <2>1
    <2>3. Catalogued(i, seen, world)'
      <3> SUFFICES ASSUME NEW e \in Plugins!CatalogOf(world), e # Plugins!OwnSkill
                   PROVE  \E p \in Plugins!AllOf(i) :
                            /\ e = EntryOf(i.home, p)
                            /\ \/ p \in seen.plugins
                               \/ seen.plugins = i.plugins /\ p \notin i.plugins
                            /\ world.removed \/ p \in world.plugins
        BY <2>1, <2>2 DEF Catalogued, Plugins!OwnSkill, EntryOf
      <3>1. PICK p \in world.plugins : e = EntryOf(world.home, p)
        BY DEF Plugins!CatalogOf, EntryOf
      <3>2. p \in Plugins!AllOf(i) /\ e = EntryOf(i.home, p)
        BY <1>3, <3>1 DEF Installed
      <3>3. p \in seen.plugins \/ (seen.plugins = i.plugins /\ p \notin i.plugins)
        BY <1>3, <2>1, <3>1
      <3> QED
        BY <3>1, <3>2, <3>3
    <2>4. PluginsFoundIn(i)'
      BY <1>3, <2>1, <2>2, <2>3 DEF PluginsFoundIn, Installed
    <2> QED
      BY <1>4, <2>1, <2>4
  <1>7. CASE Plugins!Scan
    <2>1. PICK status : seen' = [seen EXCEPT !.status = status]
      BY <1>7, Zenon DEF Plugins!Scan
    <2>2. pc = "scan" /\ pc' = "build" /\ world' = world /\ outcome' = outcome
      BY <1>7 DEF Plugins!Scan
    <2>3. seen'.plugins = seen.plugins /\ seen'.catalog = seen.catalog
      BY <1>2, <2>1
    <2>4. PluginsFoundIn(i)'
      BY <1>3, <2>2, <2>3 DEF PluginsFoundIn, Installed, Catalogued
    <2> QED
      BY <1>4, <2>2, <2>4
  <1>8. CASE Plugins!Build
    <2> DEFINE built == Plugins!BuildReport(seen.plugins, Plugins!PluginSkills,
                                            seen.status, world.home, Plugins!OnDisk(world))
    <2>1. /\ pc = "build" /\ pc' = "done" /\ world' = world
          /\ seen' = [seen EXCEPT !.report = built.report]
          /\ outcome' = Concluded(IF built.findings = {} THEN "BASELINE_OK" ELSE "REVIEW",
                                  "report")
      <3>1. pc = "build" /\ pc' = "done" /\ world' = world
        BY <1>8, Zenon DEF Plugins!Build
      <3>2. seen' = [seen EXCEPT !.report = built.report]
        BY <1>8, Zenon DEF Plugins!Build
      <3>3. outcome' = Concluded(IF built.findings = {} THEN "BASELINE_OK" ELSE "REVIEW",
                                 "report")
        BY <1>8, Zenon DEF Plugins!Build, Plugins!Concluded, Concluded
      <3> QED
        BY <3>1, <3>2, <3>3
    <2>2. ASSUME built.findings = {}, IsReal(world.home.path) \/ ~world.removed,
                 NEW s \in Plugins!UniqueActive(seen.catalog), s.name # "mine"
          PROVE  /\ seen.status = "complete"
                 /\ \E p \in seen.plugins :
                      /\ p.enabled /\ s.path = Plugins!ManifestOf(world.home, p)
                      /\ {l \in built.report.links : l[2] = s} = {<<p.id, s>>}
                      /\ \A q \in seen.plugins : q.id = p.id => q = p
      BY <1>3, <2>1, <2>2, BuiltLinks
    <2>3. built.findings = {} => seen.status = "complete"
      BY NothingFound
    <2> HIDE DEF built
    <2> DEFINE report == built.report
    <2>4. report = built.report
      OBVIOUS
    <2> HIDE DEF report
    <2>5. seen' = [plugins |-> seen.plugins, catalog |-> seen.catalog, status |-> seen.status,
                   report |-> report]
      BY <1>2, <2>1, <2>4
    <2>6. /\ seen'.plugins = seen.plugins /\ seen'.catalog = seen.catalog
          /\ seen'.status = seen.status /\ seen'.report = report
      BY <2>5
    <2>7. outcome'.verdict = "BASELINE_OK" => built.findings = {}
      BY <2>1 DEF Concluded
    <2>8. PluginsFoundIn(i)'
      BY <1>3, <2>1, <2>6 DEF PluginsFoundIn, Installed, Catalogued
    <2>9. ASSUME built.findings = {} PROVE AllLinked(seen, world)'
      BY <2>1, <2>2, <2>3, <2>4, <2>6, <2>9 DEF AllLinked, LinkedTo
    <2> QED
      BY <2>1, <2>7, <2>8, <2>9 DEF PluginsFound, PluginsFoundIn
  <1>9. ASSUME NEW end, NEW where, Plugins!Fail(end, where), pc \in {"list", "catalog"}
        PROVE  PluginsFound'
    <2>1. /\ outcome' = Concluded(FailureVerdict(end), where)
          /\ pc' = "done" /\ world' = world /\ seen' = seen
      BY <1>9 DEF Plugins!Fail, Plugins!Concluded, Concluded, Plugins!FailureVerdict,
         FailureVerdict
    <2>2. outcome'.verdict # "BASELINE_OK"
      BY <2>1, FailureVerdicts DEF Concluded
    <2>3. Installed(i, world)' /\ Catalogued(i, seen, world)'
      BY <1>3, <2>1 DEF Installed, Catalogued
    <2> QED
      BY <2>1, <2>2, <2>3 DEF PluginsFound
  <1>10. ASSUME NEW p \in world.plugins, Plugins!Replace(p) PROVE PluginsFound'
    <2>1. PICK new \in {{}} \cup {{n} : n \in Plugins!NextVersions({p})} :
            world' = [world EXCEPT !.plugins = (@ \ {p}) \cup new, !.removed = TRUE]
      BY <1>10 DEF Plugins!Replace
    <2>2. pc' = pc /\ seen' = seen /\ outcome' = outcome /\ pc # "done" /\ ~world.removed
      BY <1>10 DEF Plugins!Replace
    <2> DEFINE plugins == (world.plugins \ {p}) \cup new
    <2>3. plugins \subseteq Plugins!AllOf(i)
      BY <1>3, <2>1, <2>2 DEF Installed, Plugins!AllOf, Plugins!NextVersions
    <2>4. world' = [world EXCEPT !.plugins = plugins, !.removed = TRUE]
      BY <2>1
    <2> HIDE DEF plugins
    <2>5. world'.home = world.home /\ world'.plugins = plugins /\ world'.removed
      BY <1>2, <2>4
    <2>6. pc \notin {"list", "done"} => seen.plugins = i.plugins
      BY <1>3, <2>2 DEF Installed
    <2>7. PluginsFoundIn(i)'
      BY <1>3, <2>2, <2>3, <2>5, <2>6 DEF PluginsFoundIn, Installed, Catalogued
    <2>8. pc' \in {"list", "catalog"} => seen'.catalog = {}
      BY <1>2, <2>2
    <2> QED
      BY <1>4, <2>2, <2>7, <2>8
  <1>11. ASSUME Plugins!ListFails \/ Plugins!SkillsFail PROVE PluginsFound'
    <2>1. /\ pc \in {"list", "catalog"}
          /\ \E end : Plugins!Fail(end, "plugins") \/ Plugins!Fail(end, "plugins.skills")
      BY <1>11, Zenon DEF Plugins!ListFails, Plugins!SkillsFail
    <2> QED
      BY <1>9, <2>1, Zenon
  <1> QED
    BY <1>5, <1>6, <1>7, <1>8, <1>10, <1>11, Zenon DEF Plugins!Next

PluginsFoundPart == part = "plugins" => PluginsFound

LEMMA PluginsFoundHolds == Spec => []PluginsFoundPart
  <1>1. Init => PluginsFoundPart
    BY PluginsFoundFirst DEF Init, PluginsFoundPart
  <1>2. PluginsPart /\ PluginsFoundPart /\ [Next]_vars => PluginsFoundPart'
    <2> SUFFICES ASSUME PluginsPart, PluginsFoundPart, [Next]_vars, part' = "plugins"
                 PROVE  PluginsFound'
      BY DEF PluginsFoundPart
    <2>1. part = "plugins" /\ PluginsInv /\ PluginsFound
      BY DEF PluginsPart, PluginsFoundPart, Next, Inspect, Render, vars
    <2>2. CASE Inspect
      <3>1. Plugins!Next
        BY <2>1, <2>2 DEF Inspect
      <3> QED
        BY <2>1, <3>1, PluginsFoundNext
    <2>3. CASE UNCHANGED <<pc, world, seen, outcome>>
      <3>1. NoOutcome' = NoOutcome
        BY DEF NoOutcome, Concluded
      <3> QED
        BY <2>1, <2>3, <3>1 DEF PluginsFound, Installed, Catalogued, AllLinked, LinkedTo
    <2> QED
      BY <2>2, <2>3 DEF Next, Render, vars
  <1> QED
    BY <1>1, <1>2, PluginsHold, PTL DEF Spec

PluginsEvidence == part = "plugins" => Plugins!BaselineIsEvidence

LEMMA PluginsTrue == PluginsFoundPart => PluginsEvidence
  BY DEF PluginsFoundPart, PluginsFound, AllLinked, LinkedTo, IsReal, PluginsEvidence,
     Plugins!BaselineIsEvidence, Plugins!Owned

\* BASELINE_OK, and how versions compare, is never said without the evidence for
\* it: the skill was read in a log that is whole; every active skill of a plugin is
\* linked to the plugin whose files hold it, though plugins are replaced while the
\* inventory, the catalog and the disk are read one after the other; what is called
\* an update was published; every Claude plugin's files were examined.
THEOREM VerdictsAreEvidence == Spec => []VerdictIsEvidence
  <1>1. SkillsEvidence /\ PluginsEvidence /\ UpdatesEvidence /\ ClaudeEvidence
        => VerdictIsEvidence
    BY DEF SkillsEvidence, PluginsEvidence, UpdatesEvidence, ClaudeEvidence, VerdictIsEvidence
  <1> QED
    BY <1>1, SkillsHold, SkillsBaseline, PluginsFoundHolds, PluginsTrue, UpdatesHold,
       UpdatesTrue, ClaudeHolds, ClaudeTrue, PTL

-----------------------------------------------------------------------------
(* Ranks: in a finite set that is ordered, an element is known by how many *)
(* there are up to it.                                                     *)

\* below[l] has the elements of F up to l.
Chain(F, below) ==
  /\ below \in [F -> SUBSET F]
  /\ \A l \in F : l \in below[l]
  /\ \A l, m \in F : below[l] \subseteq below[m] \/ below[m] \subseteq below[l]
  /\ \A l, m \in F : l \in below[m] /\ m \in below[l] => l = m

\* A rank has one element.
LEMMA RankUnique ==
  ASSUME NEW F, IsFiniteSet(F), NEW below, Chain(F, below), NEW l \in F, NEW m \in F,
         Cardinality(below[l]) = Cardinality(below[m])
  PROVE  l = m
  <1>1. \A x \in F : below[x] \in SUBSET F /\ IsFiniteSet(below[x]) /\ x \in below[x]
    BY FS_Subset DEF Chain
  <1>2. ASSUME NEW x \in F, NEW y \in F, below[x] \subseteq below[y],
               Cardinality(below[x]) = Cardinality(below[y])
        PROVE  x = y
    <2>1. below[x] = below[y]
      BY <1>1, <1>2, FS_Subset
    <2> QED
      BY <1>1, <2>1 DEF Chain
  <1>3. below[l] \subseteq below[m] \/ below[m] \subseteq below[l]
    BY DEF Chain
  <1> QED
    BY <1>2, <1>3

\* Every rank has an element: as many ranks as elements.
LEMMA RankOnto ==
  ASSUME NEW F, IsFiniteSet(F), NEW below, Chain(F, below), NEW i \in 1..Cardinality(F)
  PROVE  \E l \in F : Cardinality(below[l]) = i
  <1> DEFINE n == Cardinality(F)
             rank == [l \in F |-> Cardinality(below[l])]
  <1>1. n \in Nat /\ IsFiniteSet(1..n) /\ Cardinality(1..n) = n
    BY FS_CardinalityType, FS_Interval
  <1>2. \A l \in F : Cardinality(below[l]) \in 1..n
    <2> TAKE l \in F
    <2>1. below[l] \in SUBSET F /\ l \in below[l]
      BY DEF Chain
    <2>2. IsFiniteSet(below[l]) /\ Cardinality(below[l]) <= n
      BY <2>1, FS_Subset
    <2>3. Cardinality(below[l]) \in Nat /\ Cardinality(below[l]) # 0
      BY <2>1, <2>2, FS_CardinalityType, FS_EmptySet
    <2> QED
      BY <1>1, <2>2, <2>3
  <1>3. rank \in Injection(F, 1..n)
    <2>1. rank \in [F -> 1..n]
      BY <1>2
    <2>2. \A l, m \in F : rank[l] = rank[m] => l = m
      BY RankUnique
    <2> QED
      BY <2>1, <2>2 DEF Injection, IsInjective
  <1>4. rank \in Surjection(F, 1..n)
    BY <1>1, <1>3, FS_Injection
  <1>5. \E l \in F : rank[l] = i
    BY <1>4 DEF Surjection
  <1> QED
    BY <1>5

-----------------------------------------------------------------------------
(* The chosen instruction files of a tree.                                 *)

LEMMA AgentsCardinality == \A S : Agents!Cardinality(S) = Cardinality(S)
  BY DEF Agents!Cardinality, Cardinality

LEMMA MaxIs ==
  ASSUME NEW S \in SUBSET Int, NEW m \in S, \A x \in S : x <= m
  PROVE  Agents!Max(S) = m /\ Local!Max(S) = m
  <1>1. \A y \in S : m >= y
    OBVIOUS
  <1>2. \A c \in S : (\A y \in S : c >= y) => c = m
    OBVIOUS
  <1> QED
    BY <1>1, <1>2 DEF Agents!Max, Local!Max

LEMMA MinIs ==
  ASSUME NEW S \in SUBSET Int, NEW m \in S, \A x \in S : m <= x
  PROVE  Agents!Min(S) = m
  <1>1. \A y \in S : m =< y
    OBVIOUS
  <1>2. \A c \in S : (\A y \in S : c =< y) => c = m
    OBVIOUS
  <1> QED
    BY <1>1, <1>2 DEF Agents!Min

UpTo(W) == [d \in W |-> {e \in W : e <= d}]

LEMMA ChainOfNumbers == ASSUME NEW W \in SUBSET Int PROVE Chain(W, UpTo(W))
  <1>1. UpTo(W) \in [W -> SUBSET W]
    BY DEF UpTo
  <1>2. \A d \in W : UpTo(W)[d] = {e \in W : e <= d}
    BY DEF UpTo
  <1>3. \A d \in W : d \in UpTo(W)[d]
    BY <1>2
  <1>4. \A d, e \in W : UpTo(W)[d] \subseteq UpTo(W)[e] \/ UpTo(W)[e] \subseteq UpTo(W)[d]
    <2>1. ASSUME NEW d \in W, NEW e \in W, d <= e
          PROVE  {x \in W : x <= d} \subseteq {x \in W : x <= e}
      <3> SUFFICES ASSUME NEW x \in W, x <= d PROVE x <= e
        OBVIOUS
      <3> QED
        BY <2>1
    <2>2. \A d, e \in W : d <= e \/ e <= d
      OBVIOUS
    <2> QED
      BY <1>2, <2>1, <2>2
  <1>5. \A d, e \in W : d \in UpTo(W)[e] /\ e \in UpTo(W)[d] => d = e
    <2> SUFFICES ASSUME NEW d \in W, NEW e \in W, d \in UpTo(W)[e], e \in UpTo(W)[d]
                 PROVE  d = e
      OBVIOUS
    <2>1. d \in {x \in W : x <= e} /\ e \in {x \in W : x <= d}
      BY <1>2
    <2>2. d <= e /\ e <= d
      BY <2>1
    <2>3. d \in Int /\ e \in Int
      OBVIOUS
    <2> HIDE DEF UpTo
    <2> QED
      BY <2>2, <2>3
  <1> QED
    BY <1>1, <1>3, <1>4, <1>5 DEF Chain

\* How many there are up to a number.
LEMMA CountUpTo ==
  ASSUME NEW W \in SUBSET Int, IsFiniteSet(W), NEW d \in W
  PROVE  /\ Cardinality({e \in W : e < d}) \in Nat
         /\ Cardinality({e \in W : e <= d}) = Cardinality({e \in W : e < d}) + 1
         /\ Cardinality({e \in W : e < d}) + 1 <= Cardinality(W)
  <1> DEFINE L == {e \in W : e < d}
             U == {e \in W : e <= d}
  <1>1. L \in SUBSET W /\ U \in SUBSET W /\ U = L \cup {d} /\ d \notin L
    <2>1. L \in SUBSET W /\ U \in SUBSET W
      OBVIOUS
    <2>2. \A e : e \in U <=> e \in L \cup {d}
      <3>1. \A e \in W : e <= d <=> e < d \/ e = d
        OBVIOUS
      <3> QED
        BY <3>1, Zenon
    <2>3. d \notin L
      OBVIOUS
    <2> HIDE DEF L, U
    <2> QED
      BY <2>1, <2>2, <2>3
  <1> HIDE DEF L, U
  <1>2. IsFiniteSet(L) /\ Cardinality(U) <= Cardinality(W)
    BY <1>1, FS_Subset
  <1>3. Cardinality(L) \in Nat
    BY <1>2, FS_CardinalityType
  <1>4. Cardinality(U) = Cardinality(L) + 1
    BY <1>1, <1>2, FS_AddElement
  <1>5. /\ Cardinality(L) \in Nat
        /\ Cardinality(U) = Cardinality(L) + 1
        /\ Cardinality(L) + 1 <= Cardinality(W)
    BY <1>2, <1>3, <1>4
  <1> QED
    BY <1>5 DEF L, U

\* The settings of a tree are of their types.
Settled(tree) ==
  /\ Agents!IsTree(tree)
  /\ Agents!RootOf(tree) \in 0..Depth
  /\ Agents!FallbacksOf(tree) \in Seq(FallbackNames)

LEMMA WithFileIs ==
  ASSUME NEW tree, Settled(tree)
  PROVE  /\ Agents!WithFile(tree) \in SUBSET (0..Depth)
         /\ Agents!WithFile(tree) \in SUBSET Int
         /\ IsFiniteSet(Agents!WithFile(tree))
         /\ Cardinality(Agents!WithFile(tree)) \in Nat
  <1>1. Depth \in Nat \ {0}
    BY CommandAssumption
  <1>2. Agents!FirstDirectory(Agents!RootOf(tree)) \in 0..Depth
    BY <1>1, AgentsDirectories DEF Settled
  <1> DEFINE first == Agents!FirstDirectory(Agents!RootOf(tree))
             W == Agents!WithFile(tree)
  <1>3. W \subseteq {0} \cup (first..Depth)
    BY DEF Agents!WithFile
  <1>4. first \in 0..Depth
    BY <1>2
  <1> HIDE DEF W, first
  <1>5. W \in SUBSET (0..Depth)
    BY <1>1, <1>3, <1>4
  <1>6. IsFiniteSet(0..Depth)
    BY <1>1, FS_Interval
  <1>7. IsFiniteSet(W)
    BY <1>5, <1>6, FS_Subset
  <1>8. Cardinality(W) \in Nat
    BY <1>7, FS_CardinalityType
  <1>9. W \in SUBSET Int
    BY <1>1, <1>5
  <1> QED
    BY <1>5, <1>7, <1>8, <1>9 DEF W

\* The chosen file of a directory has the directory's rank.
LEMMA AllOfIs ==
  ASSUME NEW tree, Settled(tree)
  PROVE  /\ DOMAIN Agents!AllOf(tree) = 1..Cardinality(Agents!WithFile(tree))
         /\ Len(Agents!AllOf(tree)) = Cardinality(Agents!WithFile(tree))
         /\ \A d \in Agents!WithFile(tree) :
              Agents!AllOf(tree)[Cardinality({e \in Agents!WithFile(tree) : e < d}) + 1]
                = Agents!ChosenIn(tree, d)
         /\ \A i \in 1..Cardinality(Agents!WithFile(tree)) :
              \E d \in Agents!WithFile(tree) : Agents!AllOf(tree)[i] = Agents!ChosenIn(tree, d)
  <1> DEFINE W == Agents!WithFile(tree)
             Ranked(i) == CHOOSE d \in W : Agents!Cardinality({e \in W : e <= d}) = i
             all == Agents!AllOf(tree)
  <1>1. all = [i \in 1..Cardinality(W) |-> Agents!ChosenIn(tree, Ranked(i))]
    BY AgentsCardinality DEF Agents!AllOf
  <1>2. W \in SUBSET Int /\ IsFiniteSet(W) /\ Cardinality(W) \in Nat
    BY WithFileIs
  <1> HIDE DEF W, all
  <1>3. DOMAIN all = 1..Cardinality(W) /\ Len(all) = Cardinality(W)
    <2> HIDE DEF Ranked
    <2>1. DOMAIN all = 1..Cardinality(W)
      BY <1>1
    <2> QED
      BY <1>2, <2>1
  <1>4. \A d \in W : UpTo(W)[d] = {e \in W : e <= d}
    BY DEF UpTo
  <1>5. ASSUME NEW d \in W, NEW i \in 1..Cardinality(W), Cardinality({e \in W : e <= d}) = i
        PROVE  all[i] = Agents!ChosenIn(tree, d)
    <2>1. Ranked(i) \in W /\ Agents!Cardinality({e \in W : e <= Ranked(i)}) = i
      <3>1. Agents!Cardinality({e \in W : e <= d}) = i
        BY <1>5, AgentsCardinality
      <3> QED
        BY <3>1, Zenon
    <2> HIDE DEF Ranked
    <2>2. Cardinality(UpTo(W)[Ranked(i)]) = Cardinality(UpTo(W)[d])
      BY <1>4, <1>5, <2>1, AgentsCardinality
    <2>3. Ranked(i) = d
      BY <1>2, <2>1, <2>2, ChainOfNumbers, RankUnique
    <2> QED
      BY <1>1, <2>3
  <1>6. ASSUME NEW d \in W
        PROVE  all[Cardinality({e \in W : e < d}) + 1] = Agents!ChosenIn(tree, d)
    <2> DEFINE k == Cardinality({e \in W : e < d})
               u == Cardinality({e \in W : e <= d})
    <2>1. k \in Nat /\ u = k + 1 /\ k + 1 <= Cardinality(W)
      BY <1>2, CountUpTo
    <2>2. u = k + 1
      BY <2>1
    <2>3. k + 1 \in 1..Cardinality(W)
      <3> HIDE DEF k, u
      <3> QED
        BY <1>2, <2>1
    <2> QED
      BY <1>5, <2>2, <2>3
  <1>7. ASSUME NEW i \in 1..Cardinality(W)
        PROVE  \E d \in W : all[i] = Agents!ChosenIn(tree, d)
    <2>1. Chain(W, UpTo(W)) /\ IsFiniteSet(W)
      BY <1>2, ChainOfNumbers
    <2>2. \E d \in W : Cardinality(UpTo(W)[d]) = i
      <3> HIDE DEF Ranked
      <3> QED
        BY <2>1, RankOnto
    <2>3. PICK d \in W : Cardinality(UpTo(W)[d]) = i
      BY <2>2, Zenon
    <2> QED
      BY <1>4, <1>5, <2>3
  <1> QED
    BY <1>3, <1>6, <1>7 DEF W, all

\* The equations that BytesOf is to satisfy, for the sizes of m files.
Sums(f, m, size) ==
  f = [n \in 0..m |-> IF n = 0 THEN 0
                      ELSE f[n - 1] + size[n] + (IF n = 1 THEN 0 ELSE SeparatorBytes)]

LEMMA SumsExist == ASSUME NEW size PROVE \A m \in Nat : \E f : Sums(f, m, size)
  <1> DEFINE Good == {m \in Nat : \E f : Sums(f, m, size)}
  <1>1. 0 \in Good
    <2> DEFINE f0 == [n \in 0..0 |-> 0]
    <2>1. Sums(f0, 0, size)
      <3>1. \A n \in 0..0 : n = 0
        OBVIOUS
      <3> QED
        BY <3>1 DEF Sums
    <2> QED
      BY <2>1
  <1>2. ASSUME NEW m \in Nat, m \in Good PROVE m + 1 \in Good
    <2>1. PICK f : Sums(f, m, size)
      BY <1>2
    <2> DEFINE Step(g, n) == g[n - 1] + size[n] + (IF n = 1 THEN 0 ELSE SeparatorBytes)
               g == [n \in 0..(m + 1) |-> IF n = m + 1 THEN Step(f, n) ELSE f[n]]
    <2>2. f = [n \in 0..m |-> IF n = 0 THEN 0 ELSE Step(f, n)]
      BY <2>1 DEF Sums
    <2>3. \A n \in 0..(m + 1) : n # 0 => n - 1 \in 0..(m + 1) /\ n - 1 # m + 1
      OBVIOUS
    <2>4. \A n \in 0..(m + 1) : n # 0 => Step(g, n) = Step(f, n)
      BY <2>3
    <2>5. \A n \in 0..(m + 1) : n # m + 1 => n \in 0..m
      OBVIOUS
    <2>6. m + 1 # 0
      OBVIOUS
    <2>7. \A n \in 0..(m + 1) : g[n] = IF n = 0 THEN 0 ELSE Step(g, n)
      <3> HIDE DEF Step
      <3>1. \A n \in 0..m : f[n] = IF n = 0 THEN 0 ELSE Step(f, n)
        BY <2>2
      <3>2. \A n \in 0..(m + 1) : g[n] = IF n = m + 1 THEN Step(f, n) ELSE f[n]
        OBVIOUS
      <3> HIDE DEF g
      <3> QED
        BY <2>4, <2>5, <2>6, <3>1, <3>2
    <2>8. g = [n \in 0..(m + 1) |-> IF n = 0 THEN 0 ELSE Step(g, n)]
      <3>1. g = [n \in 0..(m + 1) |-> g[n]]
        OBVIOUS
      <3> HIDE DEF g, Step
      <3> QED
        BY <2>7, <3>1
    <2>9. Sums(g, m + 1, size)
      <3> HIDE DEF g
      <3> QED
        BY <2>8 DEF Sums
    <2>10. m + 1 \in Nat
      OBVIOUS
    <2> HIDE DEF g
    <2> QED
      BY <2>9, <2>10
  <1>3. Nat \subseteq Good
    <2> HIDE DEF Good
    <2> QED
      BY <1>1, <1>2, Induction
  <1> QED
    BY <1>3

\* What the first n files take together.
LEMMA BytesOfIs ==
  ASSUME NEW tree, Settled(tree)
  PROVE  /\ Agents!BytesOf(tree)[0] = 0
         /\ \A n \in 1..Cardinality(Agents!WithFile(tree)) :
              Agents!BytesOf(tree)[n]
                = Agents!BytesOf(tree)[n - 1] + Agents!Size(tree, Agents!AllOf(tree)[n])
                    + (IF n = 1 THEN 0 ELSE SeparatorBytes)
  <1> DEFINE all == Agents!AllOf(tree)
             N == Cardinality(Agents!WithFile(tree))
             size == [n \in 1..N |-> Agents!Size(tree, all[n])]
             Bytes(f) ==
               f = [n \in 0..N |->
                      IF n = 0 THEN 0
                      ELSE f[n - 1] + Agents!Size(tree, all[n])
                             + (IF n = 1 THEN 0 ELSE SeparatorBytes)]
  <1>1. N \in Nat /\ Len(all) = N
    BY WithFileIs, AllOfIs
  <1>2. Agents!BytesOf(tree) = CHOOSE f : Bytes(f)
    BY <1>1, Zenon DEF Agents!BytesOf
  <1> HIDE DEF all, N
  <1>3. PICK f : Sums(f, N, size)
    BY <1>1, SumsExist
  <1>4. \A n \in 0..N : n # 0 => n \in 1..N
    BY <1>1
  <1>5. \A n \in 0..N : n # 0 => size[n] = Agents!Size(tree, all[n])
    BY <1>4
  <1> HIDE DEF size
  <1>6. Bytes(f)
    <2>1. f = [n \in 0..N |-> IF n = 0 THEN 0
                      ELSE f[n - 1] + size[n] + (IF n = 1 THEN 0 ELSE SeparatorBytes)]
      BY <1>3 DEF Sums
    <2> QED
      BY <1>5, <2>1
  <1>7. Bytes(Agents!BytesOf(tree))
    BY <1>2, <1>6, Zenon
  <1> DEFINE b == Agents!BytesOf(tree)
  <1>8. \A n \in 0..N : b[n] = IF n = 0 THEN 0
                        ELSE b[n - 1] + Agents!Size(tree, all[n])
                             + (IF n = 1 THEN 0 ELSE SeparatorBytes)
    BY <1>7, Zenon
  <1>9. 0 \in 0..N /\ \A n \in 1..N : n \in 0..N /\ n # 0
    BY <1>1
  <1> HIDE DEF b
  <1>10. b[0] = 0 /\ \A n \in 1..N : b[n] = b[n - 1] + Agents!Size(tree, all[n])
                             + (IF n = 1 THEN 0 ELSE SeparatorBytes)
    BY <1>8, <1>9
  <1> QED
    BY <1>10 DEF b, all, N

\* The names that are tried in a directory.
LEMMA CandidateNames ==
  ASSUME NEW d, NEW fallbacks \in Seq(FallbackNames)
  PROVE  Agents!Candidates(d, fallbacks) \in Seq(Agents!InstructionNames)
  <1> DEFINE names == Agents!InstructionNames
             more == IF d = 0 THEN << >> ELSE fallbacks
  <1>1. "override" \in names /\ "default" \in names /\ FallbackNames \subseteq names
    BY DEF Agents!InstructionNames
  <1>2. Agents!Candidates(d, fallbacks) = <<"override", "default">> \o more
    BY DEF Agents!Candidates
  <1> HIDE DEF names
  <1>3. more \in Seq(names) /\ <<"override", "default">> \in Seq(names)
    BY <1>1
  <1> HIDE DEF more
  <1>4. <<"override", "default">> \o more \in Seq(names)
    BY <1>3
  <1> QED
    BY <1>2, <1>4 DEF names

LEMMA InstructionFiles ==
  ASSUME NEW d \in 0..Depth, NEW name \in Agents!InstructionNames
  PROVE  <<d, name>> \in Agents!Files
  BY Zenon DEF Agents!Files

LEMMA ContentIs ==
  ASSUME NEW tree, Agents!IsTree(tree), NEW d, NEW name \in Agents!InstructionNames,
         <<d, name>> \in Agents!Files
  PROVE  tree[<<d, name>>] \in {Absent, Denied} \/ tree[<<d, name>>] \in Nat
  <1> DEFINE l == <<d, name>>
  <1>1. l[2] = name
    OBVIOUS
  <1>2. name \notin {"config", "layer"}
    BY CommandAssumption DEF Agents!InstructionNames
  <1>3. Agents!IsContent(l, tree[l])
    BY DEF Agents!IsTree
  <1> HIDE DEF l
  <1>4. tree[l] \in {Absent, Denied} \/ tree[l] \in Nat
    BY <1>1, <1>2, <1>3 DEF Agents!IsContent
  <1> QED
    BY <1>4 DEF l

\* A chosen file is one that there is, and has a size unless it is denied.
LEMMA ChosenIs ==
  ASSUME NEW tree, Settled(tree), NEW d \in Agents!WithFile(tree)
  PROVE  /\ Agents!ChosenIn(tree, d) \in Agents!Files
         /\ Agents!Size(tree, Agents!ChosenIn(tree, d)) \in Nat
  <1> DEFINE names == Agents!Candidates(d, Agents!FallbacksOf(tree))
             found == Agents!FoundIn(tree, d)
             i == Agents!Min(found)
  <1>1. names \in Seq(Agents!InstructionNames)
    BY CandidateNames DEF Settled
  <1>2. d \in 0..Depth /\ found # {}
    <2>1. d \in 0..Depth
      BY WithFileIs
    <2>2. found # {}
      BY DEF Agents!WithFile
    <2> QED
      BY <2>1, <2>2
  <1>3. found = {j \in DOMAIN names : tree[<<d, names[j]>>] \notin {Absent, 0}}
    BY DEF Agents!FoundIn
  <1>4. Agents!ChosenIn(tree, d) = <<d, names[i]>>
    BY DEF Agents!ChosenIn
  <1> HIDE DEF names, found
  <1>5. found \in SUBSET Nat /\ found \in SUBSET Int
    BY <1>1, <1>3
  <1>6. i \in found
    <2>1. PICK m \in found : \A x \in found : m <= x
      BY <1>2, <1>5, LeastNumber
    <2>2. i = m
      BY <1>5, <2>1, MinIs
    <2> QED
      BY <2>1, <2>2
  <1> HIDE DEF i
  <1> DEFINE l == <<d, names[i]>>
  <1>7. names[i] \in Agents!InstructionNames /\ tree[l] \notin {Absent, 0}
    BY <1>1, <1>3, <1>6
  <1>8. l \in Agents!Files
    BY <1>2, <1>7, InstructionFiles
  <1>9. Agents!Size(tree, l) \in Nat
    <2>1. tree[l] \in {Absent, Denied} \/ tree[l] \in Nat
      BY <1>7, <1>8, ContentIs DEF Settled
    <2> QED
      BY <1>7, <2>1 DEF Agents!Size
  <1> QED
    BY <1>4, <1>8, <1>9

\* The more files, the more bytes.
LEMMA BytesGrow ==
  ASSUME NEW tree, Settled(tree)
  PROVE  \A n \in 0..Cardinality(Agents!WithFile(tree)) :
           /\ Agents!BytesOf(tree)[n] \in Nat
           /\ \A m \in 0..n : Agents!BytesOf(tree)[m] <= Agents!BytesOf(tree)[n]
  <1> DEFINE N == Cardinality(Agents!WithFile(tree))
             b == Agents!BytesOf(tree)
             Added(n) == Agents!Size(tree, Agents!AllOf(tree)[n])
             Grows(n) == b[n] \in Nat /\ \A m \in 0..n : b[m] \in Nat /\ b[m] <= b[n]
             Good == {n \in Nat : n <= N => Grows(n)}
  <1>1. N \in Nat
    BY WithFileIs
  <1>2. SeparatorBytes \in Nat
    BY CommandAssumption
  <1>3. b[0] = 0 /\ \A n \in 1..N : b[n] = b[n - 1] + Added(n) + (IF n = 1 THEN 0 ELSE SeparatorBytes)
    BY BytesOfIs
  <1>4. \A n \in 1..N : Added(n) \in Nat
    <2> TAKE n \in 1..N
    <2>1. PICK d \in Agents!WithFile(tree) : Agents!AllOf(tree)[n] = Agents!ChosenIn(tree, d)
      BY AllOfIs
    <2> QED
      BY <2>1, ChosenIs
  <1> HIDE DEF N, b, Added
  <1>5. 0 \in Good
    <2>1. \A m \in 0..0 : m = 0
      OBVIOUS
    <2> QED
      BY <1>3, <2>1
  <1>6. ASSUME NEW n \in Nat, n \in Good PROVE n + 1 \in Good
    <2> SUFFICES ASSUME n + 1 <= N PROVE Grows(n + 1)
      OBVIOUS
    <2>1. n + 1 \in 1..N /\ (n + 1) - 1 = n /\ n <= N
      BY <1>1
    <2>2. Grows(n)
      BY <1>6, <2>1
    <2>3. b[n + 1] = b[n] + Added(n + 1) + (IF n + 1 = 1 THEN 0 ELSE SeparatorBytes)
      BY <1>3, <2>1
    <2>4. b[n + 1] \in Nat /\ b[n] <= b[n + 1]
      BY <1>2, <1>4, <2>1, <2>2, <2>3
    <2>5. \A m \in 0..(n + 1) : m \in 0..n \/ m = n + 1
      OBVIOUS
    <2> QED
      BY <2>2, <2>4, <2>5
  <1>7. Nat \subseteq Good
    <2> HIDE DEF Good
    <2> QED
      BY <1>5, <1>6, Induction
  <1>8. \A n \in 0..N : Grows(n)
    BY <1>1, <1>7
  <1> QED
    BY <1>8 DEF N, b

\* As many files as the budget admits.
LEMMA SourcesOfIs ==
  ASSUME NEW tree, Settled(tree), Agents!MaxOf(tree) \in Nat,
         NEW k \in 0..Cardinality(Agents!WithFile(tree)),
         Agents!BytesOf(tree)[k] <= Agents!MaxOf(tree),
         \/ k = Cardinality(Agents!WithFile(tree))
         \/ Agents!BytesOf(tree)[k + 1] > Agents!MaxOf(tree)
  PROVE  Agents!SourcesOf(tree) = [i \in 1..k |-> Agents!AllOf(tree)[i]]
  <1> DEFINE N == Cardinality(Agents!WithFile(tree))
             b == Agents!BytesOf(tree)
             max == Agents!MaxOf(tree)
             all == Agents!AllOf(tree)
             fits == {n \in 0..N : b[n] <= max}
  <1>1. N \in Nat /\ Len(all) = N
    BY WithFileIs, AllOfIs
  <1>2. \A n \in 0..N : b[n] \in Nat /\ \A m \in 0..n : b[m] <= b[n]
    BY BytesGrow
  <1>3. Agents!SourcesOf(tree) = SubSeq(all, 1, Agents!Max(fits))
    BY <1>1, Zenon DEF Agents!SourcesOf
  <1>4. k \in 0..N /\ b[k] <= max /\ (k = N \/ b[k + 1] > max) /\ max \in Nat
    OBVIOUS
  <1> HIDE DEF N, b, max, all
  <1>5. \A n \in fits : n <= k
    <2> SUFFICES ASSUME NEW n \in fits, n > k PROVE FALSE
      BY <1>1, <1>4
    <2>1. n \in 0..N /\ k + 1 \in 0..n /\ k + 1 \in 0..N /\ b[k + 1] > max
      BY <1>1, <1>4
    <2>2. b[k + 1] <= b[n] /\ b[n] \in Nat /\ b[k + 1] \in Nat /\ b[n] <= max
      BY <1>2, <2>1
    <2> QED
      BY <1>4, <2>1, <2>2
  <1>6. fits \in SUBSET Int /\ k \in fits
    BY <1>4
  <1> HIDE DEF fits
  <1>7. Agents!Max(fits) = k
    BY <1>5, <1>6, MaxIs
  <1>8. k \in Nat /\ SubSeq(all, 1, k) = [i \in 1..k |-> all[i]]
    BY <1>1, <1>4
  <1> QED
    BY <1>3, <1>7, <1>8 DEF all

-----------------------------------------------------------------------------
(* What the files of a summary say.  A walk reads one file after the other *)
(* while one of them may change, and its invariant is about every tree     *)
(* that holds, in the files behind the walk, what one of the two trees     *)
(* that there were holds there: whatever lies ahead, what is seen so far   *)
(* agrees with it.  What lies ahead is still as it was in that tree.       *)

\* The files that no step reads any more, but for those of the directory that
\* is searched for its instruction file.
AgentsBehind ==
  {l \in Agents!Files :
     \/ l[2] = "config" /\ pc # "config"
     \/ l[2] = "marker" /\ (pc \in {"layers", "files"} \/ (pc = "root" /\ l[1] > seen.dir))
     \/ l[2] = "layer" /\ (pc = "files" \/ (pc = "layers" /\ l[1] < seen.dir))
     \/ l[2] \in Agents!InstructionNames /\ pc = "files" /\ l[1] < seen.dir}

AgentsNames == Agents!Candidates(seen.dir, seen.fallbacks)

\* The candidates of that directory that were tried before.
AgentsTried ==
  {<<seen.dir, AgentsNames[i]>> :
     i \in {j \in DOMAIN AgentsNames : pc = "files" /\ seen.dir <= Depth /\ j < seen.file}}

\* A setting of the layers before a directory.
SettingBelow(tree, field, default, e) ==
  LET setting == {d \in Agents!LayersOf(tree) :
                    d < e /\ Agents!ConfigOf(tree, d, "layer")[field] # {}}
  IN  IF setting # {}
      THEN Agents!OrElse(Agents!ConfigOf(tree, Agents!Max(setting), "layer")[field], default)
      ELSE Agents!OrElse(Agents!ConfigOf(tree, 0, "config")[field], default)

AgentsAtRoot(tree) ==
  /\ seen.user = Agents!ConfigOf(tree, 0, "config") /\ seen.user.markers
  /\ \A d \in 1..Depth : d > seen.dir => tree[<<d, "marker">>] = Absent
  /\ seen.max = Agents!OrElse(seen.user.max, DefaultMaxBytes)
  /\ seen.fallbacks = Agents!OrElse(seen.user.fallbacks, << >>)

AgentsAtLayers(tree) ==
  /\ seen.user = Agents!ConfigOf(tree, 0, "config")
  /\ seen.root = Agents!RootOf(tree)
  /\ Agents!ToSet(seen.layers) = {d \in Agents!LayersOf(tree) : d < seen.dir}
  /\ seen.max = SettingBelow(tree, "max", DefaultMaxBytes, seen.dir)
  /\ seen.fallbacks = SettingBelow(tree, "fallbacks", << >>, seen.dir)

\* The sources are the first ones of the tree, those in the directories before
\* the one that is searched or before the one that exceeds the budget.
AgentsSources(tree) ==
  LET k == Len(seen.sources)
  IN  /\ k <= Cardinality(Agents!WithFile(tree))
      /\ \A i \in 1..k : seen.sources[i] = Agents!AllOf(tree)[i]
      /\ \A i \in 1..k : tree[seen.sources[i]] # Denied
      /\ seen.bytes = Agents!BytesOf(tree)[k]
      /\ \/ k = Cardinality({d \in Agents!WithFile(tree) : d < seen.dir})
         \/ /\ seen.dir > Depth /\ k < Cardinality(Agents!WithFile(tree))
            /\ Agents!BytesOf(tree)[k + 1] > seen.max

AgentsAtFiles(tree) ==
  /\ seen.root = Agents!RootOf(tree)
  /\ Agents!ToSet(seen.layers) = Agents!LayersOf(tree)
  /\ seen.max = Agents!MaxOf(tree) /\ seen.fallbacks = Agents!FallbacksOf(tree)
  /\ AgentsSources(tree)

\* What is seen is what the tree says.
AgentsAgree(tree) ==
  /\ pc = "root" => AgentsAtRoot(tree)
  /\ pc = "layers" => AgentsAtLayers(tree)
  /\ pc = "files" => AgentsAtFiles(tree)

AgentsWitness(t) ==
  /\ \A tree : Agents!IsTree(tree) /\ (\A l \in AgentsBehind : tree[l] = t[l]) => AgentsAgree(tree)
  /\ \A l \in AgentsTried : t[l] \in {Absent, 0}
  /\ \A l \in Agents!Files : l \in AgentsBehind \/ l \in AgentsTried \/ world.now[l] = t[l]

\* What is seen by itself, whatever the trees are.
AgentsShape ==
  /\ seen.fallbacks \in Seq(FallbackNames)
  /\ seen.layers \in Seq(Int) /\ seen.sources \in Seq(Agents!Files)
  /\ pc \in {"config", "root", "layers"} => seen.sources = << >> /\ seen.file = 1
  /\ pc \in {"config", "root"} => seen.layers = << >>
  /\ pc = "config" => seen.dir = Depth
  /\ pc = "layers" => Agents!FirstDirectory(seen.root) <= seen.dir
  /\ pc = "files" => seen.dir = 0 \/ Agents!FirstDirectory(seen.root) <= seen.dir
  /\ pc = "files" /\ seen.dir <= Depth => seen.file \in DOMAIN AgentsNames

OneEdit == \E x : \A l \in Agents!Files : l = x \/ world.now[l] = world.before[l]

AgentsOnce ==
  /\ Agents!IsTree(world.before)
  /\ OneEdit
  /\ AgentsShape
  /\ pc # "done" => \E t \in {world.now, world.before} : AgentsWitness(t)
  /\ Agents!LooksAtOnce

\* Above the first directory there is no layer.
LEMMA NoLayersAbove ==
  ASSUME NEW tree, NEW r, r = Agents!RootOf(tree)
  PROVE  \A d \in Agents!LayersOf(tree) :
           d \in Agents!FirstDirectory(r)..Depth
  BY DEF Agents!LayersOf

LEMMA NoSettingAbove ==
  ASSUME NEW tree, NEW r \in 0..Depth, r = Agents!RootOf(tree), NEW field, NEW default
  PROVE  /\ {d \in Agents!LayersOf(tree) : d < Agents!FirstDirectory(r)} = {}
         /\ SettingBelow(tree, field, default, Agents!FirstDirectory(r))
              = Agents!OrElse(Agents!ConfigOf(tree, 0, "config")[field], default)
  <1> DEFINE first == Agents!FirstDirectory(r)
  <1>1. Depth \in Nat \ {0} /\ first \in 0..(Depth + 1)
    BY CommandAssumption, AgentsDirectories
  <1>2. \A d \in Agents!LayersOf(tree) : d \in first..Depth
    BY NoLayersAbove
  <1> HIDE DEF first
  <1>3. \A d \in Agents!LayersOf(tree) : ~(d < first)
    BY <1>1, <1>2
  <1>4. /\ {d \in Agents!LayersOf(tree) : d < first} = {}
        /\ {d \in Agents!LayersOf(tree) : d < first /\ Agents!ConfigOf(tree, d, "layer")[field] # {}} = {}
    BY <1>3
  <1>5. SettingBelow(tree, field, default, first)
              = Agents!OrElse(Agents!ConfigOf(tree, 0, "config")[field], default)
    BY <1>4 DEF SettingBelow
  <1> QED
    BY <1>4, <1>5 DEF first

\* The user's configuration is read.
LEMMA ConfigAgrees ==
  ASSUME AgentsInv, AgentsShape, Agents!ReadConfig, NEW tree,
         tree[<<0, "config">>] = world.now[<<0, "config">>]
  PROVE  AgentsAgree(tree)'
  <1> DEFINE c == Agents!ConfigOf(tree, 0, "config")
  <1>1. Depth \in Nat \ {0}
    BY CommandAssumption
  <1>2. /\ seen = [user |-> seen.user, dir |-> seen.dir, file |-> seen.file,
                   root |-> seen.root, max |-> seen.max, fallbacks |-> seen.fallbacks,
                   layers |-> seen.layers, sources |-> seen.sources, bytes |-> seen.bytes]
        /\ pc = "config" /\ seen.dir = Depth /\ seen.layers = << >>
    BY DEF AgentsInv, AgentsShape, Agents!ReadConfig
  <1>3. c = IF world.now[<<0, "config">>] = Absent THEN Agents!NoConfig
            ELSE world.now[<<0, "config">>]
    BY DEF Agents!ReadConfig, Agents!File, Agents!ConfigOf
  <1>4. /\ seen' = [seen EXCEPT !.user = c, !.max = Agents!OrElse(c.max, DefaultMaxBytes),
                                !.fallbacks = Agents!OrElse(c.fallbacks, << >>),
                                !.root = IF c.markers THEN 0 ELSE Depth]
        /\ pc' = IF c.markers THEN "root" ELSE "layers"
    BY <1>3, Zenon DEF Agents!ReadConfig, Agents!File
  <1> DEFINE max == Agents!OrElse(c.max, DefaultMaxBytes)
             fallbacks == Agents!OrElse(c.fallbacks, << >>)
             r == IF c.markers THEN 0 ELSE Depth
  <1>5. seen' = [user |-> c, dir |-> Depth, file |-> seen.file, root |-> r, max |-> max,
                 fallbacks |-> fallbacks, layers |-> << >>, sources |-> seen.sources,
                 bytes |-> seen.bytes]
    <2> HIDE DEF c, max, fallbacks, r
    <2>1. seen' = [seen EXCEPT !.user = c, !.max = max, !.fallbacks = fallbacks, !.root = r]
      BY <1>4 DEF max, fallbacks, r
    <2> QED
      BY <1>2, <2>1
  <1>6. CASE c.markers
    <2> HIDE DEF c
    <2>1. AgentsAtRoot(tree)'
      BY <1>1, <1>5, <1>6 DEF AgentsAtRoot, c
    <2> QED
      BY <1>4, <1>6, <2>1 DEF AgentsAgree
  <1>7. CASE ~c.markers
    <2>1. r = Depth /\ r \in 0..Depth
      BY <1>1, <1>7
    <2>2. Agents!RootOf(tree) = Depth
      BY <1>7 DEF Agents!RootOf
    <2>3. Agents!FirstDirectory(Depth) = Depth
      BY <1>1 DEF Agents!FirstDirectory
    <2>4. {d \in Agents!LayersOf(tree) : d < Depth} = {}
      BY <2>1, <2>2, <2>3, NoSettingAbove
    <2>5. /\ SettingBelow(tree, "max", DefaultMaxBytes, Depth) = Agents!OrElse(c["max"], DefaultMaxBytes)
          /\ SettingBelow(tree, "fallbacks", << >>, Depth) = Agents!OrElse(c["fallbacks"], << >>)
      BY <2>1, <2>2, <2>3, NoSettingAbove
    <2>6. Agents!ToSet(<< >>) = {}
      BY DEF Agents!ToSet
    <2>7. AgentsAtLayers(tree)'
      <3> HIDE DEF c, r
      <3> QED
        BY <1>5, <2>1, <2>2, <2>4, <2>5, <2>6 DEF AgentsAtLayers, c
    <2> QED
      BY <1>4, <1>7, <2>7 DEF AgentsAgree
  <1> QED
    BY <1>6, <1>7

\* A directory is examined for a root marker.
LEMMA RootAgrees ==
  ASSUME AgentsInv, AgentsShape, Agents!FindRoot, NEW tree, AgentsAgree(tree),
         tree[<<seen.dir, "marker">>] = world.now[<<seen.dir, "marker">>]
  PROVE  AgentsAgree(tree)'
  <1> DEFINE m == tree[<<seen.dir, "marker">>]
             c == Agents!ConfigOf(tree, 0, "config")
  <1>1. Depth \in Nat \ {0}
    BY CommandAssumption
  <1>2. /\ seen = [user |-> seen.user, dir |-> seen.dir, file |-> seen.file,
                   root |-> seen.root, max |-> seen.max, fallbacks |-> seen.fallbacks,
                   layers |-> seen.layers, sources |-> seen.sources, bytes |-> seen.bytes]
        /\ pc = "root" /\ seen.dir \in 1..Depth /\ seen.layers = << >>
    BY <1>1 DEF AgentsInv, AgentsShape, Agents!FindRoot
  <1>3. AgentsAtRoot(tree)
    BY <1>2 DEF AgentsAgree
  <1>4. \/ m = Absent /\ seen.dir > 1 /\ seen' = [seen EXCEPT !.dir = @ - 1] /\ pc' = pc
        \/ \E r \in {0, seen.dir} :
             /\ r = IF m = Absent THEN 0 ELSE seen.dir
             /\ ~(m = Absent /\ seen.dir > 1)
             /\ seen' = [seen EXCEPT !.root = r, !.dir = Agents!FirstDirectory(r)]
             /\ pc' = "layers"
    BY Zenon DEF Agents!FindRoot, Agents!File
  <1>5. CASE m = Absent /\ seen.dir > 1 /\ seen' = [seen EXCEPT !.dir = @ - 1] /\ pc' = pc
    <2>1. seen' = [user |-> seen.user, dir |-> seen.dir - 1, file |-> seen.file,
                   root |-> seen.root, max |-> seen.max, fallbacks |-> seen.fallbacks,
                   layers |-> seen.layers, sources |-> seen.sources, bytes |-> seen.bytes]
      BY <1>2, <1>5
    <2>2. \A d \in 1..Depth : d > seen.dir - 1 => tree[<<d, "marker">>] = Absent
      <3>1. \A d \in 1..Depth : d > seen.dir - 1 => d > seen.dir \/ d = seen.dir
        BY <1>2
      <3> QED
        BY <1>3, <1>5, <3>1 DEF AgentsAtRoot
    <2>3. AgentsAtRoot(tree)'
      BY <1>3, <2>1, <2>2 DEF AgentsAtRoot
    <2> QED
      BY <1>2, <1>5, <2>3 DEF AgentsAgree
  <1>6. ASSUME NEW r \in {0, seen.dir}, r = IF m = Absent THEN 0 ELSE seen.dir,
               ~(m = Absent /\ seen.dir > 1), pc' = "layers",
               seen' = [seen EXCEPT !.root = r, !.dir = Agents!FirstDirectory(r)]
        PROVE  AgentsAgree(tree)'
    <2>1. r \in 0..Depth
      BY <1>1, <1>2
    <2>2. Agents!RootOf(tree) = r
      <3> DEFINE S == {0} \cup {d \in 1..Depth : tree[<<d, "marker">>] # Absent}
      <3>1. Agents!RootOf(tree) = Agents!Max(S)
        BY <1>3, Zenon DEF Agents!RootOf, AgentsAtRoot
      <3>2. \A d \in 1..Depth : tree[<<d, "marker">>] # Absent => d <= seen.dir
        BY <1>2, <1>3 DEF AgentsAtRoot
      <3>3. S \in SUBSET Int
        BY <1>1
      <3>4. r \in S
        BY <1>2, <1>6
      <3>5. \A x \in S : x <= r
        <4>1. CASE m = Absent
          <5>1. seen.dir = 1 /\ r = 0
            BY <1>2, <1>6, <4>1
          <5>2. \A d \in 1..Depth : tree[<<d, "marker">>] = Absent
            <6> SUFFICES ASSUME NEW d \in 1..Depth, tree[<<d, "marker">>] # Absent PROVE FALSE
              OBVIOUS
            <6>1. d = seen.dir
              BY <1>1, <3>2, <5>1
            <6> QED
              BY <4>1, <6>1
          <5> QED
            BY <5>1, <5>2
        <4>2. CASE m # Absent
          BY <1>2, <1>6, <3>2, <4>2
        <4> QED
          BY <4>1, <4>2
      <3> HIDE DEF S
      <3> QED
        BY <3>1, <3>3, <3>4, <3>5, MaxIs
    <2> DEFINE first == Agents!FirstDirectory(r)
    <2>3. /\ {d \in Agents!LayersOf(tree) : d < first} = {}
          /\ SettingBelow(tree, "max", DefaultMaxBytes, first) = Agents!OrElse(c["max"], DefaultMaxBytes)
          /\ SettingBelow(tree, "fallbacks", << >>, first) = Agents!OrElse(c["fallbacks"], << >>)
      BY <2>1, <2>2, NoSettingAbove
    <2>4. seen' = [seen EXCEPT !.root = r, !.dir = first]
      BY <1>6
    <2> HIDE DEF first
    <2>5. seen' = [user |-> seen.user, dir |-> first, file |-> seen.file,
                   root |-> r, max |-> seen.max, fallbacks |-> seen.fallbacks,
                   layers |-> << >>, sources |-> seen.sources, bytes |-> seen.bytes]
      BY <1>2, <2>4
    <2>6. Agents!ToSet(<< >>) = {}
      BY DEF Agents!ToSet
    <2>7. seen.user = c /\ seen.max = Agents!OrElse(c.max, DefaultMaxBytes)
          /\ seen.fallbacks = Agents!OrElse(c.fallbacks, << >>)
      BY <1>3 DEF AgentsAtRoot
    <2>8. AgentsAtLayers(tree)'
      <3> HIDE DEF c
      <3> QED
        BY <2>2, <2>3, <2>5, <2>6, <2>7 DEF AgentsAtLayers, c
    <2> QED
      BY <1>6, <2>8 DEF AgentsAgree
  <1> QED
    BY <1>4, <1>5, <1>6

\* The setting of one more layer.
LEMMA SettingNext ==
  ASSUME NEW tree, Agents!LayersOf(tree) \subseteq Int, NEW e \in Int, NEW field, NEW default,
         NEW layer, layer = Agents!ConfigOf(tree, e, "layer"),
         layer[field] # {} => e \in Agents!LayersOf(tree)
  PROVE  SettingBelow(tree, field, default, e + 1)
           = Agents!OrElse(layer[field], SettingBelow(tree, field, default, e))
  <1> DEFINE Of(x) == {d \in Agents!LayersOf(tree) :
                         d < x /\ Agents!ConfigOf(tree, d, "layer")[field] # {}}
             Value(S) == IF S # {}
                         THEN Agents!OrElse(Agents!ConfigOf(tree, Agents!Max(S), "layer")[field],
                                            default)
                         ELSE Agents!OrElse(Agents!ConfigOf(tree, 0, "config")[field], default)
             before == Of(e)
             after == Of(e + 1)
  <1>1. /\ SettingBelow(tree, field, default, e) = Value(before)
        /\ SettingBelow(tree, field, default, e + 1) = Value(after)
    BY Zenon DEF SettingBelow
  <1>2. \A d \in Agents!LayersOf(tree) : d < e + 1 <=> d < e \/ d = e
    OBVIOUS
  <1>3. CASE layer[field] = {}
    <2>1. after = before
      BY <1>2, <1>3
    <2>2. Agents!OrElse(layer[field], Value(before)) = Value(before)
      BY <1>3, Zenon DEF Agents!OrElse
    <2> HIDE DEF before, after, Value
    <2> QED
      BY <1>1, <2>1, <2>2
  <1>4. CASE layer[field] # {}
    <2>1. e \in after
      BY <1>4
    <2>2. \A d \in after : d <= e
      BY <1>2
    <2>3. after \in SUBSET Int
      OBVIOUS
    <2> HIDE DEF after, before
    <2>4. Agents!Max(after) = e
      BY <2>1, <2>2, <2>3, MaxIs
    <2>5. Value(after) = Agents!OrElse(layer[field], default)
      BY <2>1, <2>4, Zenon
    <2>6. Agents!OrElse(layer[field], default) = Agents!OrElse(layer[field], Value(before))
      <3> HIDE DEF Value
      <3> QED
        BY <1>4 DEF Agents!OrElse
    <2> HIDE DEF Value
    <2> QED
      BY <1>1, <2>5, <2>6
  <1> QED
    BY <1>3, <1>4

LEMMA ToSetAppend ==
  ASSUME NEW S, NEW s \in Seq(S), NEW x \in S
  PROVE  Agents!ToSet(Append(s, x)) = Agents!ToSet(s) \cup {x}
  <1>1. /\ Append(s, x) \in Seq(S) /\ Len(Append(s, x)) = Len(s) + 1
        /\ \A i \in 1..Len(s) : Append(s, x)[i] = s[i]
        /\ Append(s, x)[Len(s) + 1] = x
    OBVIOUS
  <1>2. Len(s) \in Nat /\ DOMAIN s = 1..Len(s) /\ DOMAIN Append(s, x) = 1..(Len(s) + 1)
    BY <1>1
  <1>3. 1..(Len(s) + 1) = 1..Len(s) \cup {Len(s) + 1}
    BY <1>2
  <1> QED
    BY <1>1, <1>2, <1>3, ZenonT(30) DEF Agents!ToSet

\* The configuration of one directory is read.
LEMMA LayerAgrees ==
  ASSUME AgentsInv, AgentsShape, Agents!ReadLayer, NEW tree, AgentsAgree(tree),
         tree[<<seen.dir, "layer">>] = world.now[<<seen.dir, "layer">>]
  PROVE  AgentsAgree(tree)'
  <1> DEFINE e == seen.dir
             c == tree[<<e, "layer">>]
             layer == Agents!ConfigOf(tree, e, "layer")
  <1>1. Depth \in Nat \ {0}
    BY CommandAssumption
  <1>2. /\ seen = [user |-> seen.user, dir |-> seen.dir, file |-> seen.file,
                   root |-> seen.root, max |-> seen.max, fallbacks |-> seen.fallbacks,
                   layers |-> seen.layers, sources |-> seen.sources, bytes |-> seen.bytes]
        /\ seen.layers \in Seq(Int) /\ Agents!FirstDirectory(seen.root) <= seen.dir
        /\ seen.root \in 0..Depth
        /\ pc = "layers"
    BY DEF AgentsInv, AgentsShape, Agents!ReadLayer
  <1>3. AgentsAtLayers(tree)
    BY <1>2 DEF AgentsAgree
  <1>4. e \in 1..Depth /\ e \in Int
    BY <1>1, <1>2 DEF AgentsInv, Agents!ReadLayer
  <1>5. layer = IF c = Absent THEN Agents!NoConfig ELSE c
    BY DEF Agents!ReadLayer, Agents!File, Agents!ConfigOf
  <1>6. /\ seen' = [seen EXCEPT !.dir = @ + 1, !.max = Agents!OrElse(layer.max, @),
                                !.fallbacks = Agents!OrElse(layer.fallbacks, @),
                                !.layers = IF c = Absent THEN @ ELSE Append(@, e)]
        /\ pc' = pc
    BY <1>5, Zenon DEF Agents!ReadLayer, Agents!File
  <1> DEFINE max == Agents!OrElse(layer["max"], seen.max)
             fallbacks == Agents!OrElse(layer["fallbacks"], seen.fallbacks)
             layers == IF c = Absent THEN seen.layers ELSE Append(seen.layers, e)
  <1>7. seen' = [user |-> seen.user, dir |-> e + 1, file |-> seen.file,
                 root |-> seen.root, max |-> max, fallbacks |-> fallbacks,
                 layers |-> layers, sources |-> seen.sources, bytes |-> seen.bytes]
    <2>1. seen' = [seen EXCEPT !.dir = seen.dir + 1, !.max = max, !.fallbacks = fallbacks,
                               !.layers = layers]
      BY <1>6, Zenon
    <2> HIDE DEF max, fallbacks, layers, layer, c
    <2> QED
      BY <1>2, <2>1
  <1>8. Agents!LayersOf(tree) \subseteq Int /\ (e \in Agents!LayersOf(tree) <=> c # Absent)
    <2>1. Agents!FirstDirectory(seen.root) \in 0..(Depth + 1)
      BY <1>2, AgentsDirectories
    <2>2. Agents!LayersOf(tree) \subseteq Agents!FirstDirectory(seen.root)..Depth
      BY <1>3 DEF Agents!LayersOf, AgentsAtLayers
    <2>3. Agents!Trust(Agents!ConfigOf(tree, 0, "config"), Agents!RootOf(tree)) = "trusted"
      BY <1>3 DEF Agents!ReadLayer, AgentsAtLayers
    <2>4. e \in Agents!FirstDirectory(Agents!RootOf(tree))..Depth
      BY <1>2, <1>3, <1>4, <2>1 DEF AgentsAtLayers
    <2>5. e \in Agents!LayersOf(tree) <=> c # Absent
      BY <2>3, <2>4, Zenon DEF Agents!LayersOf
    <2> QED
      BY <1>1, <2>1, <2>2, <2>5
  <1>9. layer["max"] # {} \/ layer["fallbacks"] # {} => e \in Agents!LayersOf(tree)
    <2>1. c = Absent => layer["max"] = {} /\ layer["fallbacks"] = {}
      BY <1>5 DEF Agents!NoConfig
    <2> QED
      BY <1>8, <2>1
  <1>10. /\ max = SettingBelow(tree, "max", DefaultMaxBytes, e + 1)
         /\ fallbacks = SettingBelow(tree, "fallbacks", << >>, e + 1)
    <2>1. /\ seen.max = SettingBelow(tree, "max", DefaultMaxBytes, e)
          /\ seen.fallbacks = SettingBelow(tree, "fallbacks", << >>, e)
      BY <1>3 DEF AgentsAtLayers
    <2> HIDE DEF e, c
    <2>2. /\ SettingBelow(tree, "max", DefaultMaxBytes, e + 1)
               = Agents!OrElse(layer["max"], SettingBelow(tree, "max", DefaultMaxBytes, e))
          /\ SettingBelow(tree, "fallbacks", << >>, e + 1)
               = Agents!OrElse(layer["fallbacks"], SettingBelow(tree, "fallbacks", << >>, e))
      BY <1>4, <1>8, <1>9, SettingNext
    <2> QED
      BY <2>1, <2>2
  <1>11. Agents!ToSet(layers) = {d \in Agents!LayersOf(tree) : d < e + 1}
    <2>1. \A d \in Agents!LayersOf(tree) : d < e + 1 <=> d < e \/ d = e
      BY <1>4, <1>8
    <2>2. Agents!ToSet(seen.layers) = {d \in Agents!LayersOf(tree) : d < e}
      BY <1>3 DEF AgentsAtLayers
    <2>3. Agents!ToSet(Append(seen.layers, e)) = Agents!ToSet(seen.layers) \cup {e}
      BY <1>2, <1>4, ToSetAppend
    <2>4. {d \in Agents!LayersOf(tree) : d < e + 1}
            = {d \in Agents!LayersOf(tree) : d < e} \cup (IF c = Absent THEN {} ELSE {e})
      BY <1>8, <2>1
    <2> QED
      BY <2>2, <2>3, <2>4
  <1>12. AgentsAtLayers(tree)'
    <2> HIDE DEF max, fallbacks, layers, layer, c
    <2> QED
      BY <1>3, <1>7, <1>10, <1>11 DEF AgentsAtLayers
  <1> QED
    BY <1>2, <1>6, <1>12 DEF AgentsAgree

\* The layers are read, or do not count.
LEMMA LayersAgree ==
  ASSUME AgentsInv, AgentsShape, Agents!EndLayers, NEW tree, Agents!IsTree(tree),
         AgentsAgree(tree)
  PROVE  AgentsAgree(tree)'
  <1>1. Depth \in Nat \ {0}
    BY CommandAssumption
  <1>2. /\ pc = "layers" /\ pc' = "files" /\ seen' = [seen EXCEPT !.dir = 0]
        /\ seen = [user |-> seen.user, dir |-> seen.dir, file |-> seen.file,
                   root |-> seen.root, max |-> seen.max, fallbacks |-> seen.fallbacks,
                   layers |-> seen.layers, sources |-> seen.sources, bytes |-> seen.bytes]
        /\ seen.root \in 0..Depth /\ seen.sources = << >> /\ seen.bytes = 0
        /\ seen.fallbacks \in Seq(FallbackNames) /\ seen.dir \in 0..(Depth + 1)
    BY DEF AgentsInv, AgentsShape, Agents!EndLayers
  <1>3. AgentsAtLayers(tree)
    BY <1>2 DEF AgentsAgree
  <1>4. \A d \in Agents!LayersOf(tree) : d < seen.dir
    <2>1. CASE Agents!Trust(seen.user, seen.root) # "trusted"
      BY <1>3, <2>1 DEF Agents!LayersOf, AgentsAtLayers
    <2>2. CASE seen.dir > Depth
      <3>1. Agents!FirstDirectory(seen.root) \in 0..(Depth + 1)
        BY <1>2, AgentsDirectories
      <3>2. Agents!LayersOf(tree) \subseteq Agents!FirstDirectory(seen.root)..Depth
        BY <1>3 DEF Agents!LayersOf, AgentsAtLayers
      <3> QED
        BY <1>1, <1>2, <2>2, <3>1, <3>2
    <2> QED
      BY <2>1, <2>2 DEF Agents!EndLayers
  <1>5. Agents!ToSet(seen.layers) = Agents!LayersOf(tree)
    BY <1>3, <1>4 DEF AgentsAtLayers
  <1>6. /\ SettingBelow(tree, "max", DefaultMaxBytes, seen.dir) = Agents!MaxOf(tree)
        /\ SettingBelow(tree, "fallbacks", << >>, seen.dir) = Agents!FallbacksOf(tree)
    <2>1. ASSUME NEW field, NEW default
          PROVE  SettingBelow(tree, field, default, seen.dir) = Agents!SettingOf(tree, field, default)
      <3>1. {d \in Agents!LayersOf(tree) :
               d < seen.dir /\ Agents!ConfigOf(tree, d, "layer")[field] # {}}
              = {d \in Agents!LayersOf(tree) : Agents!ConfigOf(tree, d, "layer")[field] # {}}
        BY <1>4, Zenon
      <3> QED
        BY <3>1, Zenon DEF SettingBelow, Agents!SettingOf
    <2> QED
      BY <2>1, Zenon DEF Agents!MaxOf, Agents!FallbacksOf
  <1>7. /\ seen.root = Agents!RootOf(tree)
        /\ seen.max = Agents!MaxOf(tree) /\ seen.fallbacks = Agents!FallbacksOf(tree)
    BY <1>3, <1>6 DEF AgentsAtLayers
  <1>8. Settled(tree)
    BY <1>2, <1>7 DEF Settled
  <1>9. seen' = [user |-> seen.user, dir |-> 0, file |-> seen.file,
                 root |-> seen.root, max |-> seen.max, fallbacks |-> seen.fallbacks,
                 layers |-> seen.layers, sources |-> << >>, bytes |-> 0]
    BY <1>2
  <1>10. AgentsSources(tree)'
    <2>1. {d \in Agents!WithFile(tree) : d < 0} = {}
      <3>1. Agents!WithFile(tree) \in SUBSET (0..Depth)
        BY <1>8, WithFileIs
      <3> QED
        BY <1>1, <3>1
    <2>2. Cardinality({d \in Agents!WithFile(tree) : d < 0}) = 0
      BY <2>1, FS_EmptySet
    <2>3. Agents!BytesOf(tree)[0] = 0 /\ Cardinality(Agents!WithFile(tree)) \in Nat
      BY <1>8, BytesOfIs, WithFileIs
    <2>4. Len(seen'.sources) = 0 /\ seen'.bytes = 0 /\ seen'.dir = 0
      BY <1>9
    <2>5. \A i : i \notin 1..0
      OBVIOUS
    <2> QED
      BY <2>2, <2>3, <2>4, <2>5 DEF AgentsSources
  <1>11. AgentsAtFiles(tree)'
    BY <1>5, <1>7, <1>9, <1>10 DEF AgentsAtFiles
  <1> QED
    BY <1>2, <1>11 DEF AgentsAgree

\* The first candidate that is found is the one that is chosen.
LEMMA ChosenFirst ==
  ASSUME NEW tree, NEW d, NEW names, names = Agents!Candidates(d, Agents!FallbacksOf(tree)),
         DOMAIN names \subseteq Nat, NEW j \in DOMAIN names,
         tree[<<d, names[j]>>] \notin {Absent, 0},
         \A i \in DOMAIN names :
           i < j => names[i] = names[j] \/ tree[<<d, names[i]>>] \in {Absent, 0}
  PROVE  Agents!FoundIn(tree, d) # {} /\ Agents!ChosenIn(tree, d) = <<d, names[j]>>
  <1> DEFINE found == Agents!FoundIn(tree, d)
             i == Agents!Min(found)
  <1>1. found = {x \in DOMAIN names : tree[<<d, names[x]>>] \notin {Absent, 0}}
    BY DEF Agents!FoundIn
  <1>2. Agents!ChosenIn(tree, d) = <<d, names[i]>>
    BY DEF Agents!ChosenIn
  <1> HIDE DEF found
  <1>3. j \in found /\ found \in SUBSET Nat /\ found \in SUBSET Int
    BY <1>1
  <1>4. PICK m \in found : \A x \in found : m <= x
    BY <1>3, LeastNumber
  <1>5. i = m
    BY <1>3, <1>4, MinIs
  <1> HIDE DEF i
  <1>6. i \in DOMAIN names /\ tree[<<d, names[i]>>] \notin {Absent, 0} /\ i <= j /\ i \in Nat
    BY <1>1, <1>3, <1>4, <1>5
  <1>7. names[i] = names[j]
    <2>1. i < j \/ i = j
      BY <1>3, <1>6
    <2> QED
      BY <1>6, <2>1
  <1> QED
    BY <1>2, <1>3, <1>7 DEF found

\* Between a directory and the next one there is none.
LEMMA NextIs ==
  ASSUME NEW tree, Settled(tree), seen.root = Agents!RootOf(tree), NEW d \in 0..Depth,
         d = 0 \/ Agents!FirstDirectory(seen.root) <= d
  PROVE  \A x \in Agents!WithFile(tree) : x < Agents!NextDirectory(d) <=> x <= d
  <1> DEFINE first == Agents!FirstDirectory(seen.root)
             next == Agents!NextDirectory(d)
  <1>1. Depth \in Nat /\ first \in Int /\ 1 <= first
    BY AgentsDirectories, CommandAssumption DEF Settled
  <1>2. next = IF d = 0 THEN first ELSE d + 1
    BY DEF Agents!NextDirectory
  <1>3. \A x \in Agents!WithFile(tree) : x = 0 \/ x \in first..Depth
    BY DEF Agents!WithFile
  <1> HIDE DEF first, next
  <1>4. d = 0 \/ first <= d
    BY DEF first
  <1>5. \A x \in Agents!WithFile(tree) : x < next <=> x <= d
    BY <1>1, <1>2, <1>3, <1>4
  <1> QED
    BY <1>5 DEF first, next

\* A candidate is examined.
LEMMA ExamineAgrees ==
  ASSUME AgentsInv, AgentsShape, Agents!Examine, NEW tree, Agents!IsTree(tree),
         AgentsAgree(tree), seen'.file = 1 \/ seen'.dir # seen.dir,
         tree[<<seen.dir, AgentsNames[seen.file]>>]
           = world.now[<<seen.dir, AgentsNames[seen.file]>>],
         \A i \in DOMAIN AgentsNames :
           i < seen.file => \/ AgentsNames[i] = AgentsNames[seen.file]
                            \/ tree[<<seen.dir, AgentsNames[i]>>] \in {Absent, 0}
  PROVE  AgentsAgree(tree)'
  <1> DEFINE d == seen.dir
             names == AgentsNames
             j == seen.file
             file == <<d, names[j]>>
             size == tree[file]
             W == Agents!WithFile(tree)
             all == Agents!AllOf(tree)
             k == Len(seen.sources)
             next == Agents!NextDirectory(d)
             separator == IF seen.sources = << >> THEN 0 ELSE SeparatorBytes
             bytes == seen.bytes + size + separator
             sources == Append(seen.sources, file)
  <1>1. Depth \in Nat \ {0}
    BY CommandAssumption
  <1>2. /\ seen = [user |-> seen.user, dir |-> seen.dir, file |-> seen.file,
                   root |-> seen.root, max |-> seen.max, fallbacks |-> seen.fallbacks,
                   layers |-> seen.layers, sources |-> seen.sources, bytes |-> seen.bytes]
        /\ pc = "files" /\ d \in 0..Depth /\ seen.root \in 0..Depth
        /\ seen.fallbacks \in Seq(FallbackNames) /\ seen.sources \in Seq(Agents!Files)
        /\ j \in DOMAIN names /\ (d = 0 \/ Agents!FirstDirectory(seen.root) <= d)
    BY <1>1 DEF AgentsInv, AgentsShape, Agents!Examine
  <1>3. AgentsAtFiles(tree)
    BY <1>2 DEF AgentsAgree
  <1>4. Settled(tree)
    BY <1>2, <1>3 DEF Settled, AgentsAtFiles
  <1>5. /\ seen.root = Agents!RootOf(tree)
        /\ Agents!ToSet(seen.layers) = Agents!LayersOf(tree)
        /\ seen.max = Agents!MaxOf(tree) /\ seen.fallbacks = Agents!FallbacksOf(tree)
    BY <1>3 DEF AgentsAtFiles
  <1>6. /\ k \in Nat /\ k <= Cardinality(W)
        /\ \A i \in 1..k : seen.sources[i] = all[i] /\ tree[seen.sources[i]] # Denied
        /\ seen.bytes = Agents!BytesOf(tree)[k]
        /\ k = Cardinality({x \in W : x < d})
    BY <1>1, <1>2, <1>3 DEF AgentsAtFiles, AgentsSources
  <1>7. /\ names = Agents!Candidates(d, Agents!FallbacksOf(tree))
        /\ DOMAIN names \subseteq Nat /\ 0 \notin DOMAIN names
    <2>1. names \in Seq(Agents!InstructionNames)
      BY <1>2, CandidateNames DEF AgentsNames
    <2>2. DOMAIN names \subseteq Nat /\ 0 \notin DOMAIN names
      BY <2>1
    <2> QED
      BY <1>5, <2>2 DEF AgentsNames
  <1>8. W \in SUBSET Int /\ IsFiniteSet(W) /\ Cardinality(W) \in Nat
    BY <1>4, WithFileIs
  <1>9. \A x \in W : x < next <=> x <= d
    BY <1>2, <1>4, <1>5, NextIs
  <1>10. size # Denied /\ pc' = pc
    BY Zenon DEF Agents!Examine, Agents!File, AgentsNames
  <1>11. \/ size \notin {Absent, 0} /\ bytes > seen.max /\ seen' = [seen EXCEPT !.dir = Depth + 1]
         \/ /\ size \notin {Absent, 0} /\ bytes <= seen.max
            /\ seen' = [seen EXCEPT !.dir = next, !.file = 1, !.bytes = bytes, !.sources = sources]
         \/ /\ size \in {Absent, 0} /\ ~(j < Len(names))
            /\ seen' = [seen EXCEPT !.dir = next, !.file = 1]
    <2>1. \/ /\ size \notin {Absent, 0} /\ bytes > seen.max
             /\ seen' = [seen EXCEPT !.dir = Depth + 1]
          \/ /\ size \notin {Absent, 0} /\ bytes <= seen.max
             /\ seen' = [seen EXCEPT !.dir = next, !.file = 1, !.bytes = bytes,
                                     !.sources = sources]
          \/ seen' = [seen EXCEPT !.file = @ + 1]
          \/ /\ size \in {Absent, 0} /\ ~(j < Len(names))
             /\ seen' = [seen EXCEPT !.dir = next, !.file = 1]
      BY Zenon DEF Agents!Examine, Agents!File, AgentsNames
    <2>2. CASE seen' = [seen EXCEPT !.file = @ + 1]
      <3>1. seen'.file = j + 1 /\ seen'.dir = seen.dir
        BY <1>2, <2>2
      <3>2. j + 1 # 1
        BY <1>2, <1>7
      <3> QED
        BY <3>1, <3>2
    <2> HIDE DEF size, bytes, sources, next, names
    <2> QED
      BY <2>1, <2>2
  <1>12. \A i \in DOMAIN names :
           i < j => names[i] = names[j] \/ tree[<<d, names[i]>>] \in {Absent, 0}
    OBVIOUS
  <1>13. size \notin {Absent, 0} =>
           /\ d \in W /\ k + 1 \in 1..Cardinality(W) /\ all[k + 1] = file
           /\ Agents!BytesOf(tree)[k + 1] = bytes
           /\ Cardinality({x \in W : x < next}) = k + 1
    <2> SUFFICES ASSUME size \notin {Absent, 0}
                 PROVE  /\ d \in W /\ k + 1 \in 1..Cardinality(W) /\ all[k + 1] = file
                        /\ Agents!BytesOf(tree)[k + 1] = bytes
                        /\ Cardinality({x \in W : x < next}) = k + 1
      OBVIOUS
    <2>1. Agents!FoundIn(tree, d) # {} /\ Agents!ChosenIn(tree, d) = file
      <3> HIDE DEF d, names, j
      <3> QED
        BY <1>2, <1>7, <1>12, ChosenFirst
    <2>2. d \in W
      <3>1. d \in {0} \cup (Agents!FirstDirectory(Agents!RootOf(tree))..Depth)
        BY <1>2, <1>5, AgentsDirectories
      <3> QED
        BY <2>1, <3>1 DEF Agents!WithFile
    <2>3. all[k + 1] = file
      <3>1. all[Cardinality({x \in W : x < d}) + 1] = Agents!ChosenIn(tree, d)
        BY <1>4, <2>2, AllOfIs
      <3> HIDE DEF all, k, d
      <3> QED
        BY <1>6, <2>1, <3>1
    <2>4. k + 1 <= Cardinality(W) /\ Cardinality({x \in W : x <= d}) = k + 1
      <3> HIDE DEF W, d, k
      <3> QED
        BY <1>6, <1>8, <2>2, CountUpTo
    <2>5. {x \in W : x < next} = {x \in W : x <= d}
      BY <1>9
    <2>6. k + 1 \in 1..Cardinality(W) /\ (k + 1) - 1 = k
      <3> HIDE DEF W, k
      <3> QED
        BY <1>6, <1>8, <2>4
    <2>7. Agents!BytesOf(tree)[k + 1]
            = Agents!BytesOf(tree)[k] + Agents!Size(tree, file)
                + (IF k + 1 = 1 THEN 0 ELSE SeparatorBytes)
      <3> HIDE DEF k, file
      <3> QED
        BY <1>4, <2>3, <2>6, BytesOfIs
    <2>8. Agents!Size(tree, file) = size
      BY <1>10 DEF Agents!Size
    <2>9. (seen.sources = << >> <=> k + 1 = 1)
      BY <1>2
    <2>10. Agents!BytesOf(tree)[k + 1] = bytes
      <3> HIDE DEF k, file, size
      <3> QED
        BY <1>6, <2>7, <2>8, <2>9
    <2> QED
      BY <2>2, <2>3, <2>4, <2>5, <2>6, <2>10
  <1>14. ASSUME AgentsSources(tree)', seen'.root = seen.root, seen'.max = seen.max,
                seen'.fallbacks = seen.fallbacks, seen'.layers = seen.layers
         PROVE  AgentsAgree(tree)'
    <2>1. AgentsAtFiles(tree)'
      BY <1>5, <1>14 DEF AgentsAtFiles
    <2> QED
      BY <1>2, <1>10, <2>1 DEF AgentsAgree
  <1> HIDE DEF names, size, bytes, W, all, next, separator
  <1>15. CASE size \notin {Absent, 0} /\ bytes > seen.max /\ seen' = [seen EXCEPT !.dir = Depth + 1]
    <2>1. seen' = [user |-> seen.user, dir |-> Depth + 1, file |-> seen.file,
                   root |-> seen.root, max |-> seen.max, fallbacks |-> seen.fallbacks,
                   layers |-> seen.layers, sources |-> seen.sources, bytes |-> seen.bytes]
      BY <1>2, <1>15
    <2>2. k < Cardinality(W) /\ Agents!BytesOf(tree)[k + 1] > seen.max /\ Depth + 1 > Depth
      BY <1>1, <1>6, <1>8, <1>13, <1>15
    <2>3. AgentsSources(tree)'
      BY <1>6, <2>1, <2>2 DEF AgentsSources, W, all
    <2> QED
      BY <1>14, <2>1, <2>3
  <1>16. CASE /\ size \notin {Absent, 0} /\ bytes <= seen.max
              /\ seen' = [seen EXCEPT !.dir = next, !.file = 1, !.bytes = bytes,
                                      !.sources = sources]
    <2> HIDE DEF file
    <2>1. file \in Agents!Files
      <3>1. names \in Seq(Agents!InstructionNames)
        BY <1>2, CandidateNames DEF AgentsNames, names
      <3> QED
        BY <1>2, <3>1, InstructionFiles DEF file
    <2>2. /\ Len(sources) = k + 1 /\ \A i \in 1..k : sources[i] = seen.sources[i]
          /\ sources[k + 1] = file
      BY <1>2, <2>1
    <2> HIDE DEF sources, k
    <2>3. seen' = [user |-> seen.user, dir |-> next, file |-> 1,
                   root |-> seen.root, max |-> seen.max, fallbacks |-> seen.fallbacks,
                   layers |-> seen.layers, sources |-> sources, bytes |-> bytes]
      BY <1>2, <1>16
    <2>4. \A i \in 1..(k + 1) : i \in 1..k \/ i = k + 1
      BY <1>6
    <2>5. \A i \in 1..(k + 1) : sources[i] = all[i] /\ tree[sources[i]] # Denied
      BY <1>6, <1>10, <1>13, <1>16, <2>2, <2>4 DEF size
    <2>6. k + 1 <= Cardinality(W) /\ bytes = Agents!BytesOf(tree)[k + 1]
          /\ k + 1 = Cardinality({x \in W : x < next})
      BY <1>6, <1>8, <1>13, <1>16
    <2>7. AgentsSources(tree)'
      <3>1. Len(seen'.sources) = k + 1 /\ seen'.bytes = bytes /\ seen'.dir = next
            /\ seen'.sources = sources
        BY <2>2, <2>3
      <3> QED
        BY <2>5, <2>6, <3>1 DEF AgentsSources, W, all
    <2> QED
      BY <1>14, <2>3, <2>7
  <1>17. CASE /\ size \in {Absent, 0} /\ ~(j < Len(names))
              /\ seen' = [seen EXCEPT !.dir = next, !.file = 1]
    <2>1. seen' = [user |-> seen.user, dir |-> next, file |-> 1,
                   root |-> seen.root, max |-> seen.max, fallbacks |-> seen.fallbacks,
                   layers |-> seen.layers, sources |-> seen.sources, bytes |-> seen.bytes]
      BY <1>2, <1>17
    <2>2. d \notin W
      <3>1. \A i \in DOMAIN names : i < j \/ i = j
        <4>1. names \in Seq(Agents!InstructionNames)
          BY <1>2, CandidateNames DEF AgentsNames, names
        <4> QED
          BY <1>2, <1>17, <4>1
      <3>2. \A i \in DOMAIN names : tree[<<d, names[i]>>] \in {Absent, 0}
        BY <1>12, <1>17, <3>1 DEF size
      <3>3. Agents!FoundIn(tree, d) = {}
        BY <1>7, <3>2, Zenon DEF Agents!FoundIn
      <3> QED
        BY <3>3 DEF W, Agents!WithFile
    <2>3. {x \in W : x < next} = {x \in W : x < d}
      <3>1. \A x \in W : x <= d <=> x < d
        BY <1>2, <1>8, <2>2
      <3> QED
        BY <1>9, <3>1
    <2>4. k = Cardinality({x \in W : x < next})
      BY <1>6, <2>3
    <2>5. AgentsSources(tree)'
      BY <1>6, <2>1, <2>4 DEF AgentsSources, W, all
    <2> QED
      BY <1>14, <2>1, <2>5
  <1> QED
    BY <1>11, <1>15, <1>16, <1>17

\* A candidate that is not found, while there are more, tells nothing yet.
LEMMA TriedAgrees ==
  ASSUME AgentsInv, pc = "files", seen.dir <= Depth, pc' = pc,
         seen' = [seen EXCEPT !.file = @ + 1], NEW tree, AgentsAgree(tree)
  PROVE  AgentsAgree(tree)'
  <1>1. seen = [user |-> seen.user, dir |-> seen.dir, file |-> seen.file,
                root |-> seen.root, max |-> seen.max, fallbacks |-> seen.fallbacks,
                layers |-> seen.layers, sources |-> seen.sources, bytes |-> seen.bytes]
    BY DEF AgentsInv
  <1>2. seen' = [user |-> seen.user, dir |-> seen.dir, file |-> seen.file + 1,
                 root |-> seen.root, max |-> seen.max, fallbacks |-> seen.fallbacks,
                 layers |-> seen.layers, sources |-> seen.sources, bytes |-> seen.bytes]
    BY <1>1
  <1>3. AgentsAtFiles(tree)
    BY DEF AgentsAgree
  <1>4. AgentsSources(tree)'
    BY <1>2, <1>3 DEF AgentsAtFiles, AgentsSources
  <1>5. AgentsAtFiles(tree)'
    BY <1>2, <1>3, <1>4 DEF AgentsAtFiles
  <1> QED
    BY <1>5 DEF AgentsAgree

\* Fallback names are names.
LEMMA FallbacksAreNames ==
  ASSUME NEW tree, Agents!IsTree(tree), NEW l \in Agents!Files, l[2] \in {"config", "layer"},
         NEW default \in Seq(FallbackNames), NEW config, tree[l] # Denied,
         config = IF tree[l] = Absent THEN Agents!NoConfig ELSE tree[l]
  PROVE  Agents!OrElse(config.fallbacks, default) \in Seq(FallbackNames)
  <1> DEFINE values == config.fallbacks
  <1>1. values \subseteq Seq(FallbackNames)
    <2>1. CASE tree[l] = Absent
      BY <2>1 DEF Agents!NoConfig
    <2>2. CASE tree[l] # Absent
      BY <2>2, Zenon DEF Agents!IsTree, Agents!IsContent
    <2> QED
      BY <2>1, <2>2
  <1> HIDE DEF values
  <1>2. IF values = {} THEN default \in Seq(FallbackNames)
        ELSE (CHOOSE v \in values : TRUE) \in Seq(FallbackNames)
    BY <1>1
  <1> QED
    BY <1>2 DEF Agents!OrElse, values

LEMMA CandidatesLength ==
  ASSUME NEW d, NEW fallbacks \in Seq(FallbackNames)
  PROVE  /\ DOMAIN Agents!Candidates(d, fallbacks) = 1..Len(Agents!Candidates(d, fallbacks))
         /\ Len(Agents!Candidates(d, fallbacks)) \in Nat \ {0, 1}
  <1> DEFINE more == IF d = 0 THEN << >> ELSE fallbacks
  <1>1. Agents!Candidates(d, fallbacks) = <<"override", "default">> \o more
    BY DEF Agents!Candidates
  <1>2. more \in Seq(FallbackNames)
    OBVIOUS
  <1> HIDE DEF more
  <1>3. more \in Seq(STRING \cup FallbackNames)
    BY <1>2
  <1>4. Len(<<"override", "default">> \o more) = 2 + Len(more) /\ Len(more) \in Nat
    BY <1>3
  <1>5. Agents!Candidates(d, fallbacks) \in Seq(Agents!InstructionNames)
    BY CandidateNames
  <1> QED
    BY <1>1, <1>4, <1>5

LEMMA AgentsShapeBegins == ASSUME Agents!Init PROVE AgentsShape
  <1>1. /\ pc = "config" /\ seen = [user |-> Agents!NoConfig, dir |-> Depth, file |-> 1, root |-> 0,
                max |-> DefaultMaxBytes, fallbacks |-> << >>, layers |-> << >>,
                sources |-> << >>, bytes |-> 0]
    BY DEF Agents!Init, Agents!NothingSeen
  <1> QED
    BY <1>1 DEF AgentsShape

LEMMA AgentsShapeKept == ASSUME AgentsInv, AgentsShape, Agents!Next PROVE AgentsShape'
  <1>1. /\ seen = [user |-> seen.user, dir |-> seen.dir, file |-> seen.file,
                   root |-> seen.root, max |-> seen.max, fallbacks |-> seen.fallbacks,
                   layers |-> seen.layers, sources |-> seen.sources, bytes |-> seen.bytes]
        /\ Agents!IsTree(world.now)
        /\ seen.fallbacks \in Seq(FallbackNames)
        /\ seen.layers \in Seq(Int) /\ seen.sources \in Seq(Agents!Files)
        /\ seen.dir \in 0..(Depth + 1) /\ seen.root \in 0..Depth
    BY DEF AgentsInv, AgentsShape
  <1>2. Depth \in Nat \ {0}
    BY CommandAssumption
  <1>3. CASE Agents!ReadConfig
    <2>1. PICK user :
            /\ user = IF world.now[<<0, "config">>] = Absent THEN Agents!NoConfig
                      ELSE world.now[<<0, "config">>]
            /\ seen' = [seen EXCEPT !.user = user,
                                    !.max = Agents!OrElse(user.max, DefaultMaxBytes),
                                    !.fallbacks = Agents!OrElse(user.fallbacks, << >>),
                                    !.root = IF user.markers THEN 0 ELSE Depth]
            /\ pc' = IF user.markers THEN "root" ELSE "layers"
      BY <1>3, Zenon DEF Agents!ReadConfig, Agents!File
    <2>2. /\ pc = "config" /\ world.now[<<0, "config">>] # Denied
          /\ seen.layers = << >> /\ seen.sources = << >> /\ seen.file = 1 /\ seen.dir = Depth
      BY <1>3 DEF Agents!ReadConfig, Agents!File, AgentsShape
    <2> DEFINE max == Agents!OrElse(user.max, DefaultMaxBytes)
               fallbacks == Agents!OrElse(user.fallbacks, << >>)
               root == IF user.markers THEN 0 ELSE Depth
    <2>3. fallbacks \in Seq(FallbackNames)
      <3>1. <<0, "config">> \in Agents!Files
        BY Zenon DEF Agents!Files
      <3>2. << >> \in Seq(FallbackNames) /\ <<0, "config">>[2] \in {"config", "layer"}
        OBVIOUS
      <3> QED
        BY <1>1, <2>1, <2>2, <3>1, <3>2, FallbacksAreNames
    <2>4. root = Depth => Agents!FirstDirectory(root) = Depth
      BY <1>2 DEF Agents!FirstDirectory
    <2>5. seen' = [seen EXCEPT !.user = user, !.max = max, !.fallbacks = fallbacks,
                               !.root = root]
      BY <2>1
    <2>6. pc' \in {"root", "layers"} /\ (pc' = "layers" => root = Depth)
      BY <2>1
    <2> HIDE DEF max, fallbacks, root
    <2>7. seen' = [user |-> user, dir |-> Depth, file |-> 1,
                   root |-> root, max |-> max, fallbacks |-> fallbacks,
                   layers |-> << >>, sources |-> << >>, bytes |-> seen.bytes]
      BY <1>1, <2>2, <2>5
    <2>8. << >> \in Seq(Int) /\ << >> \in Seq(Agents!Files) /\ Depth <= Depth
      BY <1>2
    <2> QED
      BY <2>3, <2>4, <2>6, <2>7, <2>8 DEF AgentsShape
  <1>4. CASE Agents!FindRoot
    <2>1. PICK r, d :
            /\ seen' = [seen EXCEPT !.root = r, !.dir = d]
            /\ pc' \in {"root", "layers"} /\ (pc' = "layers" => d = Agents!FirstDirectory(r))
            /\ (pc' = "layers" => r \in 0..Depth)
      <3>1. \/ seen' = [seen EXCEPT !.dir = seen.dir - 1] /\ pc' = pc
            \/ \E r \in {0, seen.dir} :
                 /\ seen' = [seen EXCEPT !.root = r, !.dir = Agents!FirstDirectory(r)]
                 /\ pc' = "layers"
        BY <1>4, Zenon DEF Agents!FindRoot
      <3>2. pc = "root" /\ seen.dir <= Depth
        BY <1>4 DEF Agents!FindRoot, AgentsInv
      <3>3. CASE seen' = [seen EXCEPT !.dir = seen.dir - 1] /\ pc' = pc
        <4>1. seen' = [seen EXCEPT !.root = seen.root, !.dir = seen.dir - 1]
          BY <1>1, <3>3
        <4> QED
          BY <3>2, <3>3, <4>1
      <3>4. ASSUME NEW r \in {0, seen.dir}, pc' = "layers",
                   seen' = [seen EXCEPT !.root = r, !.dir = Agents!FirstDirectory(r)]
            PROVE  r \in 0..Depth
        BY <1>1, <1>2, <3>2, <3>4
      <3> QED
        BY <3>1, <3>3, <3>4
    <2>2. seen.layers = << >> /\ seen.sources = << >> /\ seen.file = 1
      BY <1>4 DEF Agents!FindRoot, AgentsShape
    <2>3. seen' = [user |-> seen.user, dir |-> d, file |-> 1,
                   root |-> r, max |-> seen.max, fallbacks |-> seen.fallbacks,
                   layers |-> << >>, sources |-> << >>, bytes |-> seen.bytes]
      BY <1>1, <2>1, <2>2
    <2>4. pc' = "layers" => Agents!FirstDirectory(r) \in Int
      BY <1>2, <2>1, AgentsDirectories
    <2>5. pc' = "layers" => Agents!FirstDirectory(r) <= d
      <3> DEFINE f == Agents!FirstDirectory(r)
      <3>1. pc' = "layers" => f \in Int /\ d = f
        BY <2>1, <2>4
      <3> HIDE DEF f
      <3>2. pc' = "layers" => f <= d
        BY <3>1
      <3> QED
        BY <3>2 DEF f
    <2>6. << >> \in Seq(Int) /\ << >> \in Seq(Agents!Files)
      OBVIOUS
    <2>7. pc' \in {"root", "layers"}
      BY <2>1
    <2> QED
      BY <1>1, <2>3, <2>5, <2>6, <2>7 DEF AgentsShape
  <1>5. CASE Agents!ReadLayer
    <2>1. PICK layer, layers :
            /\ layer = IF world.now[<<seen.dir, "layer">>] = Absent
                       THEN Agents!NoConfig ELSE world.now[<<seen.dir, "layer">>]
            /\ layers \in {seen.layers, Append(seen.layers, seen.dir)}
            /\ seen' = [seen EXCEPT !.dir = @ + 1, !.max = Agents!OrElse(layer.max, @),
                                    !.fallbacks = Agents!OrElse(layer.fallbacks, @),
                                    !.layers = layers]
      <3> DEFINE c == world.now[<<seen.dir, "layer">>]
      <3>1. PICK layer :
              /\ layer = IF c = Absent THEN Agents!NoConfig ELSE c
              /\ seen' = [seen EXCEPT !.dir = @ + 1, !.max = Agents!OrElse(layer.max, @),
                            !.fallbacks = Agents!OrElse(layer.fallbacks, @),
                            !.layers = IF c = Absent THEN seen.layers
                                       ELSE Append(seen.layers, seen.dir)]
        BY <1>5, Zenon DEF Agents!ReadLayer, Agents!File
      <3> QED
        BY <3>1, Zenon
    <2>2. /\ pc = "layers" /\ pc' = pc /\ world.now[<<seen.dir, "layer">>] # Denied
          /\ seen.dir <= Depth
      BY <1>5, Zenon DEF Agents!ReadLayer, Agents!File
    <2>3. seen.sources = << >> /\ seen.file = 1 /\ Agents!FirstDirectory(seen.root) <= seen.dir
      BY <2>2 DEF AgentsShape
    <2>4. Agents!FirstDirectory(seen.root) \in 1..Depth
      BY <1>1, <1>2, AgentsDirectories
    <2> DEFINE max == Agents!OrElse(layer.max, seen.max)
               fallbacks == Agents!OrElse(layer.fallbacks, seen.fallbacks)
               d == seen.dir + 1
    <2>5. fallbacks \in Seq(FallbackNames)
      <3>1. seen.dir \in 1..Depth
        BY <1>1, <1>2, <2>2, <2>3, <2>4
      <3>2. <<seen.dir, "layer">> \in Agents!Files
        BY <3>1, Zenon DEF Agents!Files
      <3>3. <<seen.dir, "layer">>[2] \in {"config", "layer"}
        OBVIOUS
      <3> QED
        BY <1>1, <2>1, <2>2, <3>2, <3>3, FallbacksAreNames
    <2>6. Agents!FirstDirectory(seen.root) <= d
      BY <1>1, <2>3, <2>4
    <2>7. layers \in Seq(Int)
      <3>1. seen.dir \in Int /\ seen.layers \in Seq(Int)
        BY <1>1
      <3>2. Append(seen.layers, seen.dir) \in Seq(Int)
        BY <3>1, AppendProperties
      <3> QED
        BY <2>1, <3>1, <3>2
    <2>8. seen' = [seen EXCEPT !.dir = d, !.max = max, !.fallbacks = fallbacks,
                               !.layers = layers]
      BY <2>1, Zenon
    <2> HIDE DEF max, fallbacks, d
    <2>9. seen' = [user |-> seen.user, dir |-> d, file |-> 1,
                   root |-> seen.root, max |-> max, fallbacks |-> fallbacks,
                   layers |-> layers, sources |-> << >>, bytes |-> seen.bytes]
      BY <1>1, <2>3, <2>8
    <2>10. << >> \in Seq(Agents!Files)
      OBVIOUS
    <2> QED
      BY <2>2, <2>5, <2>6, <2>7, <2>9, <2>10 DEF AgentsShape
  <1>6. CASE Agents!EndLayers
    <2>1. pc = "layers" /\ pc' = "files" /\ seen' = [seen EXCEPT !.dir = 0]
          /\ seen.file = 1
      BY <1>6 DEF Agents!EndLayers, AgentsShape
    <2>2. seen' = [user |-> seen.user, dir |-> 0, file |-> 1,
                   root |-> seen.root, max |-> seen.max, fallbacks |-> seen.fallbacks,
                   layers |-> seen.layers, sources |-> seen.sources, bytes |-> seen.bytes]
      BY <1>1, <2>1
    <2>3. 1 \in DOMAIN Agents!Candidates(0, seen.fallbacks)
      BY <1>1, CandidatesLength
    <2>4. AgentsNames' = Agents!Candidates(0, seen.fallbacks)
      BY <2>2 DEF AgentsNames
    <2> QED
      BY <1>1, <2>1, <2>2, <2>3, <2>4 DEF AgentsShape
  <1>7. CASE Agents!Examine
    <2> DEFINE next == Agents!NextDirectory(seen.dir)
               names == Agents!Candidates(seen.dir, seen.fallbacks)
               first == Agents!FirstDirectory(seen.root)
    <2>1. pc = "files" /\ pc' = pc /\ seen.dir \in 0..Depth
      <3>1. pc = "files" /\ pc' = pc /\ seen.dir <= Depth
        BY <1>7, Zenon DEF Agents!Examine
      <3> QED
        BY <1>1, <1>2, <3>1
    <2>2. /\ seen.dir = 0 \/ first <= seen.dir
          /\ seen.file \in DOMAIN names
      BY <1>2, <2>1 DEF AgentsShape, AgentsNames
    <2>3. names \in Seq(Agents!InstructionNames)
      BY <1>1, CandidateNames
    <2>4. names[seen.file] \in Agents!InstructionNames
      BY <2>2, <2>3
    <2>5. <<seen.dir, names[seen.file]>> \in Agents!Files
      BY <2>1, <2>4, InstructionFiles
    <2>6. \E d, j, sources, bytes :
            /\ seen' = [seen EXCEPT !.dir = d, !.file = j, !.bytes = bytes, !.sources = sources]
            /\ sources \in {seen.sources, Append(seen.sources, <<seen.dir, names[seen.file]>>)}
            /\ \/ d = Depth + 1
               \/ d = next /\ j = 1
               \/ d = seen.dir /\ j = seen.file + 1 /\ seen.file < Len(names)
      <3> DEFINE size == Agents!File(seen.dir, names[seen.file])
                 bytes == seen.bytes + size
                            + (IF seen.sources = << >> THEN 0 ELSE SeparatorBytes)
                 sources == Append(seen.sources, <<seen.dir, names[seen.file]>>)
      <3>1. \/ seen' = [seen EXCEPT !.dir = Depth + 1]
            \/ seen' = [seen EXCEPT !.dir = next, !.file = 1, !.bytes = bytes,
                                    !.sources = sources]
            \/ seen.file < Len(names) /\ seen' = [seen EXCEPT !.file = seen.file + 1]
            \/ seen' = [seen EXCEPT !.dir = next, !.file = 1]
        BY <1>7, Zenon DEF Agents!Examine
      <3> HIDE DEF next, names, bytes
      <3>2. CASE seen' = [seen EXCEPT !.dir = Depth + 1]
        <4>1. seen' = [seen EXCEPT !.dir = Depth + 1, !.file = seen.file, !.bytes = seen.bytes,
                                   !.sources = seen.sources]
          BY <1>1, <3>2
        <4> QED
          BY <4>1
      <3>3. CASE seen' = [seen EXCEPT !.dir = next, !.file = 1, !.bytes = bytes,
                                      !.sources = sources]
        BY <3>3
      <3>4. CASE seen.file < Len(names) /\ seen' = [seen EXCEPT !.file = seen.file + 1]
        <4>1. seen' = [seen EXCEPT !.dir = seen.dir, !.file = seen.file + 1,
                                   !.bytes = seen.bytes, !.sources = seen.sources]
          BY <1>1, <3>4
        <4> QED
          BY <3>4, <4>1
      <3>5. CASE seen' = [seen EXCEPT !.dir = next, !.file = 1]
        <4>1. seen' = [seen EXCEPT !.dir = next, !.file = 1,
                                   !.bytes = seen.bytes, !.sources = seen.sources]
          BY <1>1, <3>5
        <4> QED
          BY <4>1
      <3> QED
        BY <3>1, <3>2, <3>3, <3>4, <3>5
    <2>7. PICK d, j, sources, bytes :
            /\ seen' = [seen EXCEPT !.dir = d, !.file = j, !.bytes = bytes, !.sources = sources]
            /\ sources \in {seen.sources, Append(seen.sources, <<seen.dir, names[seen.file]>>)}
            /\ \/ d = Depth + 1
               \/ d = next /\ j = 1
               \/ d = seen.dir /\ j = seen.file + 1 /\ seen.file < Len(names)
      BY <2>6
    <2>8. sources \in Seq(Agents!Files)
      <3>1. Append(seen.sources, <<seen.dir, names[seen.file]>>) \in Seq(Agents!Files)
        BY <1>1, <2>5, AppendProperties
      <3> QED
        BY <1>1, <2>7, <3>1
    <2>9. first \in 1..Depth
      BY <1>1, <1>2, AgentsDirectories
    <2>10. next = IF seen.dir = 0 THEN first ELSE seen.dir + 1
      BY DEF Agents!NextDirectory
    <2>11. d = 0 \/ first <= d
      <3> HIDE DEF first, next
      <3> QED
        BY <1>2, <2>1, <2>2, <2>7, <2>9, <2>10
    <2>12. d <= Depth => j \in DOMAIN Agents!Candidates(d, seen.fallbacks)
      <3>1. CASE d = Depth + 1
        BY <1>2, <3>1
      <3>2. CASE j = 1
        BY <1>1, <3>2, CandidatesLength
      <3>3. CASE d = seen.dir /\ j = seen.file + 1 /\ seen.file < Len(names)
        BY <1>1, <2>2, <3>3, CandidatesLength
      <3> QED
        BY <2>7, <3>1, <3>2, <3>3
    <2>13. seen' = [user |-> seen.user, dir |-> d, file |-> j,
                    root |-> seen.root, max |-> seen.max, fallbacks |-> seen.fallbacks,
                    layers |-> seen.layers, sources |-> sources, bytes |-> bytes]
      BY <1>1, <2>7
    <2>14. AgentsNames' = Agents!Candidates(d, seen.fallbacks)
      BY <2>13 DEF AgentsNames
    <2> HIDE DEF first, next, names
    <2> QED
      BY <1>1, <2>1, <2>8, <2>11, <2>12, <2>13, <2>14 DEF AgentsShape, first
  <1>8. CASE Agents!EndFiles \/ Agents!ReadFails
    <2>1. pc' = "done" /\ seen' = seen
      BY <1>8 DEF Agents!EndFiles, Agents!ReadFails, Agents!Fail
    <2> QED
      BY <1>1, <2>1 DEF AgentsShape
  <1>9. CASE Agents!Edit
    <2>1. pc' = pc /\ seen' = seen
      BY <1>9 DEF Agents!Edit
    <2> QED
      BY <2>1 DEF AgentsShape, AgentsNames
  <1> QED
    BY <1>3, <1>4, <1>5, <1>6, <1>7, <1>8, <1>9 DEF Agents!Next

LEMMA InstructionNamesApart ==
  \A name \in Agents!InstructionNames : name \notin {"config", "marker", "layer"}
  BY CommandAssumption DEF Agents!InstructionNames

\* A walk that has read one more file agrees with as many trees as before.
LEMMA AgentsAdvance ==
  ASSUME NEW t, AgentsWitness(t), world' = world, AgentsTried = {}, AgentsTried' = {},
         AgentsBehind \subseteq AgentsBehind',
         \A tree : /\ Agents!IsTree(tree) /\ AgentsAgree(tree)
                   /\ \A l \in AgentsBehind' : tree[l] = t[l]
                   => AgentsAgree(tree)'
  PROVE  AgentsWitness(t)'
  <1>1. ASSUME NEW tree, Agents!IsTree(tree), \A l \in AgentsBehind' : tree[l] = t[l]
        PROVE  AgentsAgree(tree)'
    <2>1. AgentsAgree(tree)
      BY <1>1 DEF AgentsWitness
    <2> QED
      BY <1>1, <2>1
  <1>2. \A l \in Agents!Files : l \in AgentsBehind' \/ l \in AgentsTried' \/ world'.now[l] = t[l]
    BY DEF AgentsWitness
  <1> QED
    BY <1>1, <1>2 DEF AgentsWitness

LEMMA ConfigIsRead ==
  ASSUME AgentsInv, AgentsShape, Agents!ReadConfig, NEW t, AgentsWitness(t)
  PROVE  AgentsWitness(t)'
  <1> DEFINE l == <<0, "config">>
  <1>1. pc = "config" /\ pc' \in {"root", "layers"} /\ world' = world
    BY DEF Agents!ReadConfig
  <1>2. AgentsBehind = {} /\ AgentsTried = {} /\ AgentsTried' = {}
    BY <1>1, InstructionNamesApart DEF AgentsBehind, AgentsTried
  <1>3. l \in Agents!Files /\ l[2] = "config"
    BY DEF Agents!Files
  <1>4. l \in AgentsBehind'
    BY <1>1, <1>3 DEF AgentsBehind
  <1>5. t[l] = world.now[l]
    BY <1>2, <1>3 DEF AgentsWitness
  <1>6. \A tree : (\A m \in AgentsBehind' : tree[m] = t[m]) => AgentsAgree(tree)'
    BY <1>4, <1>5, ConfigAgrees
  <1> QED
    BY <1>1, <1>2, <1>6, AgentsAdvance

LEMMA MarkerIsRead ==
  ASSUME AgentsInv, AgentsShape, Agents!FindRoot, NEW t, AgentsWitness(t)
  PROVE  AgentsWitness(t)'
  <1> DEFINE l == <<seen.dir, "marker">>
  <1>1. /\ pc = "root" /\ world' = world /\ seen.dir \in 1..Depth
        /\ pc' = "layers" \/ (pc' = "root" /\ seen'.dir = seen.dir - 1)
    <2>1. pc = "root" /\ world' = world /\ seen.dir \in 1..Depth
      BY CommandAssumption DEF Agents!FindRoot, AgentsInv
    <2>2. pc' = "layers" \/ (pc' = pc /\ seen' = [seen EXCEPT !.dir = seen.dir - 1])
      BY Zenon DEF Agents!FindRoot
    <2>3. seen' = [seen EXCEPT !.dir = seen.dir - 1] => seen'.dir = seen.dir - 1
      BY DEF AgentsInv
    <2> QED
      BY <2>1, <2>2, <2>3
  <1>2. AgentsTried = {} /\ AgentsTried' = {}
    BY <1>1 DEF AgentsTried
  <1>3. l \in Agents!Files /\ l[2] = "marker" /\ l[1] = seen.dir
    BY <1>1 DEF Agents!Files
  <1>4. l \in AgentsBehind' /\ l \notin AgentsBehind
    BY <1>1, <1>3, InstructionNamesApart DEF AgentsBehind
  <1>5. AgentsBehind \subseteq AgentsBehind'
    <2> SUFFICES ASSUME NEW m \in AgentsBehind PROVE m \in AgentsBehind'
      OBVIOUS
    <2>1. /\ m \in Agents!Files
          /\ m[2] = "config" \/ (m[2] = "marker" /\ m[1] > seen.dir)
      BY <1>1 DEF AgentsBehind
    <2>2. m[2] = "marker" => m[1] \in 1..Depth
      BY <2>1, InstructionNamesApart DEF Agents!Files
    <2> QED
      BY <1>1, <2>1, <2>2, CommandAssumption DEF AgentsBehind
  <1>6. t[l] = world.now[l]
    BY <1>2, <1>3, <1>4 DEF AgentsWitness
  <1>7. \A tree : AgentsAgree(tree) /\ (\A m \in AgentsBehind' : tree[m] = t[m])
                    => AgentsAgree(tree)'
    BY <1>4, <1>6, RootAgrees
  <1> QED
    BY <1>1, <1>2, <1>5, <1>7, AgentsAdvance

LEMMA LayerIsRead ==
  ASSUME AgentsInv, AgentsShape, Agents!ReadLayer, NEW t, AgentsWitness(t)
  PROVE  AgentsWitness(t)'
  <1> DEFINE l == <<seen.dir, "layer">>
  <1>1. /\ pc = "layers" /\ pc' = pc /\ world' = world /\ seen.dir \in 1..Depth
        /\ seen'.dir = seen.dir + 1
    <2>1. pc = "layers" /\ pc' = pc /\ world' = world /\ seen.dir \in 1..Depth
      BY CommandAssumption DEF Agents!ReadLayer, AgentsInv
    <2>2. \E max, fallbacks, layers :
            seen' = [seen EXCEPT !.dir = seen.dir + 1, !.max = max, !.fallbacks = fallbacks,
                                 !.layers = layers]
      BY Zenon DEF Agents!ReadLayer
    <2>3. seen'.dir = seen.dir + 1
      BY <2>2 DEF AgentsInv
    <2> QED
      BY <2>1, <2>3
  <1>2. AgentsTried = {} /\ AgentsTried' = {}
    BY <1>1 DEF AgentsTried
  <1>3. l \in Agents!Files /\ l[2] = "layer" /\ l[1] = seen.dir
    BY <1>1 DEF Agents!Files
  <1>4. l \in AgentsBehind' /\ l \notin AgentsBehind
    BY <1>1, <1>3, InstructionNamesApart DEF AgentsBehind
  <1>5. AgentsBehind \subseteq AgentsBehind'
    <2> SUFFICES ASSUME NEW m \in AgentsBehind PROVE m \in AgentsBehind'
      OBVIOUS
    <2>1. /\ m \in Agents!Files
          /\ m[2] \in {"config", "marker"} \/ (m[2] = "layer" /\ m[1] < seen.dir)
      BY <1>1 DEF AgentsBehind
    <2>2. m[2] = "layer" => m[1] \in 1..Depth
      BY <2>1, InstructionNamesApart DEF Agents!Files
    <2> QED
      BY <1>1, <2>1, <2>2, CommandAssumption DEF AgentsBehind
  <1>6. t[l] = world.now[l]
    BY <1>2, <1>3, <1>4 DEF AgentsWitness
  <1>7. \A tree : AgentsAgree(tree) /\ (\A m \in AgentsBehind' : tree[m] = t[m])
                    => AgentsAgree(tree)'
    BY <1>4, <1>6, LayerAgrees
  <1> QED
    BY <1>1, <1>2, <1>5, <1>7, AgentsAdvance

LEMMA LayersAreRead ==
  ASSUME AgentsInv, AgentsShape, Agents!EndLayers, NEW t, AgentsWitness(t)
  PROVE  AgentsWitness(t)'
  <1>1. /\ pc = "layers" /\ pc' = "files" /\ world' = world
        /\ seen'.dir = 0 /\ seen'.file = 1
    BY DEF Agents!EndLayers, AgentsInv, AgentsShape
  <1>2. AgentsTried = {}
    BY <1>1 DEF AgentsTried
  <1>3. AgentsTried' = {}
    <2>1. DOMAIN AgentsNames' \subseteq Nat \ {0}
      <3>1. AgentsShape'
        BY AgentsShapeKept DEF Agents!Next
      <3>2. AgentsNames' \in Seq(Agents!InstructionNames)
        BY <3>1, CandidateNames DEF AgentsNames, AgentsShape
      <3> QED
        BY <3>2
    <2>2. \A i \in DOMAIN AgentsNames' : ~(i < 1)
      BY <2>1
    <2> QED
      BY <1>1, <2>2 DEF AgentsTried
  <1>4. AgentsBehind \subseteq AgentsBehind'
    BY <1>1 DEF AgentsBehind
  <1>5. \A tree : Agents!IsTree(tree) /\ AgentsAgree(tree) => AgentsAgree(tree)'
    BY LayersAgree
  <1> QED
    BY <1>1, <1>2, <1>3, <1>4, <1>5, AgentsAdvance

\* What Examine does, apart from what it adds.
LEMMA ExamineMoves ==
  ASSUME AgentsInv, AgentsShape, Agents!Examine
  PROVE  /\ pc = "files" /\ pc' = pc /\ world' = world
         /\ seen.dir \in 0..Depth /\ seen.file \in DOMAIN AgentsNames
         /\ AgentsNames \in Seq(Agents!InstructionNames)
         /\ <<seen.dir, AgentsNames[seen.file]>> \in Agents!Files
         /\ AgentsNames[seen.file] \in Agents!InstructionNames
         /\ \/ seen'.dir > Depth
            \/ seen'.dir > seen.dir /\ seen'.file = 1
            \/ /\ world.now[<<seen.dir, AgentsNames[seen.file]>>] \in {Absent, 0}
               /\ seen' = [seen EXCEPT !.file = @ + 1]
         /\ seen'.fallbacks = seen.fallbacks
  <1> DEFINE d == seen.dir
             names == AgentsNames
             next == Agents!NextDirectory(d)
             size == world.now[<<d, names[seen.file]>>]
  <1>1. Depth \in Nat \ {0}
    BY CommandAssumption
  <1>2. /\ seen = [user |-> seen.user, dir |-> seen.dir, file |-> seen.file,
                   root |-> seen.root, max |-> seen.max, fallbacks |-> seen.fallbacks,
                   layers |-> seen.layers, sources |-> seen.sources, bytes |-> seen.bytes]
        /\ seen.fallbacks \in Seq(FallbackNames)
        /\ d \in 0..(Depth + 1) /\ seen.root \in 0..Depth
    BY DEF AgentsInv, AgentsShape
  <1>3. pc = "files" /\ pc' = pc /\ world' = world /\ d <= Depth
    BY Zenon DEF Agents!Examine
  <1>4. d \in 0..Depth /\ seen.file \in DOMAIN names
    BY <1>1, <1>2, <1>3 DEF AgentsShape
  <1>5. names \in Seq(Agents!InstructionNames)
    BY <1>2, CandidateNames DEF AgentsNames
  <1>6. names[seen.file] \in Agents!InstructionNames
    BY <1>4, <1>5
  <1>7. <<d, names[seen.file]>> \in Agents!Files
    BY <1>4, <1>6, InstructionFiles
  <1>8. d < next
    <2>1. Agents!FirstDirectory(seen.root) \in 1..Depth
      BY <1>1, <1>2, AgentsDirectories
    <2> QED
      BY <1>1, <1>4, <2>1 DEF Agents!NextDirectory
  <1>9. \E bytes, sources :
          \/ seen' = [seen EXCEPT !.dir = Depth + 1]
          \/ seen' = [seen EXCEPT !.dir = next, !.file = 1, !.bytes = bytes, !.sources = sources]
          \/ size \in {Absent, 0} /\ seen' = [seen EXCEPT !.file = @ + 1]
          \/ seen' = [seen EXCEPT !.dir = next, !.file = 1]
    <2> DEFINE bytes == seen.bytes + size
                            + (IF seen.sources = << >> THEN 0 ELSE SeparatorBytes)
               sources == Append(seen.sources, <<d, names[seen.file]>>)
    <2>1. \/ seen' = [seen EXCEPT !.dir = Depth + 1]
          \/ seen' = [seen EXCEPT !.dir = next, !.file = 1, !.bytes = bytes, !.sources = sources]
          \/ size \in {Absent, 0} /\ seen' = [seen EXCEPT !.file = @ + 1]
          \/ seen' = [seen EXCEPT !.dir = next, !.file = 1]
      BY Zenon DEF Agents!Examine, Agents!File, AgentsNames
    <2> HIDE DEF bytes, sources, size, next, names
    <2> QED
      BY <2>1
  <1> HIDE DEF next, size, names
  <1>10. /\ \/ seen'.dir > Depth
            \/ seen'.dir > d /\ seen'.file = 1
            \/ size \in {Absent, 0} /\ seen' = [seen EXCEPT !.file = @ + 1]
         /\ seen'.fallbacks = seen.fallbacks
    <2>1. PICK bytes, sources :
          \/ seen' = [seen EXCEPT !.dir = Depth + 1]
          \/ seen' = [seen EXCEPT !.dir = next, !.file = 1, !.bytes = bytes, !.sources = sources]
          \/ size \in {Absent, 0} /\ seen' = [seen EXCEPT !.file = @ + 1]
          \/ seen' = [seen EXCEPT !.dir = next, !.file = 1]
      BY <1>9
    <2>2. CASE seen' = [seen EXCEPT !.dir = Depth + 1]
      BY <1>1, <1>2, <2>2
    <2>3. CASE seen' = [seen EXCEPT !.dir = next, !.file = 1, !.bytes = bytes,
                                    !.sources = sources]
      <3>1. seen'.dir = next /\ seen'.file = 1 /\ seen'.fallbacks = seen.fallbacks
        BY <1>2, <2>3
      <3>2. seen'.dir > d
        BY <1>4, <1>8, <3>1
      <3> QED
        BY <3>1, <3>2
    <2>4. CASE size \in {Absent, 0} /\ seen' = [seen EXCEPT !.file = @ + 1]
      BY <1>2, <2>4
    <2>5. CASE seen' = [seen EXCEPT !.dir = next, !.file = 1]
      <3>1. seen'.dir = next /\ seen'.file = 1 /\ seen'.fallbacks = seen.fallbacks
        BY <1>2, <2>5
      <3>2. seen'.dir > d
        BY <1>4, <1>8, <3>1
      <3> QED
        BY <3>1, <3>2
    <2> QED
      BY <2>1, <2>2, <2>3, <2>4, <2>5
  <1> QED
    BY <1>3, <1>4, <1>5, <1>6, <1>7, <1>10 DEF size, names

\* A candidate is examined.  It may be one that was tried before under the same
\* name: if it is there by now, the tree as it is now is the one that is seen.
LEMMA CandidateIsRead ==
  ASSUME AgentsInv, AgentsShape, OneEdit, Agents!Examine,
         NEW t \in {world.now, world.before}, AgentsWitness(t)
  PROVE  \E s \in {world.now, world.before} : AgentsWitness(s)'
  <1> DEFINE names == AgentsNames
             name == names[seen.file]
             l == <<seen.dir, name>>
  <1>1. /\ pc = "files" /\ pc' = pc /\ world' = world
        /\ seen.dir \in 0..Depth /\ seen.file \in DOMAIN names
        /\ names \in Seq(Agents!InstructionNames)
        /\ l \in Agents!Files /\ name \in Agents!InstructionNames
        /\ \/ seen'.dir > Depth
           \/ seen'.dir > seen.dir /\ seen'.file = 1
           \/ world.now[l] \in {Absent, 0} /\ seen' = [seen EXCEPT !.file = @ + 1]
        /\ seen'.fallbacks = seen.fallbacks
    BY ExamineMoves
  <1>2. l \notin AgentsBehind /\ \A n \in Agents!InstructionNames : <<seen.dir, n>> \notin AgentsBehind
    <2>1. \A n \in Agents!InstructionNames : <<seen.dir, n>> \notin AgentsBehind
      <3> SUFFICES ASSUME NEW n \in Agents!InstructionNames, <<seen.dir, n>> \in AgentsBehind
                   PROVE  FALSE
        OBVIOUS
      <3>1. n \notin {"config", "marker", "layer"}
        BY InstructionNamesApart
      <3>2. <<seen.dir, n>>[1] < seen.dir
        BY <3>1 DEF AgentsBehind
      <3> QED
        BY <1>1, <3>2
    <2> QED
      BY <1>1, <2>1
  <1>3. DOMAIN names \subseteq Nat /\ \A i \in DOMAIN names : names[i] \in Agents!InstructionNames
    BY <1>1
  <1>4. AgentsTried = {<<seen.dir, names[i]>> : i \in {j \in DOMAIN names : j < seen.file}}
    BY <1>1 DEF AgentsTried
  <1>5. \A i \in DOMAIN names : i < seen.file => t[<<seen.dir, names[i]>>] \in {Absent, 0}
    <2> SUFFICES ASSUME NEW i \in DOMAIN names, i < seen.file
                 PROVE  t[<<seen.dir, names[i]>>] \in {Absent, 0}
      OBVIOUS
    <2>1. <<seen.dir, names[i]>> \in AgentsTried
      BY <1>4
    <2> QED
      BY <2>1 DEF AgentsWitness
  <1>6. CASE world.now[l] \in {Absent, 0} /\ seen' = [seen EXCEPT !.file = @ + 1]
    <2>1. AgentsBehind' = AgentsBehind /\ AgentsNames' = AgentsNames
          /\ seen'.dir = seen.dir /\ seen'.file = seen.file + 1
      <3>1. seen'.dir = seen.dir /\ seen'.file = seen.file + 1
        BY <1>6 DEF AgentsInv
      <3> QED
        BY <1>1, <3>1 DEF AgentsBehind, AgentsNames
    <2>2. AgentsTried' = AgentsTried \cup {l}
      <3>1. AgentsTried' = {<<seen.dir, names[i]>> : i \in {j \in DOMAIN names : j < seen.file + 1}}
        BY <1>1, <2>1 DEF AgentsTried
      <3>2. {j \in DOMAIN names : j < seen.file + 1}
              = {j \in DOMAIN names : j < seen.file} \cup {seen.file}
        BY <1>1, <1>3
      <3> HIDE DEF names
      <3> QED
        BY <1>4, <3>1, <3>2
    <2>3. t[l] \in {Absent, 0}
      BY <1>1, <1>2, <1>6 DEF AgentsWitness
    <2>4. \A tree : AgentsAgree(tree) => AgentsAgree(tree)'
      BY <1>1, <1>6, TriedAgrees
    <2>5. \A tree : Agents!IsTree(tree) /\ (\A m \in AgentsBehind' : tree[m] = t[m])
                      => AgentsAgree(tree)'
      BY <2>1, <2>4 DEF AgentsWitness
    <2>6. \A m \in AgentsTried' : t[m] \in {Absent, 0}
      BY <2>2, <2>3 DEF AgentsWitness
    <2>7. \A m \in Agents!Files : m \in AgentsBehind' \/ m \in AgentsTried' \/ world'.now[m] = t[m]
      BY <1>1, <2>1, <2>2 DEF AgentsWitness
    <2>8. AgentsWitness(t)'
      BY <2>5, <2>6, <2>7 DEF AgentsWitness
    <2> QED
      BY <2>8
  <1>7. CASE seen'.dir > Depth \/ (seen'.dir > seen.dir /\ seen'.file = 1)
    <2>1. \E s \in {world.now, world.before} :
            /\ \A m \in AgentsBehind : s[m] = t[m]
            /\ s[l] = world.now[l]
            /\ \A i \in DOMAIN names :
                 i < seen.file => names[i] = name \/ s[<<seen.dir, names[i]>>] \in {Absent, 0}
            /\ \A m \in Agents!Files : m \in AgentsBehind \/ m \in AgentsTried \/ world.now[m] = s[m]
      <3>1. CASE world.now[l] = t[l]
        BY <1>5, <3>1 DEF AgentsWitness
      <3>2. CASE world.now[l] # t[l]
        <4>1. t = world.before
          BY <3>2
        <4>2. PICK x : \A m \in Agents!Files : m = x \/ world.now[m] = world.before[m]
          BY DEF OneEdit
        <4>3. x = l
          BY <1>1, <3>2, <4>1, <4>2
        <4>4. \A m \in AgentsBehind : world.now[m] = t[m]
          BY <1>2, <4>1, <4>2, <4>3 DEF AgentsBehind
        <4>5. \A i \in DOMAIN names :
                i < seen.file => names[i] = name \/ world.now[<<seen.dir, names[i]>>] \in {Absent, 0}
          <5> SUFFICES ASSUME NEW i \in DOMAIN names, i < seen.file, names[i] # name
                       PROVE  world.now[<<seen.dir, names[i]>>] \in {Absent, 0}
            OBVIOUS
          <5>1. <<seen.dir, names[i]>> \in Agents!Files
            BY <1>1, <1>3, InstructionFiles
          <5>2. <<seen.dir, names[i]>> # l
            OBVIOUS
          <5>3. world.now[<<seen.dir, names[i]>>] = t[<<seen.dir, names[i]>>]
            BY <4>1, <4>2, <4>3, <5>1, <5>2
          <5> QED
            BY <1>5, <5>3
        <4> QED
          BY <4>4, <4>5
      <3> QED
        BY <3>1, <3>2
    <2>2. PICK s \in {world.now, world.before} :
            /\ \A m \in AgentsBehind : s[m] = t[m]
            /\ s[l] = world.now[l]
            /\ \A i \in DOMAIN names :
                 i < seen.file => names[i] = name \/ s[<<seen.dir, names[i]>>] \in {Absent, 0}
            /\ \A m \in Agents!Files : m \in AgentsBehind \/ m \in AgentsTried \/ world.now[m] = s[m]
      BY <2>1
    <2>3. seen'.dir > seen.dir /\ (seen'.file = 1 \/ seen'.dir # seen.dir)
      <3>1. Depth \in Nat /\ seen'.dir \in Int
        BY CommandAssumption, AgentsKeep DEF AgentsInv, Agents!Next
      <3> QED
        BY <1>1, <1>7, <3>1
    <2>4. AgentsTried' = {}
      <3>1. CASE seen'.dir > Depth
        <4>1. ~(seen'.dir <= Depth)
          BY <3>1, CommandAssumption, AgentsKeep, SMTT(30) DEF AgentsInv, Agents!Next
        <4> QED
          BY <4>1 DEF AgentsTried
      <3>2. CASE seen'.file = 1
        <4>1. AgentsNames' \in Seq(Agents!InstructionNames)
          BY <1>1, CandidateNames DEF AgentsNames, AgentsShape
        <4>2. \A i \in DOMAIN AgentsNames' : ~(i < 1)
          BY <4>1
        <4> QED
          BY <3>2, <4>2 DEF AgentsTried
      <3> QED
        BY <1>7, <3>1, <3>2
    <2>5. \A n \in Agents!InstructionNames : <<seen.dir, n>> \in AgentsBehind'
      <3> SUFFICES ASSUME NEW n \in Agents!InstructionNames PROVE <<seen.dir, n>> \in AgentsBehind'
        OBVIOUS
      <3>1. <<seen.dir, n>> \in Agents!Files
        BY <1>1, InstructionFiles
      <3>2. <<seen.dir, n>>[1] < seen'.dir /\ <<seen.dir, n>>[2] = n /\ pc' = "files"
        BY <1>1, <2>3
      <3> QED
        BY <3>1, <3>2 DEF AgentsBehind
    <2>6. AgentsBehind \subseteq AgentsBehind'
      <3> SUFFICES ASSUME NEW m \in AgentsBehind PROVE m \in AgentsBehind'
        OBVIOUS
      <3>1. /\ m \in Agents!Files
            /\ \/ m[2] \in {"config", "marker", "layer"}
               \/ m[2] \in Agents!InstructionNames /\ m[1] < seen.dir
        BY <1>1 DEF AgentsBehind
      <3>2. m[2] \in Agents!InstructionNames => m[1] \in Int
        <4>1. m[1] = 0 \/ m[1] \in 0..Depth \/ m[1] \in 1..Depth
          BY <3>1 DEF Agents!Files
        <4> QED
          BY <4>1, CommandAssumption
      <3>3. m[2] \in Agents!InstructionNames /\ m[1] < seen.dir => m[1] < seen'.dir
        <4>1. seen'.dir \in Int
          BY AgentsKeep DEF AgentsInv, Agents!Next
        <4> QED
          BY <1>1, <2>3, <3>2, <4>1
      <3> QED
        BY <1>1, <3>1, <3>3 DEF AgentsBehind
    <2>7. ASSUME NEW tree, Agents!IsTree(tree), \A m \in AgentsBehind' : tree[m] = s[m]
          PROVE  AgentsAgree(tree)'
      <3>1. \A m \in AgentsBehind : tree[m] = t[m]
        BY <2>2, <2>6, <2>7
      <3>2. AgentsAgree(tree)
        BY <2>7, <3>1 DEF AgentsWitness
      <3>3. tree[l] = world.now[l]
        BY <1>1, <2>2, <2>5, <2>7
      <3>4. \A i \in DOMAIN names :
              i < seen.file => names[i] = name \/ tree[<<seen.dir, names[i]>>] \in {Absent, 0}
        BY <1>3, <2>2, <2>5, <2>7
      <3> QED
        BY <2>3, <2>7, <3>2, <3>3, <3>4, ExamineAgrees
    <2>8. \A m \in Agents!Files : m \in AgentsBehind' \/ world'.now[m] = s[m]
      <3>1. \A m \in AgentsTried : m \in AgentsBehind'
        BY <1>3, <1>4, <2>5
      <3> QED
        BY <1>1, <2>2, <2>6, <3>1
    <2>9. AgentsWitness(s)'
      BY <2>4, <2>7, <2>8 DEF AgentsWitness
    <2> QED
      BY <2>9
  <1> QED
    BY <1>1, <1>6, <1>7

\* One file changes: if it is behind the walk the tree before stays the witness,
\* and otherwise the tree as it is now is one.
LEMMA AgentsEdited ==
  ASSUME AgentsInv, Agents!IsTree(world.before), Agents!Edit,
         NEW t \in {world.now, world.before}, AgentsWitness(t)
  PROVE  /\ \E s \in {world.now, world.before}' : AgentsWitness(s)'
         /\ OneEdit'
         /\ Agents!IsTree(world.before)'
  <1>1. PICK e \in Edits : world' = [world EXCEPT !.now[e[1]] = e[2], !.edited = TRUE]
    BY Zenon DEF Agents!Edit
  <1>2. pc' = pc /\ seen' = seen /\ ~world.edited
    BY DEF Agents!Edit
  <1>3. /\ world = [now |-> world.now, before |-> world.before, edited |-> world.edited]
        /\ world.now = world.before /\ Agents!IsTree(world.now)
    BY <1>2 DEF AgentsInv
  <1>4. PICK now : now = [world.now EXCEPT ![e[1]] = e[2]]
    OBVIOUS
  <1>5. world' = [now |-> now, before |-> world.before, edited |-> TRUE]
    BY <1>1, <1>3, <1>4
  <1>6. \A l \in Agents!Files : l = e[1] \/ now[l] = world.now[l]
    BY <1>3, <1>4 DEF Agents!IsTree
  <1>7. AgentsBehind' = AgentsBehind /\ AgentsTried' = AgentsTried
        /\ \A tree : AgentsAgree(tree) => AgentsAgree(tree)'
    <2>1. AgentsNames' = AgentsNames
      BY <1>2 DEF AgentsNames
    <2>2. AgentsBehind' = AgentsBehind
      BY <1>2 DEF AgentsBehind
    <2>3. AgentsTried' = AgentsTried
      BY <1>2, <2>1 DEF AgentsTried
    <2>4. ASSUME NEW tree PROVE AgentsAgree(tree)' <=> AgentsAgree(tree)
      BY <1>2 DEF AgentsAgree, AgentsAtRoot, AgentsAtLayers, AgentsAtFiles, AgentsSources
    <2> QED
      BY <2>2, <2>3, <2>4
  <1>8. t = world.now
    BY <1>3
  <1>9. OneEdit' /\ Agents!IsTree(world.before)'
    <2>1. \A l \in Agents!Files : l = e[1] \/ world'.now[l] = world'.before[l]
      BY <1>3, <1>5, <1>6
    <2>2. world'.before = world.before
      BY <1>5
    <2> QED
      BY <2>1, <2>2 DEF OneEdit
  <1>10. CASE e[1] \in AgentsBehind \cup AgentsTried
    <2>1. \A l \in Agents!Files : l \in AgentsBehind' \/ l \in AgentsTried' \/ world'.now[l] = t[l]
      BY <1>5, <1>6, <1>7, <1>8, <1>10
    <2>2. AgentsWitness(t)'
      BY <1>7, <2>1 DEF AgentsWitness
    <2>3. t \in {world.now, world.before}'
      BY <1>3, <1>5, <1>8
    <2> QED
      BY <1>9, <2>2, <2>3
  <1>11. CASE e[1] \notin AgentsBehind \cup AgentsTried
    <2>1. \A l \in AgentsBehind : now[l] = t[l]
      BY <1>6, <1>8, <1>11 DEF AgentsBehind
    <2>2. \A l \in AgentsTried : now[l] \in {Absent, 0}
      <3> SUFFICES ASSUME NEW l \in AgentsTried PROVE now[l] \in {Absent, 0}
        OBVIOUS
      <3>1. t[l] \in {Absent, 0} /\ l # e[1]
        BY <1>11 DEF AgentsWitness
      <3>2. now[l] = t[l]
        BY <1>4, <1>8, <3>1
      <3> QED
        BY <3>1, <3>2
    <2>3. ASSUME NEW tree, Agents!IsTree(tree), \A l \in AgentsBehind' : tree[l] = now[l]
          PROVE  AgentsAgree(tree)'
      BY <1>7, <2>1, <2>3 DEF AgentsWitness
    <2>4. AgentsWitness(now)'
      BY <1>5, <1>7, <2>2, <2>3 DEF AgentsWitness
    <2> QED
      BY <1>5, <1>9, <2>4
  <1> QED
    BY <1>10, <1>11

\* The list is complete: the report is that of the witness.
LEMMA AgentsReport ==
  ASSUME AgentsInv, AgentsShape, Agents!EndFiles, Agents!IsTree(world.now),
         Agents!IsTree(world.before),
         NEW t \in {world.now, world.before}, AgentsWitness(t)
  PROVE  Agents!LooksAtOnce'
  <1> DEFINE k == Len(seen.sources)
             W == Agents!WithFile(t)
             all == Agents!AllOf(t)
  <1>1. /\ pc = "files" /\ seen.dir > Depth /\ pc' = "done" /\ world' = world /\ seen' = seen
        /\ outcome' = Agents!Concluded("accepted", "agents")
    BY DEF Agents!EndFiles
  <1>2. /\ seen.root \in 0..Depth /\ seen.fallbacks \in Seq(FallbackNames) /\ seen.max \in Nat
        /\ seen.bytes <= seen.max /\ seen.sources \in Seq(Agents!Files)
        /\ seen.dir \in 0..(Depth + 1)
    BY DEF AgentsInv, AgentsShape
  <1>3. AgentsAtFiles(t)
    BY <1>1 DEF AgentsWitness, AgentsAgree
  <1>4. /\ seen.root = Agents!RootOf(t)
        /\ Agents!ToSet(seen.layers) = Agents!LayersOf(t)
        /\ seen.max = Agents!MaxOf(t) /\ seen.fallbacks = Agents!FallbacksOf(t)
        /\ k <= Cardinality(W)
        /\ \A i \in 1..k : seen.sources[i] = all[i]
        /\ \A i \in 1..k : t[seen.sources[i]] # Denied
        /\ seen.bytes = Agents!BytesOf(t)[k]
        /\ \/ k = Cardinality({d \in W : d < seen.dir})
           \/ Agents!BytesOf(t)[k + 1] > seen.max
    BY <1>3 DEF AgentsAtFiles, AgentsSources
  <1>5. Settled(t)
    BY <1>2, <1>4 DEF Settled
  <1>6. W \in SUBSET (0..Depth) /\ Cardinality(W) \in Nat
    BY <1>5, WithFileIs
  <1>7. {d \in W : d < seen.dir} = W
    <2>1. seen.dir = Depth + 1
      BY <1>1, <1>2, CommandAssumption
    <2>2. Depth \in Nat
      BY CommandAssumption
    <2>3. \A d \in W : d < seen.dir
      <3> HIDE DEF W
      <3> QED
        BY <1>6, <2>1, <2>2
    <2> HIDE DEF W
    <2> QED
      BY <2>3
  <1>8. k \in 0..Cardinality(W)
    BY <1>2, <1>4, <1>6
  <1>9. Agents!SourcesOf(t) = [i \in 1..k |-> all[i]]
    <2>1. Agents!BytesOf(t)[k] <= Agents!MaxOf(t) /\ Agents!MaxOf(t) \in Nat
      BY <1>2, <1>4
    <2>2. k = Cardinality(W) \/ Agents!BytesOf(t)[k + 1] > Agents!MaxOf(t)
      BY <1>4, <1>7
    <2> QED
      BY <1>5, <1>8, <2>1, <2>2, SourcesOfIs
  <1>10. seen.sources = Agents!SourcesOf(t)
    <2>1. seen.sources = [i \in 1..k |-> seen.sources[i]]
      BY <1>2
    <2> HIDE DEF all, k
    <2> QED
      BY <1>4, <1>9, <2>1
  <1>11. \A file \in Agents!ToSet(seen.sources) : t[file] # Denied
    <2>1. DOMAIN seen.sources = 1..k
      BY <1>2
    <2> QED
      BY <1>4, <2>1, Zenon DEF Agents!ToSet
  <1>12. Agents!ReportOf(t) = [root |-> seen.root, layers |-> Agents!ToSet(seen.layers),
                               sources |-> seen.sources]
    BY <1>4, <1>10 DEF Agents!ReportOf
  <1>13. outcome'.verdict = "accepted"
    BY <1>1 DEF Agents!Concluded
  <1>14. outcome'.verdict # "INCOMPLETE"
    BY <1>13
  <1>15. /\ t \in {world'.now, world'.before}
         /\ Agents!ReportOf(t) = [root |-> seen'.root, layers |-> Agents!ToSet(seen'.layers),
                                  sources |-> seen'.sources]
         /\ \A file \in Agents!ToSet(seen'.sources) : t[file] # Denied
    BY <1>1, <1>11, <1>12
  <1> QED
    BY <1>14, <1>15 DEF Agents!LooksAtOnce

\* What ends the inspection is a file that there is.
LEMMA AgentsFailure ==
  ASSUME AgentsInv, AgentsShape, Agents!ReadFails
  PROVE  Agents!LooksAtOnce'
  <1> DEFINE Unreadable(l) == world.now[l] = Denied \/ (l[2] \in {"config", "layer"} /\ world.now[l] # Absent
                                                /\ ~world.now[l].valid)
  <1>1. Agents!CannotRead /\ outcome' = Agents!Concluded("INCOMPLETE", "agents")
        /\ world' = world /\ pc' = "done"
    BY DEF Agents!ReadFails, Agents!Fail
  <1>2. Agents!IsTree(world.now) /\ Depth \in Nat \ {0} /\ seen.dir \in 0..(Depth + 1)
    BY CommandAssumption DEF AgentsInv
  <1>3. \E l \in Agents!Files : Unreadable(l)
    <2>1. CASE /\ pc = "config"
               /\ \/ world.now[<<0, "config">>] = Denied
                  \/ world.now[<<0, "config">>] # Absent /\ ~world.now[<<0, "config">>].valid
      <3>1. <<0, "config">> \in Agents!Files /\ <<0, "config">>[2] = "config"
        BY DEF Agents!Files
      <3> QED
        BY <2>1, <3>1
    <2>2. CASE /\ pc = "layers" /\ seen.dir <= Depth
               /\ \/ world.now[<<seen.dir, "layer">>] = Denied
                  \/ world.now[<<seen.dir, "layer">>] # Absent
                     /\ ~world.now[<<seen.dir, "layer">>].valid
      <3>1. seen.dir \in 1..Depth
        BY <1>2, <2>2 DEF AgentsInv
      <3>2. <<seen.dir, "layer">> \in Agents!Files /\ <<seen.dir, "layer">>[2] = "layer"
        BY <3>1 DEF Agents!Files
      <3> QED
        BY <2>2, <3>2
    <2>3. CASE pc = "root" /\ world.now[<<seen.dir, "marker">>] = Denied
      <3>1. seen.dir \in 1..Depth
        BY <1>2, <2>3 DEF AgentsInv
      <3>2. <<seen.dir, "marker">> \in Agents!Files
        BY <3>1 DEF Agents!Files
      <3> QED
        BY <2>3, <3>2
    <2>4. CASE /\ pc = "files" /\ seen.dir <= Depth
               /\ world.now[<<seen.dir, AgentsNames[seen.file]>>] = Denied
      <3>1. seen.dir \in 0..Depth /\ seen.file \in DOMAIN AgentsNames
        BY <1>2, <2>4 DEF AgentsShape
      <3>2. AgentsNames \in Seq(Agents!InstructionNames)
        BY CandidateNames DEF AgentsShape, AgentsNames
      <3>3. AgentsNames[seen.file] \in Agents!InstructionNames
        BY <3>1, <3>2
      <3>4. <<seen.dir, AgentsNames[seen.file]>> \in Agents!Files
        BY <3>1, <3>3, InstructionFiles
      <3> QED
        BY <2>4, <3>4
    <2> DEFINE config == world.now[<<0, "config">>]
               layer == world.now[<<seen.dir, "layer">>]
               reads == pc = "layers" /\ Agents!Trust(seen.user, seen.root) = "trusted"
                          /\ seen.dir <= Depth
               c == CASE pc = "config" -> config [] reads -> layer [] OTHER -> Absent
    <2>5. \/ c = Denied
          \/ c # Absent /\ ~c.valid
          \/ pc = "root" /\ world.now[<<seen.dir, "marker">>] = Denied
          \/ /\ pc = "files" /\ seen.dir <= Depth
             /\ world.now[<<seen.dir, AgentsNames[seen.file]>>] = Denied
      BY <1>1, Zenon DEF Agents!CannotRead, Agents!File, AgentsNames
    <2>6. c = IF pc = "config" THEN config ELSE IF reads THEN layer ELSE Absent
      BY DEF AgentsInv
    <2>7. Absent # Denied
      BY CommandAssumption
    <2> HIDE DEF c
    <2>8. c = Denied \/ (c # Absent /\ ~c.valid)
            => \/ pc = "config" /\ (config = Denied \/ (config # Absent /\ ~config.valid))
               \/ reads /\ (layer = Denied \/ (layer # Absent /\ ~layer.valid))
      BY <2>6, <2>7
    <2> QED
      BY <2>1, <2>2, <2>3, <2>4, <2>5, <2>8
  <1>4. PICK l \in DOMAIN world.now : Unreadable(l)
    BY <1>2, <1>3 DEF Agents!IsTree
  <1>5. outcome'.verdict = "INCOMPLETE"
    BY <1>1 DEF Agents!Concluded
  <1>6. \E tree \in {world'.now, world'.before} :
           tree[l] = Denied \/ (l[2] \in {"config", "layer"} /\ tree[l] # Absent /\ ~tree[l].valid)
    BY <1>1, <1>4
  <1>7. l \in DOMAIN world'.now
    BY <1>1
  <1> QED
    BY <1>5, <1>6, <1>7 DEF Agents!LooksAtOnce

LEMMA AgentsOnceBegins == ASSUME Agents!Init PROVE AgentsOnce
  <1>1. PICK t \in InstructionTrees : world = [now |-> t, before |-> t, edited |-> FALSE]
    BY DEF Agents!Init
  <1>2. pc = "config"
    BY DEF Agents!Init
  <1>3. Agents!IsTree(world.before)
    BY <1>1, CommandAssumption
  <1>4. OneEdit
    BY <1>1 DEF OneEdit
  <1>5. AgentsWitness(world.now)
    <2>1. AgentsTried = {} /\ \A tree : AgentsAgree(tree)
      BY <1>2 DEF AgentsTried, AgentsAgree
    <2> QED
      BY <2>1 DEF AgentsWitness
  <1>6. Agents!LooksAtOnce
    BY <1>2 DEF Agents!LooksAtOnce
  <1> QED
    BY <1>3, <1>4, <1>5, <1>6, AgentsShapeBegins DEF AgentsOnce

LEMMA AgentsOnceKept == ASSUME AgentsInv, AgentsOnce, Agents!Next PROVE AgentsOnce'
  <1>1. /\ AgentsShape /\ AgentsShape' /\ OneEdit /\ Agents!IsTree(world.before)
        /\ Agents!IsTree(world.now)
    BY AgentsShapeKept DEF AgentsOnce, AgentsInv
  <1>2. pc # "done"
    BY Zenon DEF Agents!Next, Agents!ReadConfig, Agents!FindRoot, Agents!ReadLayer,
       Agents!EndLayers, Agents!Examine, Agents!EndFiles, Agents!ReadFails, Agents!Edit
  <1>3. PICK t \in {world.now, world.before} : AgentsWitness(t)
    BY <1>2 DEF AgentsOnce
  <1>4. CASE Agents!ReadConfig \/ Agents!FindRoot \/ Agents!ReadLayer \/ Agents!EndLayers
             \/ Agents!Examine
    <2>1. world' = world /\ pc' # "done"
      BY <1>4, Zenon DEF Agents!ReadConfig, Agents!FindRoot, Agents!ReadLayer,
         Agents!EndLayers, Agents!Examine
    <2>2. \E s \in {world.now, world.before} : AgentsWitness(s)'
      BY <1>1, <1>3, <1>4, ConfigIsRead, MarkerIsRead, LayerIsRead, LayersAreRead, CandidateIsRead
    <2>3. OneEdit' /\ Agents!IsTree(world.before)'
      BY <1>1, <2>1 DEF OneEdit
    <2>4. Agents!LooksAtOnce'
      BY <2>1 DEF Agents!LooksAtOnce
    <2> QED
      BY <1>1, <2>1, <2>2, <2>3, <2>4 DEF AgentsOnce
  <1>5. CASE Agents!EndFiles \/ Agents!ReadFails
    <2>1. world' = world /\ pc' = "done"
      BY <1>5 DEF Agents!EndFiles, Agents!ReadFails, Agents!Fail
    <2>2. Agents!LooksAtOnce'
      BY <1>1, <1>3, <1>5, AgentsReport, AgentsFailure
    <2>3. OneEdit' /\ Agents!IsTree(world.before)'
      BY <1>1, <2>1 DEF OneEdit
    <2> QED
      BY <1>1, <2>1, <2>2, <2>3 DEF AgentsOnce
  <1>6. CASE Agents!Edit
    <2>1. pc' = pc
      BY <1>6 DEF Agents!Edit
    <2>2. Agents!LooksAtOnce'
      BY <1>2, <2>1 DEF Agents!LooksAtOnce
    <2> QED
      BY <1>1, <1>3, <1>6, <2>1, <2>2, AgentsEdited DEF AgentsOnce
  <1> QED
    BY <1>4, <1>5, <1>6 DEF Agents!Next

-----------------------------------------------------------------------------
(* The same for the files of `gr inspect claude`, each of which is read    *)
(* once at most.                                                           *)

\* The place of a file of an instruction source in the order of reading.
NameAt(name) == CHOOSE i \in 1..3 : Local!InstructionNames[i] = name
PlaceOf(l) == 4 * l[1] + NameAt(l[2])
Place == 4 * seen.dir + seen.file

\* The files that no step reads any more.
LocalBehind ==
  {l \in Local!Files :
     \/ l[2] = ".git" /\ (pc # "root" \/ l[1] > seen.dir)
     \/ l[2] = ".claude.json" /\ pc \notin {"root", "config"}
     \/ l[2] = ".mcp.json" /\ pc \notin {"root", "config", "mcp"}
     \/ l[2] = "skills" /\ (pc = "instructions" \/ (pc = "skills" /\ l[1] < seen.dir))
     \/ /\ l[2] \in Local!ToSet(Local!InstructionNames)
        /\ pc = "instructions" /\ PlaceOf(l) < Place}

\* The manifests of the projects' skills before a directory, and the
\* instruction sources before a place.
SkillsBelow(tree, e) ==
  UNION {{d} \X (Local!SkillsIn(tree, d) \ {"stray"}) : d \in {x \in Local!Project(tree) : x < e}}

LocalFound(tree) ==
  {l \in {<<0, "CLAUDE.md">>}
           \cup (Local!Project(tree) \X Local!ToSet(Local!InstructionNames)) :
     Local!Readable(tree[l])}

LocalAtConfig(tree) == seen.root = Local!RootOf(tree)

LocalAtMcp(tree) ==
  /\ seen.user = Local!ReportOf(tree).user
  /\ seen.local = Local!ReportOf(tree).local

LocalAtSkills(tree) ==
  /\ seen.project = Local!ReportOf(tree).project
  /\ seen.dir # 0 => seen.personalSkills = Local!ReportOf(tree).personalSkills
  /\ IsFiniteSet(SkillsBelow(tree, seen.dir))
  /\ seen.projectSkills = Cardinality(SkillsBelow(tree, seen.dir))

LocalAtInstructions(tree) ==
  /\ seen.project = Local!ReportOf(tree).project
  /\ seen.personalSkills = Local!ReportOf(tree).personalSkills
  /\ seen.projectSkills = Local!ReportOf(tree).projectSkills
  /\ Len(seen.sources) = Cardinality({l \in LocalFound(tree) : PlaceOf(l) < Place})
  /\ \A i \in 1..Len(seen.sources) : seen.sources[i] = Local!SourcesOf(tree)[i]

\* What is seen is what the tree says.
LocalAgree(tree) ==
  /\ pc = "root" => \A d \in 1..Depth : d > seen.dir => tree[<<d, ".git">>] = Absent
  /\ pc \in {"config", "mcp", "skills", "instructions"} => LocalAtConfig(tree)
  /\ pc \in {"mcp", "skills", "instructions"} => LocalAtMcp(tree)
  /\ pc = "skills" => LocalAtSkills(tree)
  /\ pc = "instructions" => LocalAtInstructions(tree)

LocalWitness(t) ==
  /\ \A tree : Local!IsTree(tree) /\ (\A l \in LocalBehind : tree[l] = t[l]) => LocalAgree(tree)
  /\ \A l \in Local!Files : l \in LocalBehind \/ world.now[l] = t[l]

\* What is seen by itself, whatever the trees are.
LocalShape ==
  /\ seen.sources \in Seq(Local!Files) /\ seen.file \in 1..3
  /\ pc # "instructions" /\ pc # "done" => seen.sources = << >> /\ seen.file = 1
  /\ pc \in {"root", "config", "mcp"} => seen.dir >= 1 /\ seen.projectSkills = 0
  /\ pc = "skills" /\ seen.dir = 0 => seen.projectSkills = 0
  /\ pc \in {"skills", "instructions"} =>
       seen.dir = 0 \/ Local!FirstDirectory(seen.root) <= seen.dir
  /\ pc = "instructions" /\ (seen.dir = 0 \/ seen.dir > Depth) => seen.file = 1

OneClaudeEdit == \E x : \A l \in Local!Files : l = x \/ world.now[l] = world.before[l]

LocalOnce ==
  /\ Local!IsTree(world.now) /\ Local!IsTree(world.before)
  /\ OneClaudeEdit
  /\ LocalShape
  /\ pc # "done" => \E t \in {world.now, world.before} : LocalWitness(t)
  /\ Local!LooksAtOnce

LEMMA LocalSets ==
  /\ \A S : Local!Cardinality(S) = Cardinality(S)
  /\ \A S : Local!IsFiniteSet(S) = IsFiniteSet(S)
  BY DEF Local!Cardinality, Cardinality, Local!IsFiniteSet, IsFiniteSet

\* The names of the instruction sources are apart from each other and from all
\* other names.
LEMMA SourceNames ==
  /\ "CLAUDE.md" = Local!InstructionNames[1]
  /\ \A name : name \in Local!ToSet(Local!InstructionNames)
                 <=> \E i \in 1..3 : name = Local!InstructionNames[i]
  /\ \A i \in 1..3 : NameAt(Local!InstructionNames[i]) = i
  /\ \A i \in 1..3 :
       Local!InstructionNames[i] \notin {".git", ".claude.json", ".mcp.json", "skills"}
  <1> DEFINE names == Local!InstructionNames
  <1>1. /\ DOMAIN names = 1..3
        /\ names[1] = "CLAUDE.md" /\ names[2] = ".claude/CLAUDE.md"
        /\ names[3] = "CLAUDE.local.md"
    BY DEF Local!InstructionNames
  <1> HIDE DEF names
  <1>2. Local!ToSet(names) = {names[i] : i \in 1..3}
    BY <1>1, Zenon DEF Local!ToSet
  <1>3. \A i \in 1..3 : i = 1 \/ i = 2 \/ i = 3
    OBVIOUS
  <1>4. \A i, j \in 1..3 : names[i] = names[j] => i = j
    BY <1>1, <1>3
  <1>5. \A i \in 1..3 : NameAt(names[i]) = i
    BY <1>4 DEF NameAt, names
  <1>6. \A i \in 1..3 : names[i] \notin {".git", ".claude.json", ".mcp.json", "skills"}
    BY <1>1, <1>3
  <1> QED
    BY <1>1, <1>2, <1>5, <1>6 DEF names

\* Places are numbers, and a file is known by its place.
LEMMA PlacesAre ==
  ASSUME NEW d \in Nat, NEW i \in 1..3
  PROVE  PlaceOf(<<d, Local!InstructionNames[i]>>) = 4 * d + i
  <1> DEFINE l == <<d, Local!InstructionNames[i]>>
  <1>1. l[1] = d /\ l[2] = Local!InstructionNames[i]
    OBVIOUS
  <1>2. NameAt(l[2]) = i
    BY <1>1, SourceNames
  <1> HIDE DEF l
  <1>3. PlaceOf(l) = 4 * d + i
    BY <1>1, <1>2 DEF PlaceOf
  <1> QED
    BY <1>3 DEF l

\* The instruction sources of a tree.
LEMMA FoundIs ==
  ASSUME NEW tree, Local!RootOf(tree) \in 0..Depth
  PROVE  /\ IsFiniteSet(LocalFound(tree))
         /\ \A l \in LocalFound(tree) :
              \E d \in 0..Depth, i \in 1..3 :
                /\ l = <<d, Local!InstructionNames[i]>> /\ PlaceOf(l) = 4 * d + i
                /\ d = 0 => i = 1
                /\ d = 0 \/ Local!FirstDirectory(Local!RootOf(tree)) <= d
  <1> DEFINE first == Local!FirstDirectory(Local!RootOf(tree))
             names == Local!ToSet(Local!InstructionNames)
             some == {<<0, "CLAUDE.md">>} \cup ((0..Depth) \X names)
  <1>1. Depth \in Nat \ {0} /\ first \in 1..Depth
    BY CommandAssumption DEF Local!FirstDirectory
  <1>2. Local!Project(tree) = first..Depth
    BY DEF Local!Project
  <1> HIDE DEF first
  <1>3. IsFiniteSet(some)
    <2>1. names = ({Local!InstructionNames[1]} \cup {Local!InstructionNames[2]})
                    \cup {Local!InstructionNames[3]}
      <3>1. \A i : i \in 1..3 <=> i = 1 \/ i = 2 \/ i = 3
        OBVIOUS
      <3> QED
        BY <3>1, SourceNames
    <2>2. IsFiniteSet(0..Depth)
      <3>1. 0 \in Int /\ Depth \in Int
        BY <1>1
      <3> QED
        BY <3>1, FS_Interval
    <2>3. IsFiniteSet(names)
      <3>1. \A x : IsFiniteSet({x})
        BY FS_Singleton
      <3>2. \A S, T : IsFiniteSet(S) /\ IsFiniteSet(T) => IsFiniteSet(S \cup T)
        BY FS_Union
      <3> HIDE DEF names
      <3> QED
        BY <2>1, <3>1, <3>2
    <2>4. IsFiniteSet((0..Depth) \X names)
      BY <2>2, <2>3, FS_Product
    <2>5. IsFiniteSet({<<0, "CLAUDE.md">>})
      BY FS_Singleton
    <2> QED
      BY <2>4, <2>5, FS_Union
  <1>4. LocalFound(tree) \subseteq some
    <2>1. first..Depth \subseteq 0..Depth
      BY <1>1
    <2> QED
      BY <1>2, <2>1 DEF LocalFound
  <1>5. IsFiniteSet(LocalFound(tree))
    BY <1>3, <1>4, FS_Subset
  <1>6. ASSUME NEW l \in LocalFound(tree)
        PROVE  \E d \in 0..Depth, i \in 1..3 :
                 /\ l = <<d, Local!InstructionNames[i]>> /\ PlaceOf(l) = 4 * d + i
                 /\ d = 0 => i = 1
                 /\ d = 0 \/ first <= d
    <2>1. l = <<0, "CLAUDE.md">> \/ l \in (first..Depth) \X names
      BY <1>2 DEF LocalFound
    <2>2. CASE l = <<0, "CLAUDE.md">>
      <3>1. 0 \in 0..Depth /\ 0 \in Nat /\ 1 \in 1..3
        BY <1>1
      <3>2. l = <<0, Local!InstructionNames[1]>>
        BY <2>2, SourceNames
      <3>3. PlaceOf(l) = 4 * 0 + 1
        BY <3>1, <3>2, PlacesAre
      <3> QED
        BY <3>1, <3>2, <3>3, Zenon
    <2>3. CASE l \in (first..Depth) \X names
      <3>1. PICK d \in first..Depth, name \in names : l = <<d, name>>
        BY <2>3
      <3>2. PICK i \in 1..3 : name = Local!InstructionNames[i]
        BY SourceNames
      <3>3. d \in 0..Depth /\ d # 0 /\ first <= d /\ d \in Nat
        BY <1>1
      <3>4. PlaceOf(l) = 4 * d + i
        BY <3>1, <3>2, <3>3, PlacesAre
      <3> QED
        BY <3>1, <3>2, <3>3, <3>4, Zenon
    <2> QED
      BY <2>1, <2>2, <2>3
  <1> QED
    BY <1>5, <1>6 DEF first

LEMMA PlaceUnique ==
  ASSUME NEW tree, Local!RootOf(tree) \in 0..Depth,
         NEW l \in LocalFound(tree), NEW m \in LocalFound(tree)
  PROVE  /\ PlaceOf(l) \in Nat
         /\ PlaceOf(l) = PlaceOf(m) => l = m
         /\ Local!Before(l, m) <=> PlaceOf(l) <= PlaceOf(m)
  <1>1. PICK d \in 0..Depth, i \in 1..3 :
          l = <<d, Local!InstructionNames[i]>> /\ PlaceOf(l) = 4 * d + i
    BY FoundIs
  <1>2. PICK e \in 0..Depth, j \in 1..3 :
          m = <<e, Local!InstructionNames[j]>> /\ PlaceOf(m) = 4 * e + j
    BY FoundIs
  <1>3. Depth \in Nat
    BY CommandAssumption
  <1>4. PlaceOf(l) = PlaceOf(m) => l = m
    <2>1. PlaceOf(l) = PlaceOf(m) => d = e /\ i = j
      BY <1>1, <1>2, <1>3
    <2> QED
      BY <1>1, <1>2, <2>1
  <1>5. Local!Before(l, m) <=> PlaceOf(l) <= PlaceOf(m)
    <2>1. l[1] = d /\ m[1] = e /\ NameAt(l[2]) = i /\ NameAt(m[2]) = j
      BY <1>1, <1>2, SourceNames
    <2>2. Local!Before(l, m) <=> l[1] < m[1] \/ (l[1] = m[1] /\ NameAt(l[2]) <= NameAt(m[2]))
      BY Zenon DEF Local!Before, NameAt
    <2>3. Local!Before(l, m) <=> d < e \/ (d = e /\ i <= j)
      BY <2>1, <2>2
    <2> QED
      BY <1>1, <1>2, <1>3, <2>3
  <1> QED
    BY <1>1, <1>3, <1>4, <1>5

\* The source at a rank.
LEMMA SourceIs ==
  ASSUME NEW tree, Local!RootOf(tree) \in 0..Depth, NEW l \in LocalFound(tree)
  PROVE  LET k == Cardinality({m \in LocalFound(tree) : PlaceOf(m) < PlaceOf(l)})
         IN  /\ k \in Nat /\ k + 1 <= Cardinality(LocalFound(tree))
             /\ Local!SourcesOf(tree)[k + 1] = l
             /\ Cardinality({m \in LocalFound(tree) : PlaceOf(m) < PlaceOf(l)} \cup {l}) = k + 1
  <1> DEFINE F == LocalFound(tree)
             L == {m \in F : PlaceOf(m) < PlaceOf(l)}
             below == [x \in F |-> {m \in F : PlaceOf(m) <= PlaceOf(x)}]
             k == Cardinality(L)
             Ranked(i) == CHOOSE x \in F : Local!Cardinality({m \in F : Local!Before(m, x)}) = i
  <1>1. IsFiniteSet(F)
    BY FoundIs
  <1>2. /\ \A x \in F : PlaceOf(x) \in Nat
        /\ \A x, y \in F : PlaceOf(x) = PlaceOf(y) => x = y
        /\ \A x, y \in F : Local!Before(x, y) <=> PlaceOf(x) <= PlaceOf(y)
    BY PlaceUnique
  <1>3. Local!SourcesOf(tree) = [i \in 1..Cardinality(F) |-> Ranked(i)]
    BY LocalSets DEF Local!SourcesOf, LocalFound
  <1> HIDE DEF F
  <1>4. L \in SUBSET F /\ l \in F /\ l \notin L /\ L \cup {l} \in SUBSET F
    <2>1. l \in F
      BY DEF F
    <2> QED
      BY <1>2, <2>1
  <1>5. below[l] = L \cup {l}
    <2>1. \A m \in F : PlaceOf(m) <= PlaceOf(l) <=> PlaceOf(m) < PlaceOf(l) \/ m = l
      BY <1>2, <1>4
    <2> QED
      BY <1>4, <2>1
  <1>6. Chain(F, below)
    <2>1. below \in [F -> SUBSET F]
      OBVIOUS
    <2>2. \A x \in F : below[x] = {m \in F : PlaceOf(m) <= PlaceOf(x)}
      OBVIOUS
    <2> HIDE DEF below
    <2>3. \A x \in F : x \in below[x]
      BY <1>2, <2>2
    <2>4. \A x, y \in F : below[x] \subseteq below[y] \/ below[y] \subseteq below[x]
      <3>1. ASSUME NEW x \in F, NEW y \in F, PlaceOf(x) <= PlaceOf(y)
            PROVE  below[x] \subseteq below[y]
        BY <1>2, <2>2, <3>1
      <3>2. \A x, y \in F : PlaceOf(x) <= PlaceOf(y) \/ PlaceOf(y) <= PlaceOf(x)
        BY <1>2
      <3> QED
        BY <3>1, <3>2
    <2>5. \A x, y \in F : x \in below[y] /\ y \in below[x] => x = y
      BY <1>2, <2>2
    <2> QED
      BY <2>1, <2>3, <2>4, <2>5 DEF Chain
  <1>7. /\ IsFiniteSet(L) /\ k \in Nat
        /\ Cardinality(L \cup {l}) = k + 1 /\ k + 1 <= Cardinality(F)
        /\ Cardinality(F) \in Nat
    <2> HIDE DEF L
    <2>1. IsFiniteSet(L) /\ IsFiniteSet(L \cup {l})
      BY <1>1, <1>4, FS_Subset
    <2>2. Cardinality(L) \in Nat /\ Cardinality(F) \in Nat
      BY <1>1, <2>1, FS_CardinalityType
    <2>3. Cardinality(L \cup {l}) = Cardinality(L) + 1
      BY <1>4, <2>1, FS_AddElement
    <2>4. Cardinality(L \cup {l}) <= Cardinality(F)
      BY <1>1, <1>4, FS_Subset
    <2> QED
      BY <2>1, <2>2, <2>3, <2>4
  <1>8. Ranked(k + 1) = l
    <2>1. \A x \in F : {m \in F : Local!Before(m, x)} = below[x]
      BY <1>2
    <2>2. \A x \in F : Local!Cardinality({m \in F : Local!Before(m, x)}) = Cardinality(below[x])
      BY <2>1, LocalSets
    <2>3. Local!Cardinality({m \in F : Local!Before(m, l)}) = k + 1
      BY <1>4, <1>5, <1>7, <2>2
    <2>4. /\ Ranked(k + 1) \in F
          /\ Local!Cardinality({m \in F : Local!Before(m, Ranked(k + 1))}) = k + 1
      <3> HIDE DEF k
      <3> QED
        BY <1>4, <2>3, Zenon
    <2> HIDE DEF Ranked, below
    <2>5. Cardinality(below[Ranked(k + 1)]) = Cardinality(below[l])
      BY <1>4, <2>2, <2>3, <2>4
    <2> QED
      BY <1>1, <1>4, <1>6, <2>4, <2>5, RankUnique
  <1>9. k + 1 \in 1..Cardinality(F)
    <2> HIDE DEF k
    <2> QED
      BY <1>7
  <1>10. Local!SourcesOf(tree)[k + 1] = l
    <2> HIDE DEF k, Ranked
    <2> QED
      BY <1>3, <1>8, <1>9
  <1> QED
    BY <1>7, <1>10 DEF F

\* A directory that is found to be the root is the tree's.
LEMMA LocalRootAgrees ==
  ASSUME LocalInv, LocalShape, Local!FindRoot, NEW tree,
         tree[<<seen.dir, ".git">>] = world.now[<<seen.dir, ".git">>], LocalAgree(tree)
  PROVE  LocalAgree(tree)'
  <1> DEFINE m == tree[<<seen.dir, ".git">>]
             S == {0} \cup {d \in 1..Depth : tree[<<d, ".git">>] # Absent}
  <1>1. Depth \in Nat \ {0} /\ seen.dir \in 1..Depth /\ pc = "root"
    BY CommandAssumption DEF LocalInv, LocalShape, Local!FindRoot
  <1>2. \A d \in 1..Depth : d > seen.dir => tree[<<d, ".git">>] = Absent
    BY <1>1 DEF LocalAgree
  <1>3. IF m = Absent /\ seen.dir > 1
        THEN seen' = [seen EXCEPT !.dir = seen.dir - 1] /\ pc' = pc
        ELSE /\ seen' = [seen EXCEPT !.root = IF m = Absent THEN 0 ELSE seen.dir]
             /\ pc' = "config"
    BY Zenon DEF Local!FindRoot, Local!File
  <1>4. CASE m = Absent /\ seen.dir > 1
    <2>1. seen'.dir = seen.dir - 1 /\ pc' = "root"
      BY <1>1, <1>3, <1>4 DEF LocalInv
    <2>2. \A d \in 1..Depth : d > seen.dir - 1 => d > seen.dir \/ d = seen.dir
      BY <1>1
    <2> QED
      BY <1>2, <1>4, <2>1, <2>2 DEF LocalAgree
  <1>5. CASE ~(m = Absent /\ seen.dir > 1)
    <2> DEFINE r == IF m = Absent THEN 0 ELSE seen.dir
    <2>1. seen'.root = r /\ pc' = "config"
      BY <1>3, <1>5 DEF LocalInv
    <2>2. S \in SUBSET Int /\ r \in S /\ \A x \in S : x <= r
      <3>1. CASE m = Absent
        <4>1. seen.dir = 1
          BY <1>1, <1>5, <3>1
        <4>2. \A d \in 1..Depth : d > 1 \/ d = 1
          BY <1>1
        <4>3. S = {0}
          BY <1>2, <3>1, <4>1, <4>2
        <4> QED
          BY <3>1, <4>3
      <3>2. CASE m # Absent
        BY <1>1, <1>2, <3>2
      <3> QED
        BY <3>1, <3>2
    <2>3. Local!RootOf(tree) = Local!Max(S)
      BY DEF Local!RootOf
    <2> HIDE DEF r, S
    <2>4. Local!RootOf(tree) = r
      BY <2>2, <2>3, MaxIs
    <2> QED
      BY <2>1, <2>4 DEF LocalAgree, LocalAtConfig
  <1> QED
    BY <1>4, <1>5

\* The parts of a report.
LEMMA ReportIs ==
  ASSUME NEW tree
  PROVE  LET c == IF Local!Readable(tree[<<0, ".claude.json">>])
                  THEN tree[<<0, ".claude.json">>] ELSE Local!NoGlobal
             mcp == tree[<<Local!FirstDirectory(Local!RootOf(tree)), ".mcp.json">>]
         IN  Local!ReportOf(tree) =
               [root |-> Local!RootOf(tree),
                user |-> c.user,
                local |-> Local!LocalServers(c),
                project |-> IF Local!Readable(mcp) THEN mcp ELSE 0,
                personalSkills |-> Cardinality(Local!SkillsIn(tree, 0) \ {"stray"}),
                projectSkills |-> Cardinality(SkillsBelow(tree, Depth + 1)),
                sources |-> Local!SourcesOf(tree)]
  <1> DEFINE c == IF Local!Readable(tree[<<0, ".claude.json">>])
                  THEN tree[<<0, ".claude.json">>] ELSE Local!NoGlobal
             mcp == tree[<<Local!FirstDirectory(Local!RootOf(tree)), ".mcp.json">>]
             entries == IF c.exact # {} THEN c.exact
                        ELSE IF c.canonical # {} THEN c.canonical ELSE {0}
             all == UNION {{d} \X (Local!SkillsIn(tree, d) \ {"stray"}) : d \in Local!Project(tree)}
  <1>1. Local!ReportOf(tree) =
          [root |-> Local!RootOf(tree), user |-> c.user,
           local |-> CHOOSE n \in entries : TRUE,
           project |-> IF Local!Readable(mcp) THEN mcp ELSE 0,
           personalSkills |-> Cardinality(Local!SkillsIn(tree, 0) \ {"stray"}),
           projectSkills |-> Cardinality(all),
           sources |-> Local!SourcesOf(tree)]
    BY LocalSets DEF Local!ReportOf
  <1> HIDE DEF c
  <1>2. Local!LocalServers(c) = CHOOSE n \in entries : TRUE
    <2> DEFINE key == IF c.exact # {} THEN "exact" ELSE IF c.canonical # {} THEN "canonical"
                      ELSE "none"
               matching == CASE key = "exact" -> c.exact [] key = "canonical" -> c.canonical
                             [] OTHER -> {0}
    <2>1. Local!LocalServers(c) = CHOOSE n \in matching : TRUE
      BY Zenon DEF Local!LocalServers, Local!MatchingKey
    <2>2. matching = entries
      OBVIOUS
    <2> QED
      BY <2>1, <2>2
  <1>3. all = SkillsBelow(tree, Depth + 1)
    <2>1. Local!Project(tree) = Local!FirstDirectory(Local!RootOf(tree))..Depth
      BY DEF Local!Project
    <2>2. Depth \in Nat
      BY CommandAssumption
    <2>3. \A d \in Local!Project(tree) : d < Depth + 1
      BY <2>1, <2>2
    <2>4. {x \in Local!Project(tree) : x < Depth + 1} = Local!Project(tree)
      BY <2>3
    <2> QED
      BY <2>4 DEF SkillsBelow
  <1> HIDE DEF entries, all, mcp
  <1>4. Local!ReportOf(tree) =
          [root |-> Local!RootOf(tree), user |-> c.user,
           local |-> Local!LocalServers(c),
           project |-> IF Local!Readable(mcp) THEN mcp ELSE 0,
           personalSkills |-> Cardinality(Local!SkillsIn(tree, 0) \ {"stray"}),
           projectSkills |-> Cardinality(SkillsBelow(tree, Depth + 1)),
           sources |-> Local!SourcesOf(tree)]
    BY <1>1, <1>2, <1>3
  <1> QED
    BY <1>4 DEF c, mcp

\* The global configuration is read.
LEMMA GlobalAgrees ==
  ASSUME LocalInv, LocalShape, Local!ReadConfig, NEW tree,
         tree[<<0, ".claude.json">>] = world.now[<<0, ".claude.json">>], LocalAgree(tree)
  PROVE  LocalAgree(tree)'
  <1> DEFINE x == tree[<<0, ".claude.json">>]
             c == IF Local!Readable(x) THEN x ELSE Local!NoGlobal
  <1>1. x \notin {Denied, Bad} /\ pc = "config" /\ pc' = "mcp"
    BY DEF Local!ReadConfig, Local!File
  <1>2. c = IF x = Absent THEN Local!NoGlobal ELSE x
    BY <1>1 DEF Local!Readable
  <1>3. seen' = [seen EXCEPT !.user = (IF x = Absent THEN Local!NoGlobal ELSE x).user,
                             !.key = Local!MatchingKey(IF x = Absent THEN Local!NoGlobal ELSE x),
                             !.local = Local!LocalServers(IF x = Absent THEN Local!NoGlobal ELSE x)]
    BY Zenon DEF Local!ReadConfig, Local!File
  <1>4. Local!ReportOf(tree).user = c.user /\ Local!ReportOf(tree).local = Local!LocalServers(c)
    BY ReportIs
  <1> HIDE DEF c
  <1>5. seen' = [seen EXCEPT !.user = c.user, !.key = Local!MatchingKey(c),
                             !.local = Local!LocalServers(c)]
    BY <1>2, <1>3
  <1>6. seen'.user = c.user /\ seen'.local = Local!LocalServers(c) /\ seen'.root = seen.root
    BY <1>5 DEF LocalInv
  <1>7. seen.root = Local!RootOf(tree)
    BY <1>1 DEF LocalAgree, LocalAtConfig
  <1> QED
    BY <1>1, <1>4, <1>6, <1>7 DEF LocalAgree, LocalAtConfig, LocalAtMcp

\* The project's servers are counted, and no skill is yet.
LEMMA McpAgrees ==
  ASSUME LocalInv, LocalShape, Local!ReadMcp, NEW tree,
         tree[<<Local!FirstDirectory(seen.root), ".mcp.json">>]
           = world.now[<<Local!FirstDirectory(seen.root), ".mcp.json">>],
         LocalAgree(tree)
  PROVE  LocalAgree(tree)'
  <1> DEFINE x == tree[<<Local!FirstDirectory(seen.root), ".mcp.json">>]
             n == IF x = Absent THEN 0 ELSE x
  <1>1. x \notin {Denied, Bad} /\ pc = "mcp" /\ pc' = "skills"
    BY DEF Local!ReadMcp, Local!File
  <1>2. seen' = [seen EXCEPT !.project = n, !.dir = 0]
    BY Zenon DEF Local!ReadMcp, Local!File
  <1>3. LocalAtConfig(tree) /\ LocalAtMcp(tree)
    BY <1>1 DEF LocalAgree
  <1>4. seen.root = Local!RootOf(tree) /\ seen.projectSkills = 0
    BY <1>1, <1>3 DEF LocalAtConfig, LocalShape
  <1>5. Local!ReportOf(tree).project = IF Local!Readable(x) THEN x ELSE 0
    BY <1>4, ReportIs
  <1>6. Local!ReportOf(tree).project = n
    BY <1>1, <1>5 DEF Local!Readable
  <1>7. SkillsBelow(tree, 0) = {}
    <2>1. Depth \in Nat \ {0} /\ seen.root \in 0..Depth
      BY CommandAssumption DEF LocalInv
    <2>2. Local!Project(tree) = Local!FirstDirectory(seen.root)..Depth
      BY <1>4 DEF Local!Project
    <2>3. \A d \in Local!Project(tree) : ~(d < 0)
      BY <2>1, <2>2 DEF Local!FirstDirectory
    <2>4. {d \in Local!Project(tree) : d < 0} = {}
      BY <2>3
    <2> QED
      BY <2>4 DEF SkillsBelow
  <1>8. IsFiniteSet({}) /\ Cardinality({}) = 0
    BY FS_EmptySet
  <1> HIDE DEF n
  <1>9. /\ seen'.project = n /\ seen'.dir = 0 /\ seen'.projectSkills = 0
        /\ seen'.root = seen.root /\ seen'.user = seen.user /\ seen'.local = seen.local
    BY <1>2, <1>4 DEF LocalInv
  <1>10. LocalAtConfig(tree)' /\ LocalAtMcp(tree)'
    BY <1>3, <1>9 DEF LocalAtConfig, LocalAtMcp
  <1>11. LocalAtSkills(tree)'
    BY <1>6, <1>7, <1>8, <1>9 DEF LocalAtSkills
  <1> QED
    BY <1>1, <1>10, <1>11 DEF LocalAgree

\* The manifests in a directory.
LEMMA ManifestsAre ==
  ASSUME NEW tree, Local!IsTree(tree), NEW d \in 0..Depth,
         ~Local!CannotCount(tree[<<d, "skills">>])
  PROVE  /\ IsFiniteSet(Local!SkillsIn(tree, d) \ {"stray"})
         /\ Local!Manifests(tree[<<d, "skills">>])
              = Cardinality(Local!SkillsIn(tree, d) \ {"stray"})
  <1> DEFINE l == <<d, "skills">>
             x == tree[l]
  <1>1. l \in Local!Files /\ l[2] = "skills"
    BY Zenon DEF Local!Files
  <1>2. x # Bad /\ (x \in {Absent, Denied} \/ IsFiniteSet(x))
    <2>1. Local!IsContent(l, x)
      BY <1>1 DEF Local!IsTree
    <2> HIDE DEF l
    <2> QED
      BY <1>1, <2>1, LocalSets, Zenon DEF Local!IsContent
  <1>3. x # Denied
    BY DEF Local!CannotCount
  <1>4. Local!SkillsIn(tree, d) = IF x = Absent THEN {} ELSE x
    BY <1>2, <1>3 DEF Local!SkillsIn, Local!Readable
  <1>5. IsFiniteSet({}) /\ Cardinality({}) = 0 /\ {} \ {"stray"} = {}
    BY FS_EmptySet
  <1>6. Local!Manifests(x) = IF x = Absent THEN 0 ELSE Cardinality(x \ {"stray"})
    BY LocalSets DEF Local!Manifests
  <1> HIDE DEF x
  <1>7. x # Absent => IsFiniteSet(x \ {"stray"})
    BY <1>2, <1>3, FS_Difference
  <1>8. /\ IsFiniteSet(Local!SkillsIn(tree, d) \ {"stray"})
        /\ Local!Manifests(x) = Cardinality(Local!SkillsIn(tree, d) \ {"stray"})
    BY <1>4, <1>5, <1>6, <1>7
  <1> QED
    BY <1>8 DEF x, l

\* One more directory adds its manifests.
LEMMA SkillsGrow ==
  ASSUME NEW tree, Local!RootOf(tree) \in 0..Depth, NEW d \in 0..Depth,
         Local!FirstDirectory(Local!RootOf(tree)) <= d,
         IsFiniteSet(Local!SkillsIn(tree, d) \ {"stray"}), IsFiniteSet(SkillsBelow(tree, d))
  PROVE  /\ IsFiniteSet(SkillsBelow(tree, d + 1))
         /\ Cardinality(SkillsBelow(tree, d + 1))
              = Cardinality(SkillsBelow(tree, d)) + Cardinality(Local!SkillsIn(tree, d) \ {"stray"})
  <1> DEFINE first == Local!FirstDirectory(Local!RootOf(tree))
             E == Local!SkillsIn(tree, d) \ {"stray"}
             Of(x) == {x} \X (Local!SkillsIn(tree, x) \ {"stray"})
             P(e) == {x \in Local!Project(tree) : x < e}
  <1>1. Depth \in Nat \ {0} /\ first \in 1..Depth /\ Local!Project(tree) = first..Depth
    BY CommandAssumption DEF Local!FirstDirectory, Local!Project
  <1>2. \A e : SkillsBelow(tree, e) = UNION {Of(x) : x \in P(e)}
    BY Zenon DEF SkillsBelow
  <1>3. P(d + 1) = P(d) \cup {d} /\ d \notin P(d)
    <2>1. \A x \in first..Depth : x < d + 1 <=> x < d \/ x = d
      BY <1>1
    <2>2. d \in first..Depth
      BY <1>1
    <2> HIDE DEF first
    <2> QED
      BY <1>1, <2>1, <2>2
  <1> HIDE DEF P
  <1>4. SkillsBelow(tree, d + 1) = SkillsBelow(tree, d) \cup Of(d)
    <2> HIDE DEF Of
    <2>1. UNION {Of(x) : x \in P(d) \cup {d}} = (UNION {Of(x) : x \in P(d)}) \cup Of(d)
      OBVIOUS
    <2> QED
      BY <1>2, <1>3, <2>1
  <1>5. SkillsBelow(tree, d) \cap Of(d) = {}
    <2>1. \A p \in SkillsBelow(tree, d) : p[1] \in P(d)
      BY <1>2
    <2>2. \A p \in Of(d) : p[1] = d
      OBVIOUS
    <2> HIDE DEF Of
    <2> QED
      BY <1>3, <2>1, <2>2
  <1>6. IsFiniteSet({d}) /\ Cardinality({d}) = 1 /\ IsFiniteSet(E)
    BY FS_Singleton
  <1>7. Cardinality(E) \in Nat
    BY <1>6, FS_CardinalityType
  <1>8. IsFiniteSet(Of(d)) /\ Cardinality(Of(d)) = Cardinality(E)
    <2>1. IsFiniteSet({d} \X E) /\ Cardinality({d} \X E) = Cardinality({d}) * Cardinality(E)
      BY <1>6, FS_Product
    <2> HIDE DEF E
    <2>2. Cardinality({d}) * Cardinality(E) = Cardinality(E)
      BY <1>6, <1>7
    <2> QED
      BY <2>1, <2>2 DEF E
  <1> HIDE DEF Of, E
  <1>9. /\ IsFiniteSet(SkillsBelow(tree, d) \cup Of(d))
        /\ Cardinality(SkillsBelow(tree, d) \cup Of(d))
             = Cardinality(SkillsBelow(tree, d)) + Cardinality(Of(d)) - Cardinality({})
    BY <1>5, <1>8, FS_Union
  <1>10. Cardinality({}) = 0 /\ Cardinality(SkillsBelow(tree, d)) \in Nat
    BY FS_EmptySet, FS_CardinalityType
  <1>11. /\ IsFiniteSet(SkillsBelow(tree, d + 1))
         /\ Cardinality(SkillsBelow(tree, d + 1)) = Cardinality(SkillsBelow(tree, d)) + Cardinality(E)
    <2>1. Cardinality(SkillsBelow(tree, d) \cup Of(d))
            = Cardinality(SkillsBelow(tree, d)) + Cardinality(E)
      BY <1>7, <1>8, <1>9, <1>10
    <2> QED
      BY <1>4, <1>9, <2>1
  <1> QED
    BY <1>11 DEF E

\* The skills of a directory are counted.
LEMMA SkillsAgree ==
  ASSUME LocalInv, LocalShape, Local!ReadSkills, NEW tree, Local!IsTree(tree),
         tree[<<seen.dir, "skills">>] = world.now[<<seen.dir, "skills">>], LocalAgree(tree)
  PROVE  LocalAgree(tree)'
  <1> DEFINE x == tree[<<seen.dir, "skills">>]
             n == Local!Manifests(x)
             first == Local!FirstDirectory(seen.root)
             next == Local!NextDirectory(seen.dir)
             personal == IF seen.dir = 0 THEN n ELSE seen.personalSkills
             project == IF seen.dir = 0 THEN seen.projectSkills ELSE seen.projectSkills + n
             dir == IF seen.dir = Depth THEN 0 ELSE next
  <1>1. /\ ~Local!CannotCount(x) /\ pc = "skills"
        /\ pc' = IF seen.dir = Depth THEN "instructions" ELSE "skills"
    BY DEF Local!ReadSkills, Local!File
  <1>2. seen' = [seen EXCEPT !.personalSkills = personal, !.projectSkills = project, !.dir = dir]
    BY Zenon DEF Local!ReadSkills, Local!File
  <1>3. LocalAtConfig(tree) /\ LocalAtMcp(tree) /\ LocalAtSkills(tree)
    BY <1>1 DEF LocalAgree
  <1>4. /\ Depth \in Nat \ {0} /\ seen.dir \in 0..Depth /\ seen.root \in 0..Depth
        /\ seen.root = Local!RootOf(tree) /\ first \in 1..Depth
        /\ next = IF seen.dir = 0 THEN first ELSE seen.dir + 1
        /\ seen.dir = 0 \/ first <= seen.dir
        /\ seen.sources = << >> /\ seen.file = 1 /\ (seen.dir = 0 => seen.projectSkills = 0)
    BY <1>1, <1>3, CommandAssumption, SMTT(30)
       DEF LocalInv, LocalShape, LocalAtConfig, Local!FirstDirectory, Local!NextDirectory
  <1>5. /\ IsFiniteSet(Local!SkillsIn(tree, seen.dir) \ {"stray"})
        /\ n = Cardinality(Local!SkillsIn(tree, seen.dir) \ {"stray"})
    BY <1>1, <1>4, ManifestsAre
  <1>6. /\ seen.project = Local!ReportOf(tree).project
        /\ seen.dir # 0 => seen.personalSkills = Local!ReportOf(tree).personalSkills
        /\ IsFiniteSet(SkillsBelow(tree, seen.dir))
        /\ seen.projectSkills = Cardinality(SkillsBelow(tree, seen.dir))
    BY <1>3 DEF LocalAtSkills
  <1>7. personal = Local!ReportOf(tree).personalSkills
    <2>1. Local!ReportOf(tree).personalSkills = Cardinality(Local!SkillsIn(tree, 0) \ {"stray"})
      BY ReportIs
    <2> QED
      BY <1>5, <1>6, <2>1
  <1>8. seen.dir # 0 => /\ IsFiniteSet(SkillsBelow(tree, seen.dir + 1))
                        /\ project = Cardinality(SkillsBelow(tree, seen.dir + 1))
    <2> SUFFICES ASSUME seen.dir # 0
                 PROVE  /\ IsFiniteSet(SkillsBelow(tree, seen.dir + 1))
                        /\ project = Cardinality(SkillsBelow(tree, seen.dir + 1))
      OBVIOUS
    <2>1. Local!FirstDirectory(Local!RootOf(tree)) <= seen.dir
      BY <1>4
    <2>2. project = seen.projectSkills + n
      OBVIOUS
    <2> QED
      BY <1>4, <1>5, <1>6, <2>1, <2>2, SkillsGrow
  <1>9. seen.dir = 0 => SkillsBelow(tree, first) = {} /\ project = 0
    <2>1. Local!Project(tree) = first..Depth
      BY <1>4 DEF Local!Project
    <2> HIDE DEF first
    <2>2. {d \in Local!Project(tree) : d < first} = {}
      BY <1>4, <2>1
    <2> QED
      BY <1>4, <2>2 DEF SkillsBelow
  <1> HIDE DEF personal, project, first, next, n, x
  <1>10. /\ seen'.personalSkills = personal /\ seen'.projectSkills = project /\ seen'.dir = dir
         /\ seen'.root = seen.root /\ seen'.user = seen.user /\ seen'.local = seen.local
         /\ seen'.project = seen.project /\ seen'.sources = seen.sources /\ seen'.file = seen.file
    <2> HIDE DEF dir
    <2> QED
      BY <1>2 DEF LocalInv
  <1>11. LocalAtConfig(tree)' /\ LocalAtMcp(tree)'
    BY <1>3, <1>10 DEF LocalAtConfig, LocalAtMcp
  <1>12. CASE seen.dir # Depth
    <2>1. IsFiniteSet(SkillsBelow(tree, next)) /\ project = Cardinality(SkillsBelow(tree, next))
      BY <1>4, <1>8, <1>9, FS_EmptySet
    <2>2. dir = next /\ pc' = "skills"
      BY <1>1, <1>12
    <2>3. LocalAtSkills(tree)'
      BY <1>6, <1>7, <1>10, <2>1, <2>2 DEF LocalAtSkills
    <2> QED
      BY <1>11, <2>2, <2>3 DEF LocalAgree
  <1>13. CASE seen.dir = Depth
    <2>1. project = Local!ReportOf(tree).projectSkills
      <3>1. Local!ReportOf(tree).projectSkills = Cardinality(SkillsBelow(tree, Depth + 1))
        BY ReportIs
      <3> QED
        BY <1>4, <1>8, <1>13, <3>1, SMTT(30)
    <2>2. dir = 0 /\ pc' = "instructions"
      BY <1>1, <1>13
    <2>3. {l \in LocalFound(tree) : PlaceOf(l) < Place'} = {}
      <3>1. Place' = 1
        BY <1>4, <1>10, <2>2 DEF Place
      <3>2. \A l \in LocalFound(tree) : ~(PlaceOf(l) < 1)
        <4> TAKE l \in LocalFound(tree)
        <4>1. PICK d \in 0..Depth, i \in 1..3 : PlaceOf(l) = 4 * d + i
          BY <1>4, FoundIs
        <4> QED
          BY <1>4, <4>1
      <3> QED
        BY <3>1, <3>2
    <2>4. Len(<< >>) = 0 /\ \A i \in 1..0 : FALSE
      OBVIOUS
    <2>5. LocalAtInstructions(tree)'
      BY <1>4, <1>6, <1>7, <1>10, <2>1, <2>3, <2>4, FS_EmptySet DEF LocalAtInstructions
    <2> QED
      BY <1>11, <2>2, <2>5 DEF LocalAgree
  <1> QED
    BY <1>12, <1>13

\* An instruction source is added if there is one.
LEMMA InstructionAgrees ==
  ASSUME LocalInv, LocalShape, Local!ReadInstruction, NEW tree, Local!IsTree(tree),
         tree[<<seen.dir, Local!InstructionNames[seen.file]>>]
           = world.now[<<seen.dir, Local!InstructionNames[seen.file]>>],
         LocalAgree(tree)
  PROVE  LocalAgree(tree)'
  <1> DEFINE name == Local!InstructionNames[seen.file]
             l == <<seen.dir, name>>
             last == seen.dir = 0 \/ seen.file = 3
             first == Local!FirstDirectory(seen.root)
             next == Local!NextDirectory(seen.dir)
             sources == IF tree[l] = Absent THEN seen.sources ELSE Append(seen.sources, l)
             file == IF last THEN 1 ELSE seen.file + 1
             dir == IF last THEN next ELSE seen.dir
             F == LocalFound(tree)
             L == {m \in F : PlaceOf(m) < Place}
             k == Len(seen.sources)
  <1>1. pc = "instructions" /\ pc' = pc /\ seen.dir <= Depth /\ tree[l] # Denied
    BY Zenon DEF Local!ReadInstruction, Local!File
  <1>2. seen' = [seen EXCEPT !.sources = sources, !.file = file, !.dir = dir]
    BY Zenon DEF Local!ReadInstruction, Local!File
  <1>3. LocalAtConfig(tree) /\ LocalAtMcp(tree) /\ LocalAtInstructions(tree)
    BY <1>1 DEF LocalAgree
  <1>4. /\ Depth \in Nat \ {0} /\ seen.dir \in 0..Depth /\ seen.root \in 0..Depth
        /\ seen.root = Local!RootOf(tree) /\ first \in 1..Depth
        /\ next = IF seen.dir = 0 THEN first ELSE seen.dir + 1
        /\ seen.dir = 0 \/ first <= seen.dir
        /\ seen.file \in 1..3 /\ (seen.dir = 0 => seen.file = 1)
        /\ seen.sources \in Seq(Local!Files)
    BY <1>1, <1>3, CommandAssumption, SMTT(30)
       DEF LocalInv, LocalShape, LocalAtConfig, Local!FirstDirectory, Local!NextDirectory
  <1>5. /\ seen.project = Local!ReportOf(tree).project
        /\ seen.personalSkills = Local!ReportOf(tree).personalSkills
        /\ seen.projectSkills = Local!ReportOf(tree).projectSkills
        /\ k = Cardinality(L)
        /\ \A i \in 1..k : seen.sources[i] = Local!SourcesOf(tree)[i]
    BY <1>3 DEF LocalAtInstructions
  <1>6. PlaceOf(l) = Place
    <2>1. seen.dir \in Nat /\ seen.file \in 1..3
      BY <1>4
    <2>2. PlaceOf(l) = 4 * seen.dir + seen.file
      BY <2>1, PlacesAre
    <2> QED
      BY <2>2 DEF Place
  <1>7. l \in F <=> tree[l] # Absent
    <2>1. name \in Local!ToSet(Local!InstructionNames) /\ (seen.file = 1 => name = "CLAUDE.md")
      BY <1>4, SourceNames
    <2>2. l \in {<<0, "CLAUDE.md">>} \cup ((first..Depth) \X Local!ToSet(Local!InstructionNames))
      <3>1. seen.dir # 0 => seen.dir \in first..Depth
        BY <1>4
      <3> HIDE DEF name, first
      <3> QED
        BY <1>4, <2>1, <3>1
    <2>3. Local!Project(tree) = first..Depth
      BY <1>4 DEF Local!Project
    <2>4. l \in Local!Files
      <3>1. seen.dir # 0 => seen.dir \in 1..Depth
        BY <1>4
      <3> HIDE DEF name
      <3> QED
        BY <1>4, <2>1, <3>1, Zenon DEF Local!Files
    <2>5. tree[l] # Bad
      <3>1. Local!IsContent(l, tree[l]) /\ l[2] = name
        BY <2>4 DEF Local!IsTree
      <3> HIDE DEF l, name
      <3> QED
        BY <2>1, <3>1, Zenon DEF Local!IsContent
    <2>6. Local!Readable(tree[l]) <=> tree[l] # Absent
      BY <1>1, <2>5 DEF Local!Readable
    <2> HIDE DEF l, first
    <2> QED
      BY <2>2, <2>3, <2>6, Zenon DEF LocalFound
  <1>8. \A m \in F : PlaceOf(m) < 4 * dir + file <=> PlaceOf(m) < Place \/ m = l
    <2> TAKE m \in F
    <2>1. PICK d \in 0..Depth, i \in 1..3 :
            /\ m = <<d, Local!InstructionNames[i]>> /\ PlaceOf(m) = 4 * d + i
            /\ d = 0 => i = 1
            /\ d = 0 \/ first <= d
      BY <1>4, FoundIs
    <2>2. Place = 4 * seen.dir + seen.file
      BY DEF Place
    <2>3. d = seen.dir /\ i = seen.file => m = l
      BY <2>1
    <2>4. m = l => PlaceOf(m) = Place
      BY <1>6
    <2> HIDE DEF l, first, next
    <2>5. CASE last
      BY <1>4, <2>1, <2>2, <2>3, <2>4, <2>5, SMTT(30)
    <2>6. CASE ~last
      <3>1. dir = seen.dir /\ file = seen.file + 1
        BY <2>6
      <3>2. PlaceOf(m) = Place => d = seen.dir /\ i = seen.file
        <4>1. seen.dir \in Nat /\ seen.file \in 1..3 /\ d \in Nat
          BY <1>4
        <4> QED
          BY <2>1, <2>2, <4>1
      <3>3. PlaceOf(m) = Place <=> m = l
        BY <2>3, <2>4, <3>2
      <3>4. 4 * dir + file = Place + 1 /\ Place \in Int /\ PlaceOf(m) \in Int
        BY <1>4, <2>1, <2>2, <3>1, SMTT(30)
      <3> HIDE DEF dir, file
      <3> QED
        BY <3>3, <3>4
    <2> QED
      BY <2>5, <2>6
  <1> HIDE DEF name, first, next, dir, file, F
  <1>9. /\ seen'.sources = sources /\ seen'.file = file /\ seen'.dir = dir
        /\ seen'.root = seen.root /\ seen'.user = seen.user /\ seen'.local = seen.local
        /\ seen'.project = seen.project /\ seen'.personalSkills = seen.personalSkills
        /\ seen'.projectSkills = seen.projectSkills
    <2> HIDE DEF sources
    <2> QED
      BY <1>2 DEF LocalInv
  <1>10. LocalAtConfig(tree)' /\ LocalAtMcp(tree)'
    BY <1>3, <1>9 DEF LocalAtConfig, LocalAtMcp
  <1>11. Place' = 4 * dir + file
    BY <1>9 DEF Place
  <1>12. CASE tree[l] = Absent
    <2>1. {m \in F : PlaceOf(m) < Place'} = L
      BY <1>7, <1>8, <1>11, <1>12
    <2>2. sources = seen.sources
      BY <1>12
    <2>3. LocalAtInstructions(tree)'
      <3> HIDE DEF L, l
      <3> QED
        BY <1>5, <1>9, <2>1, <2>2 DEF LocalAtInstructions, F
    <2> QED
      BY <1>1, <1>10, <2>3 DEF LocalAgree
  <1>13. CASE tree[l] # Absent
    <2>1. {m \in F : PlaceOf(m) < Place'} = L \cup {l}
      BY <1>7, <1>8, <1>11, <1>13
    <2>2. L = {m \in F : PlaceOf(m) < PlaceOf(l)}
      BY <1>6
    <2>3. k \in Nat /\ Local!SourcesOf(tree)[k + 1] = l /\ Cardinality(L \cup {l}) = k + 1
      <3>1. l \in LocalFound(tree)
        BY <1>7, <1>13 DEF F
      <3>2. L = {m \in LocalFound(tree) : PlaceOf(m) < PlaceOf(l)}
        BY <2>2 DEF F
      <3>3. /\ Cardinality(L) \in Nat /\ Local!SourcesOf(tree)[Cardinality(L) + 1] = l
            /\ Cardinality(L \cup {l}) = Cardinality(L) + 1
        <4>1. Local!RootOf(tree) \in 0..Depth
          BY <1>4
        <4> HIDE DEF L, l
        <4> QED
          BY <3>1, <3>2, <4>1, SourceIs
      <3> HIDE DEF L, l, k
      <3> QED
        BY <1>5, <3>3
    <2>4. /\ Len(sources) = k + 1 /\ sources[k + 1] = l
          /\ \A i \in 1..k : sources[i] = seen.sources[i]
      <3>1. sources = Append(seen.sources, l)
        BY <1>13
      <3> HIDE DEF l, sources
      <3> QED
        BY <1>4, <3>1
    <2>5. \A i \in 1..(k + 1) : i \in 1..k \/ i = k + 1
      BY <2>3
    <2> HIDE DEF L, l, sources
    <2>6. \A i \in 1..(k + 1) : sources[i] = Local!SourcesOf(tree)[i]
      <3> HIDE DEF k
      <3> QED
        BY <1>5, <2>3, <2>4, <2>5
    <2>7. LocalAtInstructions(tree)'
      <3> HIDE DEF k
      <3> QED
        BY <1>5, <1>9, <2>1, <2>3, <2>4, <2>6 DEF LocalAtInstructions, F
    <2> QED
      BY <1>1, <1>10, <2>7 DEF LocalAgree
  <1> QED
    BY <1>12, <1>13

LEMMA SourceFiles ==
  ASSUME NEW d \in 0..Depth, NEW i \in 1..3, d = 0 => i = 1
  PROVE  /\ <<d, Local!InstructionNames[i]>> \in Local!Files
         /\ Local!InstructionNames[i] \in Local!ToSet(Local!InstructionNames)
  <1> DEFINE name == Local!InstructionNames[i]
  <1>1. name \in Local!ToSet(Local!InstructionNames) /\ (i = 1 => name = "CLAUDE.md")
    BY SourceNames
  <1>2. d # 0 => d \in 1..Depth
    BY CommandAssumption
  <1> HIDE DEF name
  <1>3. <<d, name>> \in Local!Files
    BY <1>1, <1>2, Zenon DEF Local!Files
  <1> QED
    BY <1>1, <1>3 DEF name

LEMMA LocalShapeBegins == ASSUME Local!Init PROVE LocalShape
  <1>1. /\ pc = "root"
        /\ seen = [dir |-> Depth, file |-> 1, root |-> 0, user |-> 0, local |-> 0,
                   key |-> "none", project |-> 0, personalSkills |-> 0, projectSkills |-> 0,
                   sources |-> << >>]
    BY DEF Local!Init, Local!NothingSeen
  <1>2. Depth >= 1 /\ << >> \in Seq(Local!Files) /\ 1 \in 1..3
    BY CommandAssumption
  <1> QED
    BY <1>1, <1>2 DEF LocalShape

LEMMA LocalShapeKept == ASSUME LocalInv, LocalShape, Local!Next PROVE LocalShape'
  <1> DEFINE first == Local!FirstDirectory(seen.root)
             next == Local!NextDirectory(seen.dir)
  <1>1. /\ seen = [dir |-> seen.dir, file |-> seen.file, root |-> seen.root, user |-> seen.user,
                   local |-> seen.local, key |-> seen.key, project |-> seen.project,
                   personalSkills |-> seen.personalSkills,
                   projectSkills |-> seen.projectSkills, sources |-> seen.sources]
        /\ seen.dir \in 0..(Depth + 1) /\ seen.root \in 0..Depth
        /\ seen.sources \in Seq(Local!Files) /\ seen.file \in 1..3
    BY DEF LocalInv, LocalShape
  <1>2. /\ Depth \in Nat \ {0} /\ first \in 1..Depth
        /\ next = IF seen.dir = 0 THEN first ELSE seen.dir + 1
    BY <1>1, CommandAssumption DEF Local!FirstDirectory, Local!NextDirectory
  <1>3. CASE Local!FindRoot
    <2>1. /\ pc = "root"
          /\ \/ seen.dir > 1 /\ seen' = [seen EXCEPT !.dir = @ - 1] /\ pc' = pc
             \/ \E r \in {0, seen.dir} : seen' = [seen EXCEPT !.root = r] /\ pc' = "config"
      BY <1>3, Zenon DEF Local!FindRoot
    <2>2. seen.sources = << >> /\ seen.file = 1 /\ seen.dir >= 1 /\ seen.projectSkills = 0
      BY <2>1 DEF LocalShape
    <2>3. /\ seen'.sources = seen.sources /\ seen'.file = seen.file
          /\ seen'.projectSkills = seen.projectSkills /\ seen'.dir >= 1
          /\ pc' \in {"root", "config"}
      BY <1>1, <2>1, <2>2
    <2> QED
      BY <1>1, <2>2, <2>3 DEF LocalShape
  <1>4. CASE Local!ReadConfig
    <2>1. PICK user, key, local :
            seen' = [seen EXCEPT !.user = user, !.key = key, !.local = local]
      BY <1>4, Zenon DEF Local!ReadConfig
    <2>2. /\ pc = "config" /\ pc' = "mcp"
          /\ seen.sources = << >> /\ seen.file = 1 /\ seen.dir >= 1 /\ seen.projectSkills = 0
      BY <1>4 DEF Local!ReadConfig, LocalShape
    <2>3. /\ seen'.sources = seen.sources /\ seen'.file = seen.file
          /\ seen'.projectSkills = seen.projectSkills /\ seen'.dir = seen.dir
      BY <1>1, <2>1
    <2> QED
      BY <1>1, <2>2, <2>3 DEF LocalShape
  <1>5. CASE Local!ReadMcp
    <2>1. PICK n : seen' = [seen EXCEPT !.project = n, !.dir = 0]
      BY <1>5, Zenon DEF Local!ReadMcp
    <2>2. /\ pc = "mcp" /\ pc' = "skills"
          /\ seen.sources = << >> /\ seen.file = 1 /\ seen.projectSkills = 0
      BY <1>5 DEF Local!ReadMcp, LocalShape
    <2>3. /\ seen'.sources = seen.sources /\ seen'.file = seen.file
          /\ seen'.projectSkills = seen.projectSkills /\ seen'.dir = 0
      BY <1>1, <2>1
    <2> QED
      BY <1>1, <2>2, <2>3 DEF LocalShape
  <1>6. CASE Local!ReadSkills
    <2> DEFINE dir == IF seen.dir = Depth THEN 0 ELSE next
    <2>1. PICK m, n : /\ seen' = [seen EXCEPT !.personalSkills = m, !.projectSkills = n,
                                              !.dir = dir]
                      /\ seen.dir = 0 => n = seen.projectSkills
      <3> DEFINE manifests == Local!Manifests(Local!File(seen.dir, "skills"))
                 n == IF seen.dir = 0 THEN seen.projectSkills ELSE seen.projectSkills + manifests
      <3>1. \E m : seen' = [seen EXCEPT !.personalSkills = m, !.projectSkills = n, !.dir = dir]
        BY <1>6, Zenon DEF Local!ReadSkills
      <3>2. seen.dir = 0 => n = seen.projectSkills
        OBVIOUS
      <3> HIDE DEF n, dir
      <3> QED
        BY <3>1, <3>2, Zenon
    <2>2. /\ pc = "skills" /\ pc' = IF seen.dir = Depth THEN "instructions" ELSE "skills"
          /\ seen.sources = << >> /\ seen.file = 1 /\ seen.dir \in 0..Depth
          /\ seen.dir = 0 \/ first <= seen.dir
      BY <1>2, <1>6 DEF Local!ReadSkills, LocalShape, LocalInv
    <2>3. dir = 0 <=> seen.dir = Depth
      <3> HIDE DEF first, next
      <3> QED
        BY <1>2, <2>2
    <2>4. dir = 0 \/ first <= dir
      <3> HIDE DEF first, next
      <3> QED
        BY <1>2, <2>2
    <2> HIDE DEF dir
    <2>5. /\ seen'.sources = << >> /\ seen'.file = 1 /\ seen'.dir = dir
          /\ seen'.root = seen.root
      BY <1>1, <2>1, <2>2
    <2>6. pc' = "skills" => dir # 0
      BY <2>2, <2>3
    <2>7. pc' \in {"skills", "instructions"}
      BY <2>2
    <2> QED
      BY <1>1, <2>4, <2>5, <2>6, <2>7 DEF LocalShape
  <1>7. CASE Local!ReadInstruction
    <2> DEFINE l == <<seen.dir, Local!InstructionNames[seen.file]>>
               last == seen.dir = 0 \/ seen.file = 3
               sources == IF world.now[l] = Absent THEN seen.sources ELSE Append(seen.sources, l)
               file == IF last THEN 1 ELSE seen.file + 1
               dir == IF last THEN next ELSE seen.dir
    <2>1. /\ pc = "instructions" /\ pc' = pc /\ seen.dir <= Depth
          /\ seen' = [seen EXCEPT !.sources = sources, !.file = file, !.dir = dir]
      BY <1>7, Zenon DEF Local!ReadInstruction, Local!File
    <2>2. /\ seen.dir \in 0..Depth /\ (seen.dir = 0 => seen.file = 1)
          /\ seen.dir = 0 \/ first <= seen.dir
      BY <1>1, <1>2, <2>1 DEF LocalShape
    <2>3. sources \in Seq(Local!Files)
      <3>1. l \in Local!Files
        BY <1>1, <2>2, SourceFiles
      <3> HIDE DEF l
      <3>2. Append(seen.sources, l) \in Seq(Local!Files)
        BY <1>1, <3>1, AppendProperties
      <3> QED
        BY <1>1, <3>2
    <2>4. /\ file \in 1..3 /\ first <= dir
          /\ dir > Depth => file = 1
      <3> HIDE DEF first, next
      <3> QED
        BY <1>1, <1>2, <2>2
    <2>5. dir # 0
      BY <1>2, <2>4
    <2> HIDE DEF sources, file, dir
    <2>6. /\ seen'.sources = sources /\ seen'.file = file /\ seen'.dir = dir
          /\ seen'.root = seen.root
      BY <1>1, <2>1
    <2> QED
      BY <2>1, <2>3, <2>4, <2>5, <2>6 DEF LocalShape
  <1>8. CASE Local!End \/ Local!ReadFails
    <2>1. pc' = "done" /\ seen' = seen
      BY <1>8 DEF Local!End, Local!ReadFails
    <2> QED
      BY <2>1 DEF LocalShape
  <1>9. CASE Local!Edit
    BY <1>9 DEF Local!Edit, LocalShape
  <1> QED
    BY <1>3, <1>4, <1>5, <1>6, <1>7, <1>8, <1>9 DEF Local!Next

-----------------------------------------------------------------------------
\* A walk that has read one more file agrees with as many trees as before.
LEMMA LocalAdvance ==
  ASSUME NEW t, LocalWitness(t), world' = world, LocalBehind \subseteq LocalBehind',
         \A tree : /\ Local!IsTree(tree) /\ LocalAgree(tree)
                   /\ \A l \in LocalBehind' : tree[l] = t[l]
                   => LocalAgree(tree)'
  PROVE  LocalWitness(t)'
  <1>1. ASSUME NEW tree, Local!IsTree(tree), \A l \in LocalBehind' : tree[l] = t[l]
        PROVE  LocalAgree(tree)'
    <2>1. LocalAgree(tree)
      BY <1>1 DEF LocalWitness
    <2> QED
      BY <1>1, <2>1
  <1>2. \A l \in Local!Files : l \in LocalBehind' \/ world'.now[l] = t[l]
    BY DEF LocalWitness
  <1> QED
    BY <1>1, <1>2 DEF LocalWitness

LEMMA GitIsRead ==
  ASSUME LocalInv, LocalShape, Local!FindRoot, NEW t, LocalWitness(t)
  PROVE  LocalWitness(t)'
  <1> DEFINE l == <<seen.dir, ".git">>
  <1>1. /\ pc = "root" /\ world' = world /\ seen.dir \in 1..Depth
        /\ pc' = "config" \/ (pc' = "root" /\ seen'.dir = seen.dir - 1)
    <2>1. pc = "root" /\ world' = world /\ seen.dir \in 1..Depth
      BY CommandAssumption DEF Local!FindRoot, LocalInv, LocalShape
    <2>2. pc' = "config" \/ (pc' = pc /\ seen' = [seen EXCEPT !.dir = seen.dir - 1])
      BY Zenon DEF Local!FindRoot
    <2>3. seen' = [seen EXCEPT !.dir = seen.dir - 1] => seen'.dir = seen.dir - 1
      BY DEF LocalInv
    <2> QED
      BY <2>1, <2>2, <2>3
  <1>2. l \in Local!Files /\ l[2] = ".git" /\ l[1] = seen.dir
    BY <1>1, Zenon DEF Local!Files
  <1>3. \A m \in LocalBehind : m[2] = ".git" /\ m \in Local!Files /\ m[1] > seen.dir
    BY <1>1 DEF LocalBehind
  <1>4. \A m \in Local!Files : m[2] = ".git" => m[1] \in 1..Depth
    BY SourceNames DEF Local!Files
  <1>5. l \in LocalBehind' /\ l \notin LocalBehind
    BY <1>1, <1>2, <1>3 DEF LocalBehind
  <1>6. LocalBehind \subseteq LocalBehind'
    BY <1>1, <1>3, <1>4, CommandAssumption DEF LocalBehind
  <1>7. t[l] = world.now[l]
    BY <1>2, <1>5 DEF LocalWitness
  <1>8. \A tree : LocalAgree(tree) /\ (\A m \in LocalBehind' : tree[m] = t[m])
                    => LocalAgree(tree)'
    BY <1>5, <1>7, LocalRootAgrees
  <1> QED
    BY <1>1, <1>6, <1>8, LocalAdvance

LEMMA GlobalIsRead ==
  ASSUME LocalInv, LocalShape, Local!ReadConfig, NEW t, LocalWitness(t)
  PROVE  LocalWitness(t)'
  <1> DEFINE l == <<0, ".claude.json">>
  <1>1. pc = "config" /\ pc' = "mcp" /\ world' = world
    BY DEF Local!ReadConfig
  <1>2. l \in Local!Files /\ l[2] = ".claude.json"
    BY Zenon DEF Local!Files
  <1>3. ".claude.json" \notin Local!ToSet(Local!InstructionNames)
    BY SourceNames
  <1>4. l \in LocalBehind' /\ l \notin LocalBehind
    BY <1>1, <1>2, <1>3 DEF LocalBehind
  <1>5. LocalBehind \subseteq LocalBehind'
    BY <1>1 DEF LocalBehind
  <1>6. t[l] = world.now[l]
    BY <1>2, <1>4 DEF LocalWitness
  <1>7. \A tree : LocalAgree(tree) /\ (\A m \in LocalBehind' : tree[m] = t[m])
                    => LocalAgree(tree)'
    BY <1>4, <1>6, GlobalAgrees
  <1> QED
    BY <1>1, <1>5, <1>7, LocalAdvance

LEMMA McpIsRead ==
  ASSUME LocalInv, LocalShape, Local!ReadMcp, NEW t, LocalWitness(t)
  PROVE  LocalWitness(t)'
  <1> DEFINE first == Local!FirstDirectory(seen.root)
             l == <<first, ".mcp.json">>
  <1>1. pc = "mcp" /\ pc' = "skills" /\ world' = world
    BY DEF Local!ReadMcp
  <1>2. first \in 1..Depth
    BY CommandAssumption DEF LocalInv, Local!FirstDirectory
  <1> HIDE DEF first
  <1>3. l \in Local!Files /\ l[2] = ".mcp.json"
    BY <1>2, Zenon DEF Local!Files
  <1>4. ".mcp.json" \notin Local!ToSet(Local!InstructionNames)
    BY SourceNames
  <1>5. l \in LocalBehind' /\ l \notin LocalBehind
    BY <1>1, <1>3, <1>4 DEF LocalBehind
  <1>6. LocalBehind \subseteq LocalBehind'
    BY <1>1 DEF LocalBehind
  <1>7. t[l] = world.now[l]
    BY <1>3, <1>5 DEF LocalWitness
  <1>8. \A tree : LocalAgree(tree) /\ (\A m \in LocalBehind' : tree[m] = t[m])
                    => LocalAgree(tree)'
    BY <1>5, <1>7, McpAgrees DEF first
  <1> QED
    BY <1>1, <1>6, <1>8, LocalAdvance

LEMMA SkillsAreRead ==
  ASSUME LocalInv, LocalShape, Local!ReadSkills, NEW t, LocalWitness(t)
  PROVE  LocalWitness(t)'
  <1> DEFINE l == <<seen.dir, "skills">>
             next == Local!NextDirectory(seen.dir)
  <1>1. /\ pc = "skills" /\ world' = world
        /\ pc' = IF seen.dir = Depth THEN "instructions" ELSE "skills"
    BY DEF Local!ReadSkills
  <1>2. Depth \in Nat \ {0} /\ seen.dir \in 0..Depth
    BY <1>1, CommandAssumption DEF LocalInv
  <1>3. next \in Int /\ seen.dir < next
    BY <1>2 DEF LocalInv, Local!NextDirectory, Local!FirstDirectory
  <1>4. seen.dir # Depth => seen'.dir = next
    <2>1. \E m, n : seen' = [seen EXCEPT !.personalSkills = m, !.projectSkills = n,
                                  !.dir = IF seen.dir = Depth THEN 0 ELSE next]
      BY Zenon DEF Local!ReadSkills
    <2> HIDE DEF next
    <2> QED
      BY <2>1 DEF LocalInv
  <1> HIDE DEF next
  <1>5. l \in Local!Files /\ l[2] = "skills" /\ l[1] = seen.dir
    BY <1>2, Zenon DEF Local!Files
  <1>6. /\ "skills" \notin Local!ToSet(Local!InstructionNames)
        /\ \A m \in Local!Files : m[2] = "skills" => m[1] \in 0..Depth
    BY SourceNames DEF Local!Files
  <1>7. l \in LocalBehind' /\ l \notin LocalBehind
    BY <1>1, <1>2, <1>3, <1>4, <1>5, <1>6 DEF LocalBehind
  <1>8. LocalBehind \subseteq LocalBehind'
    <2> SUFFICES ASSUME NEW m \in LocalBehind PROVE m \in LocalBehind'
      OBVIOUS
    <2>1. /\ m \in Local!Files
          /\ m[2] \in {".git", ".claude.json", ".mcp.json"} \/ (m[2] = "skills" /\ m[1] < seen.dir)
      BY <1>1 DEF LocalBehind
    <2>2. m[2] = "skills" => m[1] \in Int
      BY <1>2, <1>6, <2>1
    <2>3. pc' = "skills" => seen'.dir = next
      BY <1>1, <1>4
    <2> QED
      BY <1>1, <1>2, <1>3, <2>1, <2>2, <2>3 DEF LocalBehind
  <1>9. t[l] = world.now[l]
    BY <1>5, <1>7 DEF LocalWitness
  <1>10. \A tree : /\ Local!IsTree(tree) /\ LocalAgree(tree)
                   /\ \A m \in LocalBehind' : tree[m] = t[m]
                   => LocalAgree(tree)'
    BY <1>7, <1>9, SkillsAgree
  <1> QED
    BY <1>1, <1>8, <1>10, LocalAdvance

LEMMA SourceIsRead ==
  ASSUME LocalInv, LocalShape, Local!ReadInstruction, NEW t, LocalWitness(t)
  PROVE  LocalWitness(t)'
  <1> DEFINE name == Local!InstructionNames[seen.file]
             l == <<seen.dir, name>>
             last == seen.dir = 0 \/ seen.file = 3
             next == Local!NextDirectory(seen.dir)
             file == IF last THEN 1 ELSE seen.file + 1
             dir == IF last THEN next ELSE seen.dir
  <1>1. pc = "instructions" /\ pc' = pc /\ seen.dir <= Depth /\ world' = world
    BY DEF Local!ReadInstruction
  <1>2. /\ Depth \in Nat \ {0} /\ seen.dir \in 0..Depth /\ seen.file \in 1..3
        /\ seen.dir = 0 => seen.file = 1
    BY <1>1, CommandAssumption DEF LocalInv, LocalShape
  <1>3. next \in Int /\ seen.dir < next
    BY <1>2 DEF LocalInv, Local!NextDirectory, Local!FirstDirectory
  <1> HIDE DEF next
  <1>4. Place \in Int /\ Place < 4 * dir + file /\ 4 * dir + file \in Int
    BY <1>2, <1>3 DEF Place
  <1>5. Place' = 4 * dir + file
    <2>1. \E sources : seen' = [seen EXCEPT !.sources = sources, !.file = file, !.dir = dir]
      BY Zenon DEF Local!ReadInstruction, next
    <2> HIDE DEF file, dir
    <2>2. seen'.file = file /\ seen'.dir = dir
      BY <2>1 DEF LocalInv
    <2> QED
      BY <2>2 DEF Place
  <1>6. l \in Local!Files /\ name \in Local!ToSet(Local!InstructionNames) /\ l[2] = name
    BY <1>2, SourceFiles
  <1>7. PlaceOf(l) = Place
    <2>1. seen.dir \in Nat
      BY <1>2
    <2>2. PlaceOf(l) = 4 * seen.dir + seen.file
      BY <1>2, <2>1, PlacesAre
    <2> QED
      BY <2>2 DEF Place
  <1>8. name \notin {".git", ".claude.json", ".mcp.json", "skills"}
    BY <1>2, SourceNames
  <1> HIDE DEF name, l, dir, file
  <1>9. l \in LocalBehind' /\ l \notin LocalBehind
    BY <1>1, <1>4, <1>5, <1>6, <1>7, <1>8 DEF LocalBehind
  <1>10. LocalBehind \subseteq LocalBehind'
    <2> SUFFICES ASSUME NEW m \in LocalBehind PROVE m \in LocalBehind'
      OBVIOUS
    <2>1. m[2] \in Local!ToSet(Local!InstructionNames) => NameAt(m[2]) \in Int
      BY SourceNames
    <2>2. m[1] \in Int
      BY <1>2 DEF LocalBehind, Local!Files
    <2>3. m[2] \in Local!ToSet(Local!InstructionNames) => PlaceOf(m) \in Int
      BY <2>1, <2>2 DEF PlaceOf
    <2> QED
      BY <1>1, <1>4, <1>5, <2>3 DEF LocalBehind
  <1>11. t[l] = world.now[l]
    BY <1>6, <1>9 DEF LocalWitness
  <1>12. \A tree : /\ Local!IsTree(tree) /\ LocalAgree(tree)
                   /\ \A m \in LocalBehind' : tree[m] = t[m]
                   => LocalAgree(tree)'
    BY <1>9, <1>11, InstructionAgrees DEF l, name
  <1> QED
    BY <1>1, <1>10, <1>12, LocalAdvance

\* One file changes: if it is behind the walk the tree before stays the witness,
\* and otherwise the tree as it is now is one.
LEMMA LocalEdited ==
  ASSUME LocalInv, Local!IsTree(world.now), Local!Edit,
         NEW t \in {world.now, world.before}, LocalWitness(t)
  PROVE  /\ \E s \in {world.now, world.before}' : LocalWitness(s)'
         /\ OneClaudeEdit' /\ Local!IsTree(world.now)' /\ Local!IsTree(world.before)'
  <1>1. PICK e \in ClaudeEdits : world' = [world EXCEPT !.now[e[1]] = e[2], !.edited = TRUE]
    BY Zenon DEF Local!Edit
  <1>2. pc' = pc /\ seen' = seen /\ ~world.edited
    BY DEF Local!Edit
  <1>3. /\ world = [now |-> world.now, before |-> world.before, edited |-> world.edited]
        /\ world.now = world.before
    BY <1>2 DEF LocalInv
  <1>4. PICK now : now = [world.now EXCEPT ![e[1]] = e[2]]
    OBVIOUS
  <1>5. world' = [now |-> now, before |-> world.before, edited |-> TRUE]
    BY <1>1, <1>3, <1>4
  <1>6. DOMAIN now = DOMAIN world.now /\ Local!Files \subseteq DOMAIN world.now
    BY <1>4 DEF Local!IsTree
  <1>7. \A l \in Local!Files : (l = e[1] /\ now[l] = e[2]) \/ now[l] = world.now[l]
    BY <1>4, <1>6
  <1>8. Local!IsTree(now)
    <2>1. Local!IsContent(e[1], e[2])
      BY CommandAssumption
    <2>2. ASSUME NEW l \in Local!Files PROVE Local!IsContent(l, now[l])
      BY <1>7, <2>1 DEF Local!IsTree
    <2> QED
      BY <1>6, <2>2 DEF Local!IsTree
  <1>9. LocalBehind' = LocalBehind /\ \A tree : LocalAgree(tree) => LocalAgree(tree)'
    <2>1. Place' = Place
      BY <1>2 DEF Place
    <2>2. LocalBehind' = LocalBehind
      BY <1>2, <2>1 DEF LocalBehind
    <2>3. ASSUME NEW tree PROVE LocalAgree(tree)' <=> LocalAgree(tree)
      BY <1>2, <2>1 DEF LocalAgree, LocalAtConfig, LocalAtMcp, LocalAtSkills,
         LocalAtInstructions
    <2> QED
      BY <2>2, <2>3
  <1>10. t = world.now
    BY <1>3
  <1>11. OneClaudeEdit' /\ Local!IsTree(world.now)' /\ Local!IsTree(world.before)'
    <2>1. \A l \in Local!Files : l = e[1] \/ world'.now[l] = world'.before[l]
      BY <1>3, <1>5, <1>7
    <2>2. world'.before = world.now /\ world'.now = now
      BY <1>3, <1>5
    <2> QED
      BY <1>8, <2>1, <2>2 DEF OneClaudeEdit
  <1>12. CASE e[1] \in LocalBehind
    <2>1. \A l \in Local!Files : l \in LocalBehind' \/ world'.now[l] = t[l]
      BY <1>5, <1>7, <1>9, <1>10, <1>12
    <2>2. LocalWitness(t)'
      BY <1>9, <2>1 DEF LocalWitness
    <2>3. t \in {world.now, world.before}'
      BY <1>3, <1>5, <1>10
    <2> QED
      BY <1>11, <2>2, <2>3
  <1>13. CASE e[1] \notin LocalBehind
    <2>1. \A l \in LocalBehind : now[l] = t[l]
      BY <1>7, <1>10, <1>13 DEF LocalBehind
    <2>2. ASSUME NEW tree, Local!IsTree(tree), \A l \in LocalBehind' : tree[l] = now[l]
          PROVE  LocalAgree(tree)'
      BY <1>9, <2>1, <2>2 DEF LocalWitness
    <2>3. LocalWitness(now)'
      BY <1>5, <1>9, <2>2 DEF LocalWitness
    <2> QED
      BY <1>5, <1>11, <2>3
  <1> QED
    BY <1>12, <1>13

\* Everything is read: the report is that of the witness.
LEMMA LocalReport ==
  ASSUME LocalInv, LocalShape, Local!End, Local!IsTree(world.now), Local!IsTree(world.before),
         NEW t \in {world.now, world.before}, LocalWitness(t)
  PROVE  Local!LooksAtOnce'
  <1> DEFINE F == LocalFound(t)
             k == Len(seen.sources)
             report == Local!ReportOf(t)
             all == Local!SourcesOf(t)
  <1>1. /\ pc = "instructions" /\ seen.dir > Depth /\ pc' = "done" /\ world' = world
        /\ seen' = seen /\ outcome' = Local!Concluded("accepted", "local")
    BY DEF Local!End
  <1>2. /\ Depth \in Nat \ {0} /\ seen.root \in 0..Depth /\ seen.file = 1
        /\ seen.dir \in Int /\ seen.sources \in Seq(Local!Files)
        /\ LocalAtConfig(t) /\ LocalAtMcp(t) /\ LocalAtInstructions(t)
    <2>1. LocalAgree(t)
      BY DEF LocalWitness
    <2> QED
      BY <1>1, <2>1, CommandAssumption DEF LocalInv, LocalShape, LocalAgree
  <1>3. seen.root = Local!RootOf(t)
    BY <1>2 DEF LocalAtConfig
  <1>4. {l \in F : PlaceOf(l) < Place} = F
    <2>1. Place = 4 * seen.dir + 1
      BY <1>2 DEF Place
    <2>2. \A l \in F : PlaceOf(l) < Place
      <3> TAKE l \in F
      <3>1. PICK d \in 0..Depth, i \in 1..3 : PlaceOf(l) = 4 * d + i
        BY <1>2, <1>3, FoundIs
      <3> QED
        BY <1>1, <1>2, <2>1, <3>1
    <2> QED
      BY <2>2
  <1>5. k = Cardinality(F) /\ \A i \in 1..k : seen.sources[i] = all[i]
    BY <1>2, <1>4 DEF LocalAtInstructions
  <1>6. \E f : all = [i \in 1..Cardinality(F) |-> f[i]]
    <2> DEFINE Ranked(i) == CHOOSE l \in F : Local!Cardinality({m \in F : Local!Before(m, l)}) = i
               f == [i \in 1..Cardinality(F) |-> Ranked(i)]
    <2>1. all = [i \in 1..Cardinality(F) |-> Ranked(i)]
      BY LocalSets DEF Local!SourcesOf, LocalFound
    <2> HIDE DEF Ranked, F
    <2>2. [i \in 1..Cardinality(F) |-> Ranked(i)] = [i \in 1..Cardinality(F) |-> f[i]]
      OBVIOUS
    <2> QED
      BY <2>1, <2>2
  <1>7. seen.sources = all
    <2>1. all = [i \in 1..k |-> all[i]]
      BY <1>5, <1>6
    <2>2. seen.sources = [i \in 1..k |-> seen.sources[i]]
      BY <1>2
    <2> HIDE DEF all, k
    <2> QED
      BY <1>5, <2>1, <2>2
  <1>8. /\ DOMAIN report = {"root", "user", "local", "project", "personalSkills",
                            "projectSkills", "sources"}
        /\ report.root = Local!RootOf(t) /\ report.sources = all
    BY ReportIs
  <1>9. report = [f \in DOMAIN report |-> report[f]]
    BY ReportIs
  <1>10. \A f \in DOMAIN report : seen[f] = report[f]
    <2>1. /\ seen.root = report.root /\ seen.sources = report.sources
          /\ seen.user = report.user /\ seen.local = report.local
          /\ seen.project = report.project /\ seen.personalSkills = report.personalSkills
          /\ seen.projectSkills = report.projectSkills
      BY <1>2, <1>3, <1>7, <1>8 DEF LocalAtMcp, LocalAtInstructions
    <2> HIDE DEF report
    <2> QED
      BY <1>8, <2>1
  <1>11. report = [f \in DOMAIN report |-> seen'[f]]
    <2> HIDE DEF report
    <2> QED
      BY <1>1, <1>9, <1>10
  <1>12. outcome'.verdict # "INCOMPLETE"
    BY <1>1 DEF Local!Concluded
  <1>13. t \in {world'.now, world'.before}
    BY <1>1
  <1> QED
    BY <1>11, <1>12, <1>13 DEF Local!LooksAtOnce

\* What ends the inspection is a file that there is.
LEMMA LocalFailure ==
  ASSUME LocalInv, LocalShape, Local!ReadFails, Local!IsTree(world.now)
  PROVE  Local!LooksAtOnce'
  <1> DEFINE Unreadable(l) == \/ world.now[l] \in {Denied, Bad}
                              \/ l[2] = "skills" /\ Local!CannotCount(world.now[l])
             first == Local!FirstDirectory(seen.root)
             source == <<seen.dir, Local!InstructionNames[seen.file]>>
  <1>1. /\ pc # "done" /\ outcome' = Local!Concluded("INCOMPLETE", "local")
        /\ world' = world /\ pc' = "done" /\ Local!CannotRead
    BY DEF Local!ReadFails
  <1>2. /\ Depth \in Nat \ {0} /\ seen.dir \in 0..(Depth + 1) /\ first \in 1..Depth
        /\ pc = "skills" => seen.dir <= Depth
        /\ pc = "root" => seen.dir <= Depth /\ 1 <= seen.dir
        /\ seen.file \in 1..3 /\ (pc = "instructions" /\ seen.dir = 0 => seen.file = 1)
    BY CommandAssumption, SMTT(30) DEF LocalInv, LocalShape, Local!FirstDirectory
  <1>3. \/ pc = "root" /\ world.now[<<seen.dir, ".git">>] = Denied
        \/ world.now[<<0, ".claude.json">>] \in {Denied, Bad}
        \/ world.now[<<first, ".mcp.json">>] \in {Denied, Bad}
        \/ pc = "skills" /\ Local!CannotCount(world.now[<<seen.dir, "skills">>])
        \/ pc = "instructions" /\ seen.dir <= Depth /\ world.now[source] = Denied
    <2>1. pc \in {"root", "config", "mcp", "skills", "instructions"}
      BY <1>1 DEF LocalInv
    <2> QED
      BY <1>1, <2>1 DEF Local!CannotRead, Local!File
  <1>4. \E l \in Local!Files : Unreadable(l)
    <2>1. CASE pc = "root" /\ world.now[<<seen.dir, ".git">>] = Denied
      <3>1. seen.dir \in 1..Depth
        BY <1>2, <2>1
      <3>2. <<seen.dir, ".git">> \in Local!Files
        BY <3>1, Zenon DEF Local!Files
      <3> QED
        BY <2>1, <3>2
    <2>2. CASE world.now[<<0, ".claude.json">>] \in {Denied, Bad}
      <3>1. <<0, ".claude.json">> \in Local!Files
        BY Zenon DEF Local!Files
      <3> QED
        BY <2>2, <3>1
    <2>3. CASE world.now[<<first, ".mcp.json">>] \in {Denied, Bad}
      <3> HIDE DEF first
      <3>1. <<first, ".mcp.json">> \in Local!Files
        BY <1>2, Zenon DEF Local!Files
      <3> QED
        BY <2>3, <3>1
    <2>4. CASE pc = "skills" /\ Local!CannotCount(world.now[<<seen.dir, "skills">>])
      <3>1. seen.dir \in 0..Depth
        BY <1>2, <2>4
      <3>2. <<seen.dir, "skills">> \in Local!Files /\ <<seen.dir, "skills">>[2] = "skills"
        BY <3>1, Zenon DEF Local!Files
      <3> QED
        BY <2>4, <3>2
    <2>5. CASE pc = "instructions" /\ seen.dir <= Depth /\ world.now[source] = Denied
      <3>1. seen.dir \in 0..Depth
        BY <1>2, <2>5
      <3>2. source \in Local!Files
        BY <1>2, <2>5, <3>1, SourceFiles
      <3> HIDE DEF source
      <3> QED
        BY <2>5, <3>2
    <2> QED
      BY <1>3, <2>1, <2>2, <2>3, <2>4, <2>5
  <1>5. PICK l \in DOMAIN world.now : Unreadable(l)
    BY <1>4 DEF Local!IsTree
  <1>6. outcome'.verdict = "INCOMPLETE"
    BY <1>1 DEF Local!Concluded
  <1>7. /\ l \in DOMAIN world'.now
        /\ \E tree \in {world'.now, world'.before} :
             tree[l] \in {Denied, Bad} \/ (l[2] = "skills" /\ Local!CannotCount(tree[l]))
    BY <1>1, <1>5
  <1> QED
    BY <1>6, <1>7 DEF Local!LooksAtOnce

LEMMA LocalOnceBegins == ASSUME Local!Init PROVE LocalOnce
  <1>1. PICK t \in ClaudeTrees : world = [now |-> t, before |-> t, edited |-> FALSE]
    BY DEF Local!Init
  <1>2. pc = "root" /\ seen.dir = Depth
    BY DEF Local!Init, Local!NothingSeen
  <1>3. Local!IsTree(world.now) /\ Local!IsTree(world.before) /\ OneClaudeEdit
    BY <1>1, CommandAssumption DEF OneClaudeEdit
  <1>4. LocalWitness(world.now)
    <2>1. \A d \in 1..Depth : ~(d > Depth)
      BY CommandAssumption
    <2>2. \A tree : LocalAgree(tree)
      BY <1>2, <2>1 DEF LocalAgree
    <2> QED
      BY <2>2 DEF LocalWitness
  <1>5. Local!LooksAtOnce
    BY <1>2 DEF Local!LooksAtOnce
  <1> QED
    BY <1>3, <1>4, <1>5, LocalShapeBegins DEF LocalOnce

LEMMA LocalOnceKept == ASSUME LocalInv, LocalOnce, Local!Next PROVE LocalOnce'
  <1>1. /\ LocalShape /\ LocalShape' /\ OneClaudeEdit
        /\ Local!IsTree(world.before) /\ Local!IsTree(world.now)
    BY LocalShapeKept DEF LocalOnce
  <1>2. pc # "done"
    BY Zenon DEF Local!Next, Local!FindRoot, Local!ReadConfig, Local!ReadMcp,
       Local!ReadSkills, Local!ReadInstruction, Local!End, Local!ReadFails, Local!Edit
  <1>3. PICK t \in {world.now, world.before} : LocalWitness(t)
    BY <1>2 DEF LocalOnce
  <1>4. CASE Local!FindRoot \/ Local!ReadConfig \/ Local!ReadMcp \/ Local!ReadSkills
             \/ Local!ReadInstruction
    <2>1. world' = world /\ pc' # "done"
      BY <1>4, Zenon DEF Local!FindRoot, Local!ReadConfig, Local!ReadMcp,
         Local!ReadSkills, Local!ReadInstruction
    <2>2. LocalWitness(t)'
      BY <1>1, <1>3, <1>4, GitIsRead, GlobalIsRead, McpIsRead, SkillsAreRead, SourceIsRead
    <2>3. OneClaudeEdit' /\ Local!IsTree(world.now)' /\ Local!IsTree(world.before)'
      BY <1>1, <2>1 DEF OneClaudeEdit
    <2>4. Local!LooksAtOnce'
      BY <2>1 DEF Local!LooksAtOnce
    <2>5. t \in {world.now, world.before}'
      BY <2>1
    <2> QED
      BY <1>1, <2>2, <2>3, <2>4, <2>5 DEF LocalOnce
  <1>5. CASE Local!End \/ Local!ReadFails
    <2>1. world' = world /\ pc' = "done"
      BY <1>5 DEF Local!End, Local!ReadFails
    <2>2. Local!LooksAtOnce'
      BY <1>1, <1>3, <1>5, LocalReport, LocalFailure
    <2>3. OneClaudeEdit' /\ Local!IsTree(world.now)' /\ Local!IsTree(world.before)'
      BY <1>1, <2>1 DEF OneClaudeEdit
    <2> QED
      BY <1>1, <2>1, <2>2, <2>3 DEF LocalOnce
  <1>6. CASE Local!Edit
    <2>1. pc' = pc
      BY <1>6 DEF Local!Edit
    <2>2. Local!LooksAtOnce'
      BY <1>2, <2>1 DEF Local!LooksAtOnce
    <2> QED
      BY <1>1, <1>3, <1>6, <2>1, <2>2, LocalEdited DEF LocalOnce
  <1> QED
    BY <1>4, <1>5, <1>6 DEF Local!Next

-----------------------------------------------------------------------------
(* Whichever of the two summaries runs.                                    *)

LocalOncePart == part = "local" => LocalOnce
AgentsOncePart == part = "instructions" => AgentsOnce

LEMMA LocalReportsHold == Spec => []LocalOncePart
  <1>1. Init => LocalOncePart
    BY LocalOnceBegins DEF Init, LocalOncePart
  <1>2. LocalPart /\ LocalOncePart /\ [Next]_vars => LocalOncePart'
    <2> SUFFICES ASSUME LocalPart, LocalOncePart, [Next]_vars, part' = "local"
                 PROVE  LocalOnce'
      BY DEF LocalOncePart
    <2>1. part = "local" /\ LocalInv /\ LocalOnce
      BY DEF LocalPart, LocalOncePart, Next, Inspect, Render, vars
    <2>2. CASE Inspect
      <3>1. Local!Next
        BY <2>1, <2>2 DEF Inspect
      <3> QED
        BY <2>1, <3>1, LocalOnceKept
    <2>3. CASE UNCHANGED <<pc, world, seen, outcome>>
      <3>1. pc' = pc /\ world' = world /\ seen' = seen /\ outcome' = outcome
        BY <2>3
      <3>2. Place' = Place
        BY <3>1 DEF Place
      <3>3. LocalBehind' = LocalBehind
        BY <3>1, <3>2 DEF LocalBehind
      <3>4. ASSUME NEW tree PROVE LocalAgree(tree)' <=> LocalAgree(tree)
        BY <3>1, <3>2 DEF LocalAgree, LocalAtConfig, LocalAtMcp, LocalAtSkills,
           LocalAtInstructions
      <3>5. ASSUME NEW t PROVE LocalWitness(t)' <=> LocalWitness(t)
        BY <3>1, <3>3, <3>4 DEF LocalWitness
      <3>6. LocalShape' /\ OneClaudeEdit' /\ Local!LooksAtOnce'
        BY <2>1, <3>1 DEF LocalOnce, LocalShape, OneClaudeEdit, Local!LooksAtOnce
      <3> QED
        BY <2>1, <3>1, <3>5, <3>6 DEF LocalOnce
    <2> QED
      BY <2>2, <2>3 DEF Next, Render, vars
  <1> QED
    BY <1>1, <1>2, LocalHolds, PTL DEF Spec

LEMMA AgentsReportsHold == Spec => []AgentsOncePart
  <1>1. Init => AgentsOncePart
    BY AgentsOnceBegins DEF Init, AgentsOncePart
  <1>2. AgentsPart /\ AgentsOncePart /\ [Next]_vars => AgentsOncePart'
    <2> SUFFICES ASSUME AgentsPart, AgentsOncePart, [Next]_vars, part' = "instructions"
                 PROVE  AgentsOnce'
      BY DEF AgentsOncePart
    <2>1. part = "instructions" /\ AgentsInv /\ AgentsOnce
      BY DEF AgentsPart, AgentsOncePart, Next, Inspect, Render, vars
    <2>2. CASE Inspect
      <3>1. Agents!Next
        BY <2>1, <2>2 DEF Inspect
      <3> QED
        BY <2>1, <3>1, AgentsOnceKept
    <2>3. CASE UNCHANGED <<pc, world, seen, outcome>>
      <3>1. pc' = pc /\ world' = world /\ seen' = seen /\ outcome' = outcome
        BY <2>3
      <3>2. AgentsNames' = AgentsNames /\ AgentsBehind' = AgentsBehind
        BY <3>1 DEF AgentsNames, AgentsBehind
      <3>3. AgentsTried' = AgentsTried
        BY <3>1, <3>2 DEF AgentsTried
      <3>4. ASSUME NEW tree PROVE AgentsAgree(tree)' <=> AgentsAgree(tree)
        BY <3>1 DEF AgentsAgree, AgentsAtRoot, AgentsAtLayers, AgentsAtFiles, AgentsSources
      <3>5. ASSUME NEW t PROVE AgentsWitness(t)' <=> AgentsWitness(t)
        BY <3>1, <3>2, <3>3, <3>4 DEF AgentsWitness
      <3>6. AgentsShape' /\ OneEdit' /\ Agents!LooksAtOnce'
        BY <2>1, <3>1, <3>2 DEF AgentsOnce, AgentsShape, OneEdit, Agents!LooksAtOnce
      <3> QED
        BY <2>1, <3>1, <3>5, <3>6 DEF AgentsOnce
    <2> QED
      BY <2>2, <2>3 DEF Next, Render, vars
  <1> QED
    BY <1>1, <1>2, AgentsHold, PTL DEF Spec

\* However the reads of the two summaries interleave with the change of a file,
\* what is reported is what one of the two trees says, looked at as a whole: for
\* codex the project's root, its layers and the instruction files up to the
\* budget; for claude also the servers and the skills.  A summary that fails has
\* a file that cannot be read.
THEOREM ReportsAreOfOneTree == Spec => []LooksAtOnce
  <1>1. LocalOncePart /\ AgentsOncePart => LooksAtOnce
    BY DEF LocalOncePart, AgentsOncePart, LocalOnce, AgentsOnce, LooksAtOnce
  <1> QED
    BY <1>1, LocalReportsHold, AgentsReportsHold, PTL
=============================================================================
