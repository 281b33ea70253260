------------------------------ MODULE CivilTime ------------------------------
(***************************************************************************)
(* The dates of crates/gr-inspect-codex/src/skills.rs: parse_rfc3339_epoch *)
(* and format_rfc3339, without a library.  An epoch, in seconds in the     *)
(* code, is a pair <<day, second of the day>> here, which keeps TLC's      *)
(* integers small; the code's div_euclid and rem_euclid give that pair.    *)
(***************************************************************************)
EXTENDS Integers, FiniteSets

SecondsInDay == 86400

IsLeap(year) == year % 400 = 0 \/ (year % 4 = 0 /\ year % 100 # 0)

DaysInMonth(year, month) ==
  CASE month \in {1, 3, 5, 7, 8, 10, 12} -> 31
    [] month \in {4, 6, 9, 11} -> 30
    [] month = 2 -> IF IsLeap(year) THEN 29 ELSE 28
    [] OTHER -> 0

\* i64's division truncates; where an operand cannot be negative \div is the same.
Truncated(a, b) == IF a >= 0 THEN a \div b ELSE -((-a) \div b)

DaysFromCivil_Julian(year, month, day) ==   \* mutant: every fourth year is a leap year
  LET y == IF month <= 2 THEN year - 1 ELSE year
      shifted == IF month > 2 THEN month - 3 ELSE month + 9
  IN  y * 365 + y \div 4 + (153 * shifted + 2) \div 5 + day - 1 - 719468

DaysFromCivil(year, month, day) ==
  LET y == IF month <= 2 THEN year - 1 ELSE year
      era == Truncated(IF y >= 0 THEN y ELSE y - 399, 400)
      yearOfEra == y - era * 400
      shifted == IF month > 2 THEN month - 3 ELSE month + 9
      dayOfYear == (153 * shifted + 2) \div 5 + day - 1
      dayOfEra == yearOfEra * 365 + yearOfEra \div 4 - yearOfEra \div 100 + dayOfYear
  IN  era * 146097 + dayOfEra - 719468

YearOfEra(dayOfEra) ==
  (dayOfEra - dayOfEra \div 1460 + dayOfEra \div 36524 - dayOfEra \div 146096) \div 365

MonthPrime(dayOfYear) == (5 * dayOfYear + 2) \div 153

CivilFromDays(days) ==
  LET zeroBased == days + 719468
      era == Truncated(IF zeroBased >= 0 THEN zeroBased ELSE zeroBased - 146096, 146097)
      dayOfEra == zeroBased - era * 146097
      yearOfEra == YearOfEra(dayOfEra)
      dayOfYear == dayOfEra - (365 * yearOfEra + yearOfEra \div 4 - yearOfEra \div 100)
      monthPrime == MonthPrime(dayOfYear)
      month == IF monthPrime < 10 THEN monthPrime + 3 ELSE monthPrime - 9
      year == yearOfEra + era * 400
  IN  [year |-> IF month <= 2 THEN year + 1 ELSE year,
       month |-> month,
       day |-> dayOfYear - (153 * monthPrime + 2) \div 5 + 1]

\* A stamp is [year, month, day, hour, minute, second, sign, oh, om]: the fields
\* of an RFC 3339 text, its offset being sign * (oh hours and om minutes).  A year
\* has four digits; format_rfc3339 writes others when the year is beyond them.
FourDigits == 0..9999
StampSet ==
  {s \in [year : FourDigits, month : Nat, day : Nat, hour : Nat, minute : Nat, second : Nat,
          sign : {-1, 0, 1}, oh : Nat, om : Nat] : s.sign = 0 => s.oh = 0 /\ s.om = 0}

WellFormed(s) ==
  /\ s.month \in 1..12
  /\ s.day \in 1..DaysInMonth(s.year, s.month)
  /\ s.hour <= 23 /\ s.minute <= 59 /\ s.second <= 60
  /\ s.oh <= 23 /\ s.om <= 59

\* The set of its epoch: {} for a text that is refused.
ParseRfc3339(s) ==
  LET seconds == s.hour * 3600 + s.minute * 60 + s.second - s.sign * (s.oh * 3600 + s.om * 60)
  IN  IF WellFormed(s)
      THEN {<<DaysFromCivil(s.year, s.month, s.day) + seconds \div SecondsInDay,
              seconds % SecondsInDay>>}
      ELSE {}

FormatRfc3339(epoch) ==
  LET date == CivilFromDays(epoch[1])
  IN  [year |-> date.year, month |-> date.month, day |-> date.day,
       hour |-> epoch[2] \div 3600, minute |-> (epoch[2] % 3600) \div 60,
       second |-> epoch[2] % 60, sign |-> 0, oh |-> 0, om |-> 0]

-----------------------------------------------------------------------------
(* The reference: the calendar counted month by month, from the year 0.    *)

DaysBeforeYear(year) == 365 * year + Cardinality({y \in 0..(year - 1) : IsLeap(y)})

DaysBeforeMonth(year, month) ==
  LET before[m \in 1..month] == IF m = 1 THEN 0 ELSE before[m - 1] + DaysInMonth(year, m - 1)
  IN  before[month]

\* Days since 1970-01-01.
DayNumber(year, month, day) ==
  DaysBeforeYear(year) - DaysBeforeYear(1970) + DaysBeforeMonth(year, month) + day - 1

\* A stamp is dated by counting, and the date it is formatted as is the one it
\* has in UTC: formatting and parsing are inverse to each other, unless an offset
\* leads out of the years of four digits.
DateAgrees(s) ==
  \A e \in ParseRfc3339(s) :
    LET offset == s.sign * (s.oh * 60 + s.om)
        minutes == s.hour * 60 + s.minute - offset
        utc == FormatRfc3339(e)
    IN  /\ (e[1] - DayNumber(s.year, s.month, s.day)) * 1440 + e[2] \div 60
             = minutes + s.second \div 60
        /\ e[2] % 60 = s.second % 60
        /\ utc.year \in FourDigits => ParseRfc3339(utc) = {e}
        /\ offset = 0 /\ s.second < 60 => utc = [s EXCEPT !.sign = 0]
=============================================================================
