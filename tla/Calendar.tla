------------------------------ MODULE Calendar ------------------------------
(***************************************************************************)
(* The proleptic Gregorian calendar as tax, config and pt compute it:      *)
(* a Date is a day count from 1970-01-01.                                  *)
(***************************************************************************)
EXTENDS Integers

DaysFromCivil(year, m, d) ==
    LET y   == IF m <= 2 THEN year - 1 ELSE year
        yoe == y % 400
        doy == (153 * ((m + 9) % 12) + 2) \div 5 + d - 1
    IN  (y \div 400) * 146097 + yoe * 365 + yoe \div 4 - yoe \div 100
            + doy - 719468

CivilFromDays(days) ==
    LET z   == days + 719468
        doe == z % 146097
        yoe == (doe - doe \div 1460 + doe \div 36524 - doe \div 146096) \div 365
        doy == doe - (365 * yoe + yoe \div 4 - yoe \div 100)
        mp  == (5 * doy + 2) \div 153
        m   == IF mp < 10 THEN mp + 3 ELSE mp - 9
        y   == yoe + (z \div 146097) * 400
    IN  [y |-> IF m <= 2 THEN y + 1 ELSE y,
         m |-> m,
         d |-> doy - (153 * mp + 2) \div 5 + 1]

YearOf(date) == CivilFromDays(date).y

LastDayOfMonth(y, m) ==
    CASE m \in {1, 3, 5, 7, 8, 10, 12} -> 31
      [] m \in {4, 6, 9, 11} -> 30
      [] m = 2 -> IF (y % 4 = 0 /\ y % 100 # 0) \/ y % 400 = 0 THEN 29 ELSE 28

\* The same day, months earlier, clamped to the length of that month.
SubtractMonths(date, months) ==
    LET c     == CivilFromDays(date)
        total == 12 * c.y + c.m - 1 - months
        y     == total \div 12
        m     == (total % 12) + 1
        last  == LastDayOfMonth(y, m)
    IN  DaysFromCivil(y, m, IF c.d < last THEN c.d ELSE last)

\* The same month and day a year later; 29 February becomes 1 March.
FirstAnniversary(date) ==
    LET c == CivilFromDays(date)
    IN  IF c.m = 2 /\ c.d = 29 THEN DaysFromCivil(c.y + 1, 3, 1)
        ELSE DaysFromCivil(c.y + 1, c.m, c.d)

ClassifyTerm(acquired, sold) ==
    IF sold > FirstAnniversary(acquired) THEN "LongTerm" ELSE "ShortTerm"

\* The four uneven IRS estimated-tax periods.
QuarterOf(date) ==
    LET m == CivilFromDays(date).m
    IN  IF m <= 3 THEN "Q1" ELSE IF m <= 5 THEN "Q2" ELSE IF m <= 8 THEN "Q3" ELSE "Q4"
=============================================================================
