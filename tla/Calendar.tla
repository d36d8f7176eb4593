------------------------------ MODULE Calendar ------------------------------
(***************************************************************************)
(* The dates of the device as AppDatabase computes with them: a moment is  *)
(* a local date and hour, as DateTime.toLocal() gives it.                  *)
(***************************************************************************)
EXTENDS Integers

CONSTANT UtcOffset    \* per month, the hours local time is ahead of UTC

ASSUME OffsetAssumption == UtcOffset \in [1 .. 12 -> 0 .. 12]

Moment == [year : Nat, month : 1 .. 12, day : 1 .. 31, hour : 0 .. 23]

IsLeap(year) == year % 4 = 0 /\ (year % 100 # 0 \/ year % 400 = 0)

\* DateTime(year, month + 1, 0).day
DaysInMonth(year, month) ==
    IF month = 2 THEN IF IsLeap(year) THEN 29 ELSE 28
    ELSE IF month \in {4, 6, 9, 11} THEN 30 ELSE 31

\* Mutant: the day is not clamped, and DateTime runs on into the next month.
AddMonths_Overflows(t, months) ==
    LET target == t.month + months
        year == t.year + (target - 1) \div 12
        month == ((target - 1) % 12) + 1
        days == DaysInMonth(year, month)
    IN  IF t.day <= days THEN [t EXCEPT !.year = year, !.month = month]
        ELSE [t EXCEPT !.year = year, !.month = (month % 12) + 1, !.day = t.day - days]

\* The same day of a later month, or the last one of a shorter month; the time
\* of day is kept as local time.
AddMonths(t, months) ==
    LET target == t.month + months
        year == t.year + (target - 1) \div 12
        month == ((target - 1) % 12) + 1
        days == DaysInMonth(year, month)
    IN  [t EXCEPT !.year = year, !.month = month,
                  !.day = IF t.day <= days THEN t.day ELSE days]

MonthIndex(t) == 12 * t.year + t.month

\* The calendar day of left is later than that of right.
After(left, right) ==
    \/ MonthIndex(left) > MonthIndex(right)
    \/ MonthIndex(left) = MonthIndex(right) /\ left.day > right.day

SameDate(left, right) == MonthIndex(left) = MonthIndex(right) /\ left.day = right.day

DayBefore(t) ==
    IF t.day > 1 THEN [t EXCEPT !.day = @ - 1]
    ELSE IF t.month > 1
         THEN [t EXCEPT !.month = @ - 1, !.day = DaysInMonth(t.year, t.month - 1)]
         ELSE [t EXCEPT !.year = @ - 1, !.month = 12, !.day = 31]

\* A stored date ends in Z, so DateTime.tryParse gives its day in UTC, which is
\* the day before when the local hour is within the offset.
UtcDate(t) == IF t.hour < UtcOffset[t.month] THEN DayBefore(t) ELSE t

\* The UTC day is the local day.
IsDaytime(t) == \A m \in 1 .. 12 : t.hour >= UtcOffset[m]
=============================================================================
