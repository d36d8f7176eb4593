------------------------- MODULE MC_RecurringOrders -------------------------
(***************************************************************************)
(* A boiler that is serviced monthly, or not at all, from the end of the   *)
(* year on; the offsets are those of Zurich.                               *)
(***************************************************************************)
EXTENDS RecurringOrders

CONSTANT boiler

Day(y, m, d, h) == [year |-> y, month |-> m, day |-> d, hour |-> h]

MC_UtcOffset == [m \in 1 .. 12 |-> IF m \in 4 .. 10 THEN 2 ELSE 1]
MC_Days == {Day(2024, 1, 31, 0), Day(2024, 4, 15, 0)}
MC_OfficeDates == {Day(2023, 12, 31, 9), Day(2024, 1, 30, 9)}
MC_FirstDate == [i \in Installations |-> Day(2023, 12, 31, 9)]

\* Midnight UTC of a day in winter, which is one o'clock local time.
MC_MidnightDays == {Day(2024, 1, 31, 0), Day(2024, 7, 31, 0)}
MC_Midnight == {Day(2024, 1, 15, 1)}
MC_FirstMidnight == [i \in Installations |-> Day(2024, 1, 15, 1)]
=============================================================================
