------------------------------ MODULE MCLedger ------------------------------
(* A small instance of Ledger: New Year's Day and the days around the ends *)
(* of January and February, the last days of both in two parts.            *)
EXTENDS Ledger

MCEnds == {Date(2023, 1, 31), Date(2023, 2, 28)}

MCDates == {Date(2023, 1, 1), Date(2023, 2, 1), Date(2023, 3, 1)} \cup MCEnds

(* Fourteen months, with a leap day and without. *)
ASSUME CalendarHolds ==
    \A n \in DayOf(Date(2023, 2, 1))..DayOf(Date(2024, 3, 31)), r \in 1..31 : PeriodsMeet(n, r)

MCMoments == {2 * DayOf(d) : d \in MCDates} \cup {2 * DayOf(d) + 1 : d \in MCEnds}

=============================================================================
