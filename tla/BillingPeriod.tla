--------------------------- MODULE BillingPeriod ---------------------------
(***************************************************************************)
(* The calendar of the observability crate: where the billing period of a  *)
(* day starts (budget_manager.rs) and how many days a month has left       *)
(* (cost_forecaster.rs).  Days are numbered from the first of March of the *)
(* year 0; DayOf and DateOf stand for chrono, whose months are counted     *)
(* from March here, so that a leap day is the last of its year.            *)
(***************************************************************************)
EXTENDS Integers, FiniteSetsExt

Date(y, m, d) == [year |-> y, month |-> m, day |-> d]

LeapYear(y) == y % 4 = 0 /\ (y % 100 # 0 \/ y % 400 = 0)

LastDayOfMonth(y, m) ==
    CASE m \in {1, 3, 5, 7, 8, 10, 12} -> 31
      [] m \in {4, 6, 9, 11} -> 30
      [] OTHER -> IF LeapYear(y) THEN 29 ELSE 28

(* The first days of a year, and of a month within it. *)
Years(y) == 365 * y + y \div 4 - y \div 100 + y \div 400

Months(k) == (153 * k + 2) \div 5

DayOf(date) ==
    LET year == IF date.month <= 2 THEN date.year - 1 ELSE date.year
    IN  Years(year) + Months((date.month + 9) % 12) + date.day - 1

DateOf(n) ==
    LET guess == (400 * n) \div 146097
        year  == Max({y \in {guess - 1, guess, guess + 1} : Years(y) <= n})
        k     == (5 * (n - Years(year)) + 2) \div 153
        month == IF k < 10 THEN k + 3 ELSE k - 9
    IN  Date(IF month <= 2 THEN year + 1 ELSE year, month, n - Years(year) - Months(k) + 1)

(* billing_period_start_ms: this month or the month before, and then its   *)
(* reset day, or its last when it has no such day.                         *)
PeriodStart(n, reset) ==
    LET today == DateOf(n)
        month == IF today.day >= reset THEN Date(today.year, today.month, 1)
                 ELSE IF today.month = 1 THEN Date(today.year - 1, 12, 1)
                 ELSE Date(today.year, today.month - 1, 1)
    IN  DayOf([month EXCEPT !.day = Min({reset, LastDayOfMonth(month.year, month.month)})])

DaysUntilMonthEnd(n) ==
    LET today == DateOf(n) IN LastDayOfMonth(today.year, today.month) - today.day

-----------------------------------------------------------------------------
(* What a billing period is: it begins on the reset day of each month, or  *)
(* on the last day of a month that has no such day.                        *)

MonthIsShort(n, reset) ==
    LET today == DateOf(n) IN LastDayOfMonth(today.year, today.month) < reset

IsResetDay(n, reset) ==
    LET today == DateOf(n)
    IN  today.day = Min({reset, LastDayOfMonth(today.year, today.month)})

LatestReset(n, reset) == Max({d \in n - 31..n : d >= 0 /\ IsResetDay(d, reset)})

(* billing_period_start_ms finds the latest reset, whatever the month,     *)
(* except on the last day of a month without the reset day: that day is    *)
(* still in the old period, and the day after it is in the new one.        *)
PeriodsMeet(n, reset) ==
    PeriodStart(n, reset) =
        LatestReset(IF IsResetDay(n, reset) /\ MonthIsShort(n, reset) THEN n - 1 ELSE n, reset)

=============================================================================
