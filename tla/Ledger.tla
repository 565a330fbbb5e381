------------------------------- MODULE Ledger -------------------------------
(***************************************************************************)
(* What the observability crate makes of recorded costs over weeks and     *)
(* restarts: the event stores (store/mod.rs in memory, sqlite_store.rs,    *)
(* postgres_store.rs), the budget manager's recalculation for the billing  *)
(* period of a day (budget_manager.rs), and the forecast of the month      *)
(* (cost_forecaster.rs).                                                   *)
(*                                                                         *)
(* Time is counted in parts of a day.  How a charge races a recalculation  *)
(* is in BudgetManager; here a charge is one step.                         *)
(***************************************************************************)
EXTENDS BillingPeriod, Sequences, SequencesExt

CONSTANTS
    Backends,    \* "memory", "sqlite", "postgres"
    ResetDays,   \* reset_day
    Moments,     \* the times at which something may happen
    DayLength,   \* parts of a day
    Amounts,     \* cost_usd of an event
    Horizon,     \* forecast_horizon_days
    None,
    MaxEvents    \* bound of the model: costs recorded

ASSUME ResetDaysExist == ResetDays \subseteq 1..31
ASSUME DayHasParts == DayLength \in Nat \ {0}
ASSUME MomentsInCalendar == Moments # {} /\ \A t \in Moments : t >= 31 * DayLength
ASSUME LedgerIsNat == Moments \cup Amounts \cup {Horizon, MaxEvents} \subseteq Nat
ASSUME BackendsKnown == Backends \subseteq {"memory", "sqlite", "postgres"}

VARIABLES
    backend, reset,   \* configuration
    now,
    events,    \* the rows of the store, in the order of their timestamps
    counter,   \* current_spend_micro
    read,      \* how many rows the refresh in progress has read
    paid       \* history: all costs ever recorded

ledger == <<backend, reset, now, events, counter, read, paid>>

Day(t) == t \div DayLength

(* The first moment of the billing period of a moment, and of the latest   *)
(* reset before it or before the day before it.                            *)
Starts == [t \in Moments |-> [r \in ResetDays |-> DayLength * PeriodStart(Day(t), r)]]

Resets == [t \in Moments |-> [r \in ResetDays |-> DayLength * LatestReset(Day(t), r)]]

ResetsBefore == [t \in Moments |-> [r \in ResetDays |-> DayLength * LatestReset(Day(t) - 1, r)]]

(* It is the last day of a month that has no such day as the reset day. *)
LateReset == [t \in Moments |-> [r \in ResetDays |-> IsResetDay(Day(t), r) /\ MonthIsShort(Day(t), r)]]

DaysLeft == [t \in Moments |-> DaysUntilMonthEnd(Day(t))]

Open ==
    /\ backend \in Backends
    /\ reset \in ResetDays
    /\ now = Min(Moments)
    /\ events = <<>> /\ paid = <<>>
    /\ counter = 0
    /\ read = None

(* The sum of the first n of the numbers in f. *)
SumTo(f, n) ==
    LET upTo[k \in 0..n] == IF k = 0 THEN 0 ELSE upTo[k - 1] + f[k]
    IN  upTo[n]

Sum(rows, I) == SumTo([i \in DOMAIN rows |-> IF i \in I THEN rows[i].cost ELSE 0], Len(rows))

-----------------------------------------------------------------------------
(* CostTracker::record and BudgetManager::record_cost *)
Record(c) ==
    LET e == [at |-> now, cost |-> c]
    IN  /\ Len(paid) < MaxEvents
        /\ events' = Append(events, e)
        /\ paid' = Append(paid, e)
        /\ counter' = counter + c
        /\ UNCHANGED <<backend, reset, now, read>>

(* refresh_from_store: the events are read; what they sum to is computed   *)
(* for the billing period of the moment after the await.                   *)
ReadRows ==
    /\ read = None
    /\ read' = Len(events)
    /\ UNCHANGED <<backend, reset, now, events, counter, paid>>

(* Mutant of Since: the first moment of the period is left out. *)
SinceAfter(rows, start) == {i \in DOMAIN rows : rows[i].at > start}

Since(rows, start) == {i \in DOMAIN rows : rows[i].at >= start}

Recalculate ==
    /\ read # None
    /\ counter' = Sum(events, Since(events, Starts[now][reset]) \cap 1..read)
    /\ read' = None
    /\ UNCHANGED <<backend, reset, now, events, paid>>

(* The process starts anew: the tables of the databases are found, the     *)
(* counter is zero until the next refresh.                                 *)
Restart ==
    /\ events' = IF backend = "memory" THEN <<>> ELSE events
    /\ counter' = 0 /\ read' = None
    /\ UNCHANGED <<backend, reset, now, paid>>

Advance ==
    /\ \E t \in Moments : t > now /\ now' = t
    /\ UNCHANGED <<backend, reset, events, counter, read, paid>>

LedgerNext == (\E c \in Amounts : Record(c)) \/ ReadRows \/ Recalculate \/ Restart \/ Advance

LedgerSpec == Open /\ [][LedgerNext]_ledger

-----------------------------------------------------------------------------
(* Mutant of Cutoff: the horizon starts with the day, not the moment. *)
CutoffOfDay(days) == Max({0, DayLength * (Day(now) - days - 1)})

Cutoff(days) == Max({0, now - days * DayLength})

(* daily_costs: the sums of the days on which something was spent, in the  *)
(* order of the days.                                                      *)
DailyCosts(days) ==
    LET recent == Since(events, Cutoff(days))
        first == Day(Cutoff(days))
        last == Day(now) + 1 - first
        onDay(k) == {i \in recent : Day(events[i].at) = first + k - 1}
        upTo[k \in 0..last] ==
            IF k = 0 THEN <<>>
            ELSE IF onDay(k) = {} THEN upTo[k - 1]
            ELSE Append(upTo[k - 1], Sum(events, onDay(k)))
    IN  upTo[last]

Total(costs) == SumTo(costs, Len(costs))

(* linear_regression over the indices 0..n-1: the slope as a fraction.     *)
Slope(costs) ==
    LET n == Len(costs)
        x(i) == 2 * (i - 1) - (n - 1)
    IN  [num |-> 2 * SumTo([i \in 1..n |-> x(i) * (n * costs[i] - Total(costs))], n),
         den |-> n * SumTo([i \in 1..n |-> x(i) * x(i)], n)]

(* All amounts of a forecast are multiples of one part in this many. *)
Scale(costs) == 2 * Len(costs) * Slope(costs).den

(* slope * x + intercept *)
Line(costs, x) ==
    2 * Slope(costs).den * Total(costs)
        + Len(costs) * Slope(costs).num * (2 * x - (Len(costs) - 1))

(* Mutant of Projected: costs may be negative. *)
ProjectedBelowZero(costs, x) == Line(costs, x)

Projected(costs, x) == Max({0, Line(costs, x)})

Estimated(costs, remaining) ==
    Total(costs) * Scale(costs)
        + SumTo([d \in 1..remaining |-> Projected(costs, Len(costs) + d - 1)], remaining)

(* forecast, given the margin that the scatter of the costs leaves, and    *)
(* three days of costs.                                                    *)
Forecast(costs, remaining, margin) ==
    LET estimated == Estimated(costs, remaining)
        slope == Slope(costs)
    IN  [estimated |-> estimated,
         lower     |-> Max({estimated - margin, Total(costs) * Scale(costs)}),
         upper     |-> estimated + margin,
         trend     |-> CASE 100 * slope.num > slope.den -> "rising"
                         [] 100 * slope.num < -slope.den -> "falling"
                         [] OTHER -> "stable"]

-----------------------------------------------------------------------------
(* Types, and a refresh in progress has read no row that is not there.     *)
LedgerTypeOK ==
    /\ now \in Moments /\ counter \in Nat
    /\ \A e \in Range(events) : e.at \in Moments /\ e.at <= now /\ e.cost \in Amounts
    /\ read # None => read \in 0..Len(events)
    /\ backend # "memory" => events = paid

(* A refresh that no charge raced finds, after any restarts, what was paid *)
(* since the latest reset, if the store outlives the process - but on the  *)
(* last day of a short month, what was paid since the one before.          *)
RefreshRecovers ==
    [][(Recalculate /\ backend # "memory" /\ read = Len(paid)) =>
          LET start == IF LateReset[now][reset] THEN ResetsBefore[now][reset]
                                                ELSE Resets[now][reset]
          IN  counter' = Sum(paid, {i \in DOMAIN paid : paid[i].at >= start})]_ledger

(* daily_costs loses nothing of the last days, has one value for each day  *)
(* with a cost, and at most one more than it was asked for: the horizon    *)
(* starts at the time of day it is now.                                    *)
DailyCostsComplete ==
    LET daily == DailyCosts(Horizon)
        recent == {i \in DOMAIN events : events[i].at >= now - Horizon * DayLength}
    IN  /\ Total(daily) = Sum(events, recent)
        /\ Len(daily) = Cardinality({Day(events[i].at) : i \in recent})
        /\ Len(daily) <= Horizon + 1

(* A forecast lies between its bounds and above what was spent, however    *)
(* steeply costs fall and however wide the margin, and a rising trend      *)
(* projects days above the mean, a falling one below.                      *)
ForecastSound ==
    LET daily == DailyCosts(Horizon)
        remaining == DaysLeft[now]
        mean == 2 * Slope(daily).den * Total(daily)
    IN  Len(daily) >= 3 =>
          \A margin \in {0, Scale(daily), 100 * Scale(daily)} :
              LET f == Forecast(daily, remaining, margin)
              IN  /\ f.lower <= f.estimated /\ f.estimated <= f.upper
                  /\ f.lower >= Total(daily) * Scale(daily)
                  /\ f.trend = "rising" => Line(daily, Len(daily)) > mean
                  /\ f.trend = "falling" => Line(daily, Len(daily)) < mean

=============================================================================
