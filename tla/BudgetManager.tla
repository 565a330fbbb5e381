--------------------------- MODULE BudgetManager ---------------------------
(***************************************************************************)
(* Spending against a monthly budget: the budget manager's atomic counter  *)
(* (observability/budget_manager.rs), the cost tracker that writes the     *)
(* same costs to the event store (observability/cost_tracker.rs), and the  *)
(* pipeline that calls both around a provider call (pipeline.rs).          *)
(*                                                                         *)
(* Many requests run the pipeline at once.  A request is checked against   *)
(* the counter before the provider is called and charged after it, so what *)
(* is in flight is not in the counter.  A refresh replaces the counter by  *)
(* the sum of the stored costs, which it read some time before.            *)
(***************************************************************************)
EXTENDS Integers, FiniteSets

CONSTANTS
    Requests,      \* requests that may be in the pipeline at once
    Refreshers,    \* concurrent callers of refresh_from_store
    Costs,         \* costs of a response, in fractions of a micro-dollar
    MaxCost,       \* the largest of them
    Unit,          \* how many of these fractions make a micro-dollar
    Budget,        \* monthly_budget_usd, in micro-dollars
    HardLimit,     \* hard_limit
    TrackerFirst,  \* whether the cost tracker is registered after the budget
                   \* manager, so that its on_response runs before
    MaxRequests,   \* bound of the model: requests started
    MaxPeriods     \* bound of the model: billing periods

ASSUME RequestsFinite == IsFiniteSet(Requests)
ASSUME CostsBounded == Costs \subseteq 0..MaxCost /\ MaxCost \in Nat
ASSUME UnitPositive == Unit \in Nat \ {0}
ASSUME BudgetPositive == Budget \in Nat \ {0}
ASSUME SwitchesAreBoolean == HardLimit \in BOOLEAN /\ TrackerFirst \in BOOLEAN
ASSUME BoundsAreNat == MaxRequests \in Nat /\ MaxPeriods \in Nat

VARIABLES
    spend,     \* current_spend_micro
    phase,     \* how far each request is through the pipeline
    seen,      \* the counter behind the request's budget_remaining_ratio
    owed,      \* the cost of the response each request got
    stored,    \* sum of the costs the event store holds for this period
    period,    \* the billing period the clock is in
    snapshot,  \* what each refresh in progress has read, and when
    started,   \* how many requests entered the pipeline
    charged,   \* history: sum of all costs given to record_cost
    charges,   \* history: how many there were
    refreshed  \* history: whether a refresh ever replaced the counter

vars == <<spend, phase, seen, owed, stored, period, snapshot, started,
          charged, charges, refreshed>>

counts == <<charged, charges>>

history == <<charged, charges, refreshed>>

(* Mutant of Micro: costs are rounded up. *)
MicroUp(cost) == (cost + Unit - 1) \div Unit

(* cost_usd * 1_000_000.0, truncated to an integer *)
Micro(cost) == cost \div Unit

(* usage_ratio() >= 1.0, of a counter value *)
Exhausted(micro) == micro >= Budget

NoRead == [period |-> 0, sum |-> 0]

Init ==
    /\ spend = 0
    /\ phase = [r \in Requests |-> "idle"]
    /\ seen = [r \in Requests |-> 0]
    /\ owed = [r \in Requests |-> 0]
    /\ stored = 0
    /\ period = 1
    /\ snapshot = [f \in Refreshers |-> NoRead]
    /\ started = 0
    /\ charged = 0
    /\ charges = 0
    /\ refreshed = FALSE

Move(r, from, to) ==
    /\ phase[r] = from
    /\ phase' = [phase EXCEPT ![r] = to]

-----------------------------------------------------------------------------
(* on_request: the remaining ratio is computed from one load of the        *)
(* counter, the decision to block from a second one.                       *)

Measure(r) ==
    /\ started < MaxRequests
    /\ Move(r, "idle", "measured")
    /\ seen' = [seen EXCEPT ![r] = spend]
    /\ started' = started + 1
    /\ UNCHANGED <<spend, owed, stored, period, snapshot, history>>

(* Mutant of Blocks: the budget may be met. *)
BlocksLate == HardLimit /\ spend > Budget

Blocks == HardLimit /\ Exhausted(spend)

Admit(r) ==
    /\ ~Blocks
    /\ Move(r, "measured", "calling")
    /\ UNCHANGED <<spend, seen, owed, stored, period, snapshot, started, history>>

Reject(r) ==
    /\ Blocks
    /\ Move(r, "measured", "idle")
    /\ UNCHANGED <<spend, seen, owed, stored, period, snapshot, started, history>>

-----------------------------------------------------------------------------
(* The provider call, and the layers' on_response in reverse order.        *)

(* The provider fails, the caller goes away, or the request is a stream,   *)
(* whose response no layer sees: nothing is charged.                       *)
Uncharged(r) ==
    /\ Move(r, "calling", "idle")
    /\ UNCHANGED <<spend, seen, owed, stored, period, snapshot, started, history>>

Respond(r) ==
    /\ Move(r, "calling", IF TrackerFirst THEN "tracker" ELSE "budget")
    /\ \E c \in Costs : owed' = [owed EXCEPT ![r] = c]
    /\ UNCHANGED <<spend, seen, stored, period, snapshot, started, history>>

(* CostTracker: the cost goes to the event store. *)
Track(r) ==
    /\ Move(r, "tracker", IF TrackerFirst THEN "budget" ELSE "idle")
    /\ stored' = stored + owed[r]
    /\ UNCHANGED <<spend, seen, owed, period, snapshot, started, history>>

(* The store fails: the error ends the pipeline, later layers included. *)
TrackFails(r) ==
    /\ Move(r, "tracker", "idle")
    /\ UNCHANGED <<spend, seen, owed, stored, period, snapshot, started, history>>

(* BudgetManager: record_cost adds the truncated cost to the counter. *)
Charge(r) ==
    /\ Move(r, "budget", IF TrackerFirst THEN "idle" ELSE "tracker")
    /\ spend' = spend + Micro(owed[r])
    /\ charged' = charged + owed[r]
    /\ charges' = charges + 1
    /\ UNCHANGED <<seen, owed, stored, period, snapshot, started, refreshed>>

-----------------------------------------------------------------------------
(* refresh_from_store: the events are read; later the start of the period  *)
(* is computed, the events before it are dropped and the rest replaces the *)
(* counter.                                                                *)

ReadStore(f) ==
    /\ snapshot[f] = NoRead
    /\ snapshot' = [snapshot EXCEPT ![f] = [period |-> period, sum |-> stored]]
    /\ UNCHANGED <<spend, phase, seen, owed, stored, period, started, history>>

(* The sum of a snapshot's events that belong to the current period. *)
InPeriod(s) == IF s.period = period THEN s.sum ELSE 0

(* Mutant of WriteCounter: the sum is added to the counter. *)
AddToCounter(f) ==
    /\ snapshot[f] # NoRead
    /\ spend' = spend + Micro(InPeriod(snapshot[f]))
    /\ snapshot' = [snapshot EXCEPT ![f] = NoRead]
    /\ refreshed' = TRUE
    /\ UNCHANGED <<phase, seen, owed, stored, period, started, counts>>

WriteCounter(f) ==
    /\ snapshot[f] # NoRead
    /\ spend' = Micro(InPeriod(snapshot[f]))
    /\ snapshot' = [snapshot EXCEPT ![f] = NoRead]
    /\ refreshed' = TRUE
    /\ UNCHANGED <<phase, seen, owed, stored, period, started, counts>>

(* The reset day comes: the stored costs are those of a past period. *)
NewPeriod ==
    /\ period < MaxPeriods
    /\ period' = period + 1
    /\ stored' = 0
    /\ UNCHANGED <<spend, phase, seen, owed, snapshot, started, history>>

-----------------------------------------------------------------------------
Step(r) ==
    \/ Measure(r) \/ Admit(r) \/ Reject(r)
    \/ Uncharged(r) \/ Respond(r)
    \/ Track(r) \/ TrackFails(r) \/ Charge(r)

Next ==
    \/ \E r \in Requests : Step(r)
    \/ \E f \in Refreshers : ReadStore(f) \/ WriteCounter(f)
    \/ NewPeriod

Spec == Init /\ [][Next]_vars

-----------------------------------------------------------------------------
Phases == {"idle", "measured", "calling", "tracker", "budget"}

(* Types, and two facts about a request's place in the pipeline: it never   *)
(* owes more than the largest cost, and a snapshot is never from the future. *)
TypeOK ==
    /\ spend \in Nat
    /\ phase \in [Requests -> Phases]
    /\ seen \in [Requests -> Nat]
    /\ owed \in [Requests -> 0..MaxCost]
    /\ stored \in Nat
    /\ period \in Nat \ {0}
    /\ snapshot \in [Refreshers -> [period : 0..period, sum : Nat]]
    /\ started \in Nat
    /\ charged \in Nat /\ charges \in Nat
    /\ refreshed \in BOOLEAN

(* Requests that have been admitted and are not in the counter yet. *)
InFlight == {r \in Requests :
                \/ phase[r] = "calling"
                \/ phase[r] = "budget"
                \/ phase[r] = "tracker" /\ TrackerFirst}

(* With a hard limit the counter passes the budget by less than the cost of *)
(* as many responses as there are concurrent requests: on_request checks    *)
(* before the call and on_response charges after it, and that is all that   *)
(* slips through, as long as no refresh has replaced the counter.           *)
OvershootBounded ==
    (HardLimit /\ ~refreshed) =>
        spend < Budget + Cardinality(Requests) * Micro(MaxCost)

(* A request that was let through was told that some budget remained, even  *)
(* though on_request loads the counter once for the ratio and once for the  *)
(* decision, as long as no refresh has replaced the counter.                *)
AdmittedSawBudget ==
    (HardLimit /\ ~refreshed) =>
        \A r \in Requests : phase[r] \notin {"idle", "measured"} => ~Exhausted(seen[r])

(* What record_cost loses to truncation is less than a micro-dollar for     *)
(* each charge, and the counter is never ahead of the charges, as long as   *)
(* no refresh has replaced the counter.                                     *)
TruncationBounded ==
    ~refreshed =>
        /\ spend * Unit <= charged
        /\ charged <= spend * Unit + charges * (Unit - 1)

(* When the budget manager charges before the cost tracker stores, no       *)
(* interleaving of refreshes with charges makes the counter exceed what was *)
(* charged: a refresh may forget a charge and never counts one twice.       *)
NeverOvercharges == ~TrackerFirst => spend * Unit <= charged

(* "supporting full recalculation from the EventStore for accuracy",        *)
(* budget_manager.rs:80: with nothing in progress the counter holds at      *)
(* least what the store holds.                                              *)
RecalculationIsAccurate ==
    ((\A r \in Requests : phase[r] = "idle") /\ (\A f \in Refreshers : snapshot[f] = NoRead))
        => spend >= Micro(stored)

=============================================================================
