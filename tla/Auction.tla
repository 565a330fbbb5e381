------------------------------ MODULE Auction -------------------------------
(***************************************************************************)
(* How one model is chosen among several (the intel crate's router): by    *)
(* cost, latency and quality (cost_auctioneer.rs), and by the complexity   *)
(* of the request (complexity_gate.rs).  Amounts are whole numbers: costs  *)
(* and latencies of any unit, qualities from 0 to Best, weights in tenths. *)
(***************************************************************************)
EXTENDS CacheKey, Integers

CONSTANTS
    NotFinite,   \* a cost or a latency that is NaN or infinite
    Best         \* the quality 1.0

ASSUME BestIsPositive == Best \in Nat \ {0}

DefaultWeights == [cost |-> 2, latency |-> 6, quality |-> 2]

(* get_context_weights: an unknown type of request is interactive only in  *)
(* that it has the default weights.                                        *)
Weights(table, type) == IF type \in DOMAIN table THEN table[type] ELSE DefaultWeights

-----------------------------------------------------------------------------
(* safe_normalize: value / unit is Part(value, all) / Unit(all) *)

Finite(all) == all \ {NotFinite}

Flat(all) == Cardinality(Finite(all)) <= 1

Unit(all) == IF Flat(all) THEN 2 ELSE 2 * (Max(Finite(all)) - Min(Finite(all)))

Part(value, all) ==
    IF value = NotFinite \/ Flat(all) THEN Unit(all) \div 2
                                      ELSE 2 * (value - Min(Finite(all)))

Costs(C) == {C[i].cost : i \in DOMAIN C}
Latencies(C) == {C[i].latency : i \in DOMAIN C}

(* Mutant of BudgetFactor: cost counts less the less there is. *)
BudgetFactorOfPlenty(low) == IF low THEN 2 ELSE 3

(* A budget of less than a fifth makes cost count one and a half times.    *)
BudgetFactor(low) == IF low THEN 3 ELSE 2

(* The combined score of a candidate, over a denominator common to all.    *)
CostScore(C, i, w) == Best * Unit(Latencies(C)) * w.cost * Part(C[i].cost, Costs(C))

OtherScore(C, i, w) ==
    2 * Best * Unit(Costs(C)) * w.latency * Part(C[i].latency, Latencies(C))
        + 2 * Unit(Costs(C)) * Unit(Latencies(C)) * w.quality * (Best - C[i].quality)

Combined(C, i, w, low) == BudgetFactor(low) * CostScore(C, i, w) + OtherScore(C, i, w)

(* Of the lowest scores the first: the sort is stable. *)
IsBest(C, i, w, low) ==
    /\ i \in DOMAIN C
    /\ \A k \in DOMAIN C :
          \/ Combined(C, i, w, low) < Combined(C, k, w, low)
          \/ Combined(C, i, w, low) = Combined(C, k, w, low) /\ i <= k

(* select_best: while the bandit is cold the first, on some draws any.     *)
Selected(C, w, low, mode) ==
    CASE mode = "cold"     -> {1} \cap DOMAIN C
      [] mode = "explores" -> DOMAIN C
      [] mode = "scores"   -> {i \in DOMAIN C : IsBest(C, i, w, low)}

-----------------------------------------------------------------------------
(* The complexity gate *)

CONSTANTS
    SimpleMax, ComplexMin,   \* simple_max_tokens, complex_min_tokens
    SystemWeight,            \* system_prompt_weight, in halves
    Several, Many            \* more messages than these weigh more: 5 and 10

ASSUME GateBoundsAreNat == {SimpleMax, ComplexMin, SystemWeight, Several, Many} \subseteq Nat

Levels == <<"simple", "medium", "complex">>

Rank(level) == CHOOSE k \in DOMAIN Levels : Levels[k] = level

Tokens(text) == Max({1, Len(text) \div 4})

(* Mutant of LengthWeight: the two kinds of long conversation exclude each *)
(* other the wrong way.                                                    *)
LengthWeightOfSeveral(n) == IF n > Several /\ n <= Many THEN 11 ELSE 10

LengthWeight(n) == IF n > Many THEN 13 ELSE IF n > Several THEN 11 ELSE 10

EstimatedTokens(messages) ==
    LET of(m) == Tokens(m.content) * (IF m.role = "system" THEN SystemWeight ELSE 2)
        upTo[n \in 0..Len(messages)] == IF n = 0 THEN 0 ELSE upTo[n - 1] + of(messages[n])
    IN  (upTo[Len(messages)] * LengthWeight(Len(messages))) \div 20

Classify(messages, tools) ==
    LET n == EstimatedTokens(messages)
    IN  IF tools THEN "complex"
        ELSE IF n <= SimpleMax THEN "simple"
        ELSE IF n >= ComplexMin THEN "complex" ELSE "medium"

(* What a model's name may contain. *)
SmallTags == {"nano", "mini", "haiku"}
MiddleTags == {"mini", "haiku", "sonnet", "4o", "4.1"}

Has(m, tags) == m.tags \cap tags # {}

Named(models, tags) ==
    LET upTo[n \in 0..Len(models)] ==
            IF n = 0 THEN <<>>
            ELSE IF Has(models[n], tags) THEN Append(upTo[n - 1], models[n]) ELSE upTo[n - 1]
    IN  upTo[Len(models)]

FilterModels(models, level) ==
    LET fitting == Named(models, IF level = "simple" THEN SmallTags ELSE MiddleTags)
    IN  IF level = "complex" \/ fitting = <<>> THEN models ELSE fitting

(* The gate leaves some model at every level, and those named mini or      *)
(* haiku at all levels: a conversation that grows does not lose them.      *)
GateOffersModels(models) ==
    LET lasting == {"mini", "haiku"}
    IN  \A level \in Range(Levels) :
            /\ FilterModels(models, level) # <<>>
            /\ Named(FilterModels(models, level), lasting) = Named(models, lasting)

=============================================================================
