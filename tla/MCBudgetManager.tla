-------------------------- MODULE MCBudgetManager --------------------------
(* Small instances of BudgetManager for TLC. *)
EXTENDS BudgetManager, TLC

RequestSymmetry == Permutations(Requests)

=============================================================================
