----------------------------- MODULE MCGateway -----------------------------
(* Small instances of Gateway for TLC. *)
EXTENDS Gateway, TLC

GatewaySymmetry ==
    Permutations(Handlers) \cup Permutations(Keys) \cup Permutations(Answers)

=============================================================================
