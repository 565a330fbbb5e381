----------------------------- MODULE MCRouting -----------------------------
(* A small instance of Routing: a fallback for m1 has two providers within *)
(* its attempts; one for m2 spends the first on a provider without m2, and *)
(* the last provider is beyond the retries.  One is not registered for     *)
(* want of a key.  For m1 the gateway prefers the first of two, for m2 the *)
(* last.                                                                   *)
EXTENDS Routing, TLC

MCConfigs ==
    LET config(id, set, models, priority) ==
            [id |-> id, type |-> "openai", key_set |-> set, models |-> models,
             priority |-> priority]
    IN  <<config("a", TRUE, <<"m1">>, 3), config("b", FALSE, <<"m1">>, 1),
          config("c", TRUE, <<"m1", "m2">>, 3), config("d", TRUE, <<"m2">>, 2)>>

(* With the balancer first its choice is undone by the auctioneer. *)
MCLayerOrders == {<<"balancer", "auctioneer">>, <<"auctioneer", "balancer">>, <<"balancer">>}

MCListings ==
    UNION {[1..n -> ProviderConfig({"a", "b"}, {<<"m1">>, <<"m2", "m1">>}, 1..2)] : n \in 0..2}

ASSUME ListingHolds == \A cfgs \in MCListings : ListedIsServed(cfgs)

MCCandidates == <<"m1", "m2">>

ClientSymmetry == Permutations(Clients)

=============================================================================
