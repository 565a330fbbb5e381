------------------------------ MODULE MCLayers ------------------------------
(* A small instance of Layers: the numbers a scanner looks for, what may   *)
(* stand around them, and two words.                                       *)
EXTENDS Layers

Zeros(n) == [k \in 1..n |-> "0"]

MCSsn(sex) == Zeros(6) \o <<"-", sex>> \o Zeros(6)
MCMobile == <<"0", "1", "0", "-", "5", "5", "5", "5", "-", "5", "5", "5", "5">>
MCLandline == <<"0", "5", "-", "5", "5", "5", "-", "5", "5", "5", "5">>
MCCard(sep) == Zeros(4) \o <<sep>> \o Zeros(4) \o <<sep>> \o Zeros(4) \o <<sep>> \o Zeros(4)
MCEmailEnd == <<"@", "a", ".", "a", "a">>
MCHangul == <<"H", "h", "h">>
MCWords == <<"z", "a", " ">>

MCParts == {MCSsn("1"), MCSsn("2"), MCMobile, MCLandline, MCCard("-"), Zeros(16),
            MCEmailEnd, MCHangul, MCWords, <<" ", "b">>, <<"1">>, <<"-">>, <<".">>}

MCPatterns == {<<"a", " ", "b">>}

MCCandidates ==
    LET model(cost, latency, quality) == [cost |-> cost, latency |-> latency, quality |-> quality]
    IN  <<model(6, 2, 2), model(5, 8, 2), model(1, 9, 1), model(NotFinite, 9, 0)>>

MCTable == [batch |-> [cost |-> 6, latency |-> 1, quality |-> 3],
            bulk  |-> [cost |-> 5, latency |-> 6, quality |-> 0]]

ASSUME GateHolds ==
    LET model(tags) == [tags |-> tags]
    IN  /\ GateOffersModels(<<model({"nano"}), model({}), model({"4o", "mini"})>>)
        /\ GateOffersModels(<<model({"sonnet"}), model({})>>)
        /\ GateOffersModels(<<model({"nano"})>>)

ASSUME RolesHold ==
    \A n \in 0..4 : \A roles \in [1..n -> Roles] :
        SystemComesFirst([i \in 1..n |-> [role |-> roles[i]]])

=============================================================================
