---------------------------- MODULE MCExactCache ----------------------------
(* Small instances of ExactCache for TLC. *)
EXTENDS ExactCache, TLC

CONSTANTS h1, h2, h3

OneShard == [h \in Hashes |-> 1]

(* h1 alone in the first shard, the others in the second. *)
TwoShards == [h \in Hashes |-> IF h = h1 THEN 1 ELSE 2]

ClientSymmetry == Permutations(Clients)

(* With one shard the hashes are interchangeable too. *)
FullSymmetry == Permutations(Clients) \cup Permutations(Hashes)

=============================================================================
