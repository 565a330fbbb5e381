--------------------------- MODULE MCTieredCache ---------------------------
(* A small instance of TieredCache: "a" is similar to "b" and "b" to "c",  *)
(* but "a" is not similar to "c".  The three are model values, as "a" and  *)
(* "c" are told apart by nothing else.                                     *)
EXTENDS TieredCache, TLC

CONSTANTS a, b, c

Ask(text, temperature) ==
    [model |-> "m", messages |-> <<[role |-> "user", content |-> <<text>>]>>,
     temperature |-> temperature, max_tokens |-> {}]

MCRequests == {Ask(a, {}), Ask(b, {1}), Ask(c, {})}

MCScore == [x \in {<<a>>, <<b>>, <<c>>}, y \in {<<a>>, <<b>>, <<c>>} |->
    CASE x = y -> 100
      [] {x, y} = {<<a>>, <<c>>} -> 50
      [] OTHER -> 90]

ASSUME QuestionsDiffer == KeysTell

(* Nothing reads the request that NoJob chooses for an idle client. *)
CacheSymmetry == Permutations(Clients) \cup Permutations({a, c})

=============================================================================
