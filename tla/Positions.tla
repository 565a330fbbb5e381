----------------------------- MODULE Positions -----------------------------
(***************************************************************************)
(* What a loop keeps of what it passes.  Written out, where SelectSeq      *)
(* would do, for proofs: the provers know nothing of SelectSeq.            *)
(***************************************************************************)
EXTENDS Naturals, Sequences

(* The numbers in I up to n, pushed one after the other. *)
Positions(n, I) ==
    LET upTo[k \in 0..n] ==
            IF k = 0 THEN <<>> ELSE IF k \in I THEN Append(upTo[k - 1], k) ELSE upTo[k - 1]
    IN  upTo[n]

(* What f has at the numbers up to n at which it has anything, in order. *)
InOrder(n, f) ==
    LET at == Positions(n, DOMAIN f)
    IN  [k \in DOMAIN at |-> f[at[k]]]

=============================================================================
