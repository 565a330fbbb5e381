----------------------------- MODULE TextStream -----------------------------
(***************************************************************************)
(* What relaying an answer promises its reader, whichever provider gives   *)
(* it and however the connection fares: the reader gets the pieces of the  *)
(* answer in order and without a gap, is told once how the answer ended,   *)
(* and is told that it is whole only when it has all of it.                *)
(***************************************************************************)
EXTENDS Naturals, Sequences, SequencesExt

VARIABLES
    said,      \* the pieces the provider has said
    complete,  \* whether it has said them all
    got,       \* the pieces the reader has
    outcome    \* what the reader was told, "open" while it was told nothing

vars == <<said, complete, got, outcome>>

Init == said = <<>> /\ complete = FALSE /\ got = <<>> /\ outcome = "open"

(* The last piece may say that it is the last. *)
Say ==
    /\ ~complete
    /\ IsPrefix(said, said')
    /\ complete' \in BOOLEAN
    /\ UNCHANGED <<got, outcome>>

Deliver ==
    /\ outcome = "open"
    /\ IsPrefix(got, got') /\ IsPrefix(got', said')
    /\ \/ UNCHANGED outcome
       \/ outcome' = "whole" /\ complete' /\ got' = said'
       \/ outcome' \in {"cut", "error", "failed", "gone"}

(* An answer may be said and delivered at once. *)
Next ==
    \/ Say
    \/ Deliver /\ UNCHANGED <<said, complete>>
    \/ Deliver /\ said = <<>> /\ ~complete /\ complete'

Spec == Init /\ [][Next]_vars

=============================================================================
