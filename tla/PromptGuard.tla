---------------------------- MODULE PromptGuard -----------------------------
(***************************************************************************)
(* What the prompt guard of the security crate (prompt_guard.rs) tells of  *)
(* a request and of an answer.  A text is a sequence of characters, of     *)
(* which " " stands for white space and "z" for a character of no width.   *)
(***************************************************************************)
EXTENDS Integers, SequencesExt, FiniteSetsExt

CONSTANTS
    Patterns,   \* INJECTION_PATTERNS
    Gram        \* words of an n-gram: 4 in the code

ASSUME GramIsPositive == Gram \in Nat \ {0}

Blank == " "

(* Mutant of Read: characters of no width are read. *)
ReadAll(s, c) == IF c = Blank /\ (s = <<>> \/ Last(s) = Blank) THEN s ELSE Append(s, c)

(* What is read of a character: nothing, when it has no width or is white  *)
(* space at the beginning or behind other white space.                     *)
Read(s, c) == IF c = "z" \/ (c = Blank /\ (s = <<>> \/ Last(s) = Blank)) THEN s ELSE Append(s, c)

(* normalize_for_detection, but for the case of letters: what is read of   *)
(* the text, and white space that is left at the end is cut.               *)
Normalized(text) ==
    LET upTo[k \in 0..Len(text)] == IF k = 0 THEN <<>> ELSE Read(upTo[k - 1], text[k])
        result == upTo[Len(text)]
    IN  IF result # <<>> /\ Last(result) = Blank THEN Front(result) ELSE result

Includes(text, pattern) ==
    \E i \in 0..(Len(text) - Len(pattern)) : SubSeq(text, i + 1, i + Len(pattern)) = pattern

(* scan_input *)
Suspicious(messages) ==
    \E m \in Range(messages) :
        m.role = "user" /\ \E p \in Patterns : Includes(Normalized(m.content), p)

(* check_role_boundary *)
RoleBoundary(messages) ==
    FoldLeft(LAMBDA s, m : [seen |-> s.seen \/ m.role # "system",
                            ok   |-> s.ok /\ ~(m.role = "system" /\ s.seen)],
             [seen |-> FALSE, ok |-> TRUE], messages).ok

(* The guard accepts the roles of a conversation exactly when its system   *)
(* messages come first (check_role_boundary).                              *)
SystemComesFirst(messages) ==
    RoleBoundary(messages) =
        ~\E i, j \in DOMAIN messages :
            i < j /\ messages[i].role # "system" /\ messages[j].role = "system"

-----------------------------------------------------------------------------
(* split_whitespace: the words so far, the last one not yet ended. *)
Split(s, c) ==
    IF c # Blank THEN [s EXCEPT ![Len(s)] = Append(@, c)]
    ELSE IF Last(s) = <<>> THEN s ELSE Append(s, <<>>)

Words(text) ==
    LET upTo[k \in 0..Len(text)] == IF k = 0 THEN << <<>> >> ELSE Split(upTo[k - 1], text[k])
        split == upTo[Len(text)]
    IN  IF Last(split) = <<>> THEN Front(split) ELSE split

(* Mutant of Grams: the last one is left out. *)
GramsButLast(words) == {SubSeq(words, i, i + Gram - 1) : i \in 1..(Len(words) - Gram)}

Grams(words) == {SubSeq(words, i, i + Gram - 1) : i \in 1..(Len(words) - Gram + 1)}

(* compute_ngram_overlap, as a fraction; none of none is none of one. *)
Overlap(source, target) ==
    [num |-> Cardinality(Grams(source) \cap Grams(target)),
     den |-> Max({1, Cardinality(Grams(source))})]

(* validate_output.  The threshold is a fraction, of the n-grams or, when  *)
(* the mode is absolute, divided by the number of words.                   *)
Leaks(source, target, mode, threshold) ==
    LET o == Overlap(Words(source), Words(target))
        parts == IF mode = "absolute" THEN Len(Words(source)) ELSE 1
    IN  /\ Words(source) # <<>>
        /\ o.num * threshold.den * parts > threshold.num * o.den

=============================================================================
