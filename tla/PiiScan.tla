------------------------------ MODULE PiiScan -------------------------------
(***************************************************************************)
(* Finding and masking personal data in a text (pii_detector.rs and        *)
(* pii_masker.rs of the security crate).                                   *)
(*                                                                         *)
(* A text is a sequence of bytes, and a byte one of the classes the        *)
(* scanners tell apart: of the digits "0", "1", "2" for 2 to 4 and "5" for *)
(* 5 to 9; "a" for an ASCII letter; "_" also for "+"; "H" begins and "h"   *)
(* continues the three bytes of a Hangul character; "*" for all the rest.  *)
(***************************************************************************)
EXTENDS Positions, Integers, SequencesExt, FiniteSetsExt

CONSTANT ContextWindow   \* how far validate_context looks, 50 bytes in the code

Digit == {"0", "1", "2", "5"}
LocalPart == Digit \cup {"a", "H", "h", ".", "_", "-"}
Domain == Digit \cup {"a", "H", "h", ".", "-"}

(* A pattern is what may stand at each of its positions. *)
Ssn == [k \in 1..14 |-> CASE k = 7 -> {"-"} [] k = 8 -> {"1", "2"} [] OTHER -> Digit]

Mobile == [k \in 1..13 |-> CASE k \in {1, 3} -> {"0"} [] k = 2 -> {"1"}
                             [] k \in {4, 9} -> {"-"} [] OTHER -> Digit]

Landline == [k \in 1..11 |-> CASE k = 1 -> {"0"} [] k \in {3, 7} -> {"-"} [] OTHER -> Digit]

Card(sep) == [k \in 1..19 |-> IF k \in {5, 10, 15} THEN {sep} ELSE Digit]

BareCard == [k \in 1..16 |-> Digit]

At(text, i, pattern) ==
    /\ i + Len(pattern) <= Len(text) + 1
    /\ \A k \in DOMAIN pattern : text[i + k - 1] \in pattern[k]

(* The characters around the pattern are not digits. *)
Alone(text, i, pattern) ==
    /\ At(text, i, pattern)
    /\ i = 1 \/ text[i - 1] \notin Digit
    /\ i + Len(pattern) > Len(text) \/ text[i + Len(pattern)] \notin Digit

(* A match is its first position and the first after it. *)
Span(kind, start, stop) == [kind |-> kind, start |-> start, stop |-> stop]

(* The matches of a pattern, by the positions at which it stands. *)
Found(kind, at, pattern) == [i \in at |-> Span(kind, i, i + Len(pattern))]

(* Where both stand, the first. *)
Either(f, g) == [i \in DOMAIN f \cup DOMAIN g |-> IF i \in DOMAIN f THEN f[i] ELSE g[i]]

Behind(found, i) == found = <<>> \/ Last(found).stop <= i

(* From left to right through what matches at which position: a match of   *)
(* the scan is reached behind the one before.                              *)
Scan(n, hits) ==
    LET upTo[i \in 0..n] ==
            IF i = 0 THEN <<>>
            ELSE IF i \in DOMAIN hits /\ Behind(upTo[i - 1], i) THEN Append(upTo[i - 1], hits[i])
            ELSE upTo[i - 1]
    IN  upTo[n]

-----------------------------------------------------------------------------
Standing(text, pattern) == {i \in DOMAIN text : At(text, i, pattern)}
StandingAlone(text, pattern) == {i \in DOMAIN text : Alone(text, i, pattern)}

Ssns(text) == InOrder(Len(text), Found("ssn", Standing(text, Ssn), Ssn))

(* Mutant of Phones: a phone next to a digit is none, as for cards. *)
PhonesAlone(text) ==
    Scan(Len(text), Either(Found("phone", StandingAlone(text, Mobile), Mobile),
                           Found("phone", StandingAlone(text, Landline), Landline)))

Phones(text) ==
    Scan(Len(text), Either(Found("phone", Standing(text, Mobile), Mobile),
                           Found("phone", Standing(text, Landline), Landline)))

(* The longest local part and domain around an @, if the domain ends in a  *)
(* dot and two letters or more.                                            *)
EmailFrom(text, i) == Min({k \in 1..i : \A j \in k..(i - 1) : text[j] \in LocalPart})

EmailTo(text, i) ==
    Max({k \in (i + 1)..(Len(text) + 1) : \A j \in (i + 1)..(k - 1) : text[j] \in Domain})

IsEmail(text, i) ==
    /\ text[i] = "@" /\ EmailFrom(text, i) < i
    /\ \E dot \in (i + 1)..(EmailTo(text, i) - 3) :
          text[dot] = "." /\ \A j \in (dot + 1)..(EmailTo(text, i) - 1) : text[j] = "a"

Emails(text) ==
    Scan(Len(text), [i \in {i \in DOMAIN text : IsEmail(text, i)} |->
                        Span("email", EmailFrom(text, i), EmailTo(text, i))])

SeparatedCards(text) ==
    Scan(Len(text), Either(Found("card", Standing(text, Card("-")), Card("-")),
                           Found("card", StandingAlone(text, Card(" ")), Card(" "))))

(* Those that no match so far holds. *)
BareCards(text, before) ==
    LET bare == Scan(Len(text), Found("card", StandingAlone(text, BareCard), BareCard))
        held(m) == \E o \in Range(before) : o.start <= m.start /\ m.stop <= o.stop
    IN  InOrder(Len(bare), [k \in {k \in DOMAIN bare : ~held(bare[k])} |-> bare[k]])

Detect(text) ==
    LET before == Ssns(text) \o Phones(text) \o Emails(text) \o SeparatedCards(text)
    IN  before \o BareCards(text, before)

(* A str may be cut here. *)
Boundary(text, p) == p > Len(text) \/ text[p] # "h"

(* validate_context cuts the text that many bytes before and after each    *)
(* match, and panics in the middle of a character.                         *)
DetectPanics(text) ==
    \E m \in Range(Detect(text)) :
        ~ /\ Boundary(text, Max({1, m.start - ContextWindow}))
          /\ Boundary(text, Min({Len(text) + 1, m.stop + ContextWindow}))

-----------------------------------------------------------------------------
MaskOf(kind) ==
    CASE kind = "ssn"   -> [k \in 1..14 |-> IF k = 7 THEN "-" ELSE "*"]
      [] kind = "phone" -> [k \in 1..13 |-> IF k \in {4, 9} THEN "-" ELSE "*"]
      [] kind = "email" -> [k \in 1..13 |-> CASE k = 5 -> "@" [] k = 10 -> "." [] OTHER -> "*"]
      [] kind = "card"  -> [k \in 1..19 |-> IF k \in {5, 10, 15} THEN "-" ELSE "*"]

(* Mutant of Applied: the matches are taken in the order of detection. *)
AppliedAsFound(text, matches) ==
    FoldLeft(LAMBDA s, m : IF Behind(s, m.start) THEN Append(s, m) ELSE s, <<>>, matches)

(* Those replaced, by their starts, the first detected of one start: all   *)
(* that do not begin inside the last one replaced.                         *)
Applied(text, matches) ==
    Scan(Len(text), [p \in {m.start : m \in Range(matches)} |->
                        matches[Min({k \in DOMAIN matches : matches[k].start = p})]])

(* apply_masks: the text up to the n-th of those, with masks, and the rest. *)
ApplyMasks(text, matches) ==
    LET cut == Applied(text, matches)
        from(n) == IF n = 0 THEN 1 ELSE cut[n].stop
        upTo[n \in 0..Len(cut)] ==
            IF n = 0 THEN <<>>
            ELSE upTo[n - 1] \o SubSeq(text, from(n - 1), cut[n].start - 1) \o MaskOf(cut[n].kind)
    IN  upTo[Len(cut)] \o SubSeq(text, from(Len(cut)), Len(text))

MaskText(text) == ApplyMasks(text, Detect(text))

=============================================================================
