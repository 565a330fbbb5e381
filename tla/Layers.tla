------------------------------- MODULE Layers -------------------------------
(***************************************************************************)
(* A conversation as the layers of the intel crate see it: the masker and  *)
(* the auctioneer, which are layers of a pipeline (pii_masker.rs,          *)
(* cost_auctioneer.rs), change it; the complexity gate and the prompt      *)
(* guard, which are not, judge what is there.                              *)
(*                                                                         *)
(* The client writes its messages part by part and sends the conversation, *)
(* with all that was said before, for each answer.                         *)
(***************************************************************************)
EXTENDS Auction, PromptGuard, PiiScan

CONSTANTS
    Limit,         \* costs and latencies are finite up to this
    Parts,         \* texts a message is made of
    Directions,    \* of the masker
    Candidates,    \* of the auctioneer
    Table,         \* context_weights
    Types,         \* request_type
    None,
    MaxParts       \* bound of the model: messages and parts of messages

(* The characters of a text, and of a masked one. *)
Chars == {"*", "-", ".", "@"} \cup UNION {Range(text) : text \in Parts}

ASSUME DirectionsKnown == Directions \subseteq {"request", "response", "bidirectional"}
ASSUME WindowIsNat == ContextWindow \in Nat
ASSUME MaxPartsIsNat == MaxParts \in Nat
ASSUME PartsAreTexts == Parts \subseteq Seq(Chars)
ASSUME SomeCandidate == Candidates # <<>>
ASSUME CandidatesScored ==
    /\ Limit \in Nat
    /\ Candidates \in Seq([cost    : (0..Limit) \cup {NotFinite},
                           latency : (0..Limit) \cup {NotFinite},
                           quality : 0..Best])
ASSUME TableWeighs ==
    \A type \in DOMAIN Table : Table[type] \in [cost : Nat, latency : Nat, quality : Nat]

VARIABLES
    direction,   \* of the masker
    messages,    \* of the conversation
    stage,       \* of the request: "written", "masked", "routed" or "panicked"
    context,     \* of the request routed last
    chosen       \* the candidate selected, 0 when none is

vars == <<direction, messages, stage, context, chosen>>

Size == FoldLeft(LAMBDA s, m : s + 1 + m.parts, 0, messages)

(* What an auction depends on: the request's type, whether its budget is   *)
(* low, and whether the bandit is still cold or a draw explores.           *)
Contexts == [type : Types, low : BOOLEAN, mode : {"cold", "explores", "scores"}]

Init ==
    /\ direction \in Directions
    /\ messages = <<>>
    /\ stage = "written"
    /\ context = None /\ chosen = 0

-----------------------------------------------------------------------------
(* The client *)

Begin ==
    /\ stage = "written" /\ Size < MaxParts
    /\ \E role \in {"system", "user"} :
          messages' = Append(messages, [role |-> role, content |-> <<>>, parts |-> 0])
    /\ UNCHANGED <<direction, stage, context, chosen>>

Write ==
    /\ stage = "written" /\ Size < MaxParts
    /\ messages # <<>> /\ Last(messages).role # "assistant"
    /\ \E text \in Parts :
          messages' = [messages EXCEPT ![Len(messages)].content = @ \o text,
                                       ![Len(messages)].parts = @ + 1]
    /\ UNCHANGED <<direction, stage, context, chosen>>

-----------------------------------------------------------------------------
(* PiiMasker::on_request *)
MaskRequest ==
    /\ stage = "written" /\ messages # <<>>
    /\ IF direction = "response" THEN stage' = "masked" /\ UNCHANGED messages
       ELSE IF \E m \in Range(messages) : DetectPanics(m.content)
         THEN stage' = "panicked" /\ UNCHANGED messages
       ELSE /\ stage' = "masked"
            /\ messages' = [i \in DOMAIN messages |->
                                [messages[i] EXCEPT !.content = MaskText(@)]]
    /\ UNCHANGED <<direction, context, chosen>>

(* CostAuctioneer::on_request *)
Choose ==
    /\ stage = "masked"
    /\ stage' = "routed"
    /\ context' \in Contexts
    /\ LET c == context'
       IN  chosen' \in Selected(Candidates, Weights(Table, c.type), c.low, c.mode)
    /\ UNCHANGED <<direction, messages>>

(* PiiMasker::on_response, and the answer becomes part of the conversation. *)
Answer ==
    /\ stage = "routed" /\ Size + 2 <= MaxParts
    /\ \E text \in Parts :
          IF direction # "request" /\ DetectPanics(text)
            THEN stage' = "panicked" /\ UNCHANGED messages
            ELSE /\ stage' = "written"
                 /\ messages' = Append(messages,
                        [role    |-> "assistant", parts |-> 1,
                         content |-> IF direction = "request" THEN text ELSE MaskText(text)])
    /\ context' = None /\ chosen' = 0
    /\ UNCHANGED direction

Next == Begin \/ Write \/ MaskRequest \/ Choose \/ Answer

Spec == Init /\ [][Next]_vars

-----------------------------------------------------------------------------
(* The message being written: what the others hold was checked before. *)
Draft == IF stage = "written" /\ messages # <<>> THEN Last(messages).content ELSE <<>>

(* Types, and a candidate is chosen exactly when the request is routed.    *)
TypeOK ==
    /\ direction \in Directions
    /\ stage \in {"written", "masked", "routed", "panicked"}
    /\ \A m \in Range(messages) : m.role \in Roles
    /\ chosen \in 0..Len(Candidates) /\ (chosen # 0) = (stage = "routed")
    /\ context \in Contexts \cup {None}

(* What the beginning of a match can leave over of another, between a mask *)
(* and what a second masking would find.                                   *)
Left(kind) == CASE kind = "phone" -> Digit \cup {"-"}
                [] kind = "email" -> {}
                [] kind = "card"  -> LocalPart \cup {"@", " "}

(* No number of a resident is left in a masked text, and what a second     *)
(* masking would find is there because a match that was cut short began    *)
(* before it and is all there is between it and a mask, or because a mask  *)
(* follows it (mask_text, apply_masks).                                    *)
MaskedTextIsClean ==
    (stage = "masked" /\ direction # "response") =>
        \A m \in Range(messages) : \A f \in Range(Detect(m.content)) :
            /\ f.kind # "ssn"
            /\ \/ f.stop <= Len(m.content) /\ m.content[f.stop] = "*"
               \/ \E j \in 1..(f.start - 1) :
                     /\ m.content[j] = "*"
                     /\ \A k \in (j + 1)..(f.start - 1) : m.content[k] \in Left(f.kind)

(* Every number of a form the scanners look for (a resident's, 010- with   *)
(* four digits and four, 0X- with three and four) is found, wherever it    *)
(* stands and whatever matched before it, or overlaps one that is; and     *)
(* what is replaced covers the beginning of all that is found.             *)
EveryNumberFound ==
    LET found == Range(Detect(Draft))
        cut == Range(Applied(Draft, Detect(Draft)))
    IN  /\ \A i \in DOMAIN Draft :
              /\ At(Draft, i, Ssn) => \E m \in found : m.kind = "ssn" /\ m.start = i
              /\ (At(Draft, i, Mobile) \/ At(Draft, i, Landline)) =>
                    \E m \in found : m.kind = "phone" /\ m.start <= i /\ i < m.stop
        /\ \A m \in found : \E c \in cut : c.start <= m.start /\ m.start < c.stop

(* More to read never makes a request simpler (classify).                  *)
GateMonotone ==
    [][(Begin \/ Write) =>
          Rank(Classify(messages', FALSE)) >= Rank(Classify(messages, FALSE))]_vars

(* What the guard reads, and whether it finds a pattern, does not depend   *)
(* on how the text is spaced (normalize_for_detection, scan_input).        *)
Stretched(text) ==
    LET upTo[k \in 0..Len(text)] ==
            IF k = 0 THEN <<>>
            ELSE upTo[k - 1] \o IF text[k] = Blank THEN <<Blank, "z", Blank>> ELSE <<text[k], "z">>
    IN  upTo[Len(text)]

LayoutIgnored ==
    /\ Normalized(Stretched(Draft)) = Normalized(Draft)
    /\ Normalized(Normalized(Draft)) = Normalized(Draft)
    /\ LET finds(text) == Suspicious(<<[role |-> "user", content |-> text]>>)
       IN  finds(Stretched(Draft)) = finds(Draft)

(* An answer that repeats the system's text, of as many words as a gram,   *)
(* between other words, is a leak at a threshold of nine tenths, and of    *)
(* one word less than its own; one that shares no word is none             *)
(* (validate_output).                                                      *)
CopiesAreLeaks ==
    stage = "written" =>
      LET source == Draft
          quoted == Last(<<<<>>>> \o [i \in DOMAIN messages |-> messages[i].content])
          around == <<"a", Blank>> \o quoted \o <<Blank, "a">>
      IN  /\ Len(Words(source)) >= Gram =>
                Leaks(source, around, "ratio", [num |-> 9, den |-> 10])
          /\ Len(Words(source)) >= Gram =>
                Leaks(source, around, "absolute", [num |-> Len(Words(source)) - 1, den |-> 1])
          /\ "x" \notin Range(source) =>
                ~Leaks(source, <<"x", Blank, "x">>, "ratio", [num |-> 0, den |-> 1])

(* With little budget left the auctioneer chooses no costlier a model than *)
(* it would with plenty, whatever the weights, unless it explores.         *)
CheaperOnLowBudget ==
    (chosen # 0 /\ context.low /\ context.mode = "scores") =>
        \A i \in Selected(Candidates, Weights(Table, context.type), FALSE, "scores") :
            Part(Candidates[chosen].cost, Costs(Candidates))
                <= Part(Candidates[i].cost, Costs(Candidates))

=============================================================================
