------------------------------ MODULE CacheKey ------------------------------
(***************************************************************************)
(* Requests as the caches see them (contracts.rs) and the key under which  *)
(* the exact tier keeps an answer (cache/cache_key.rs).                    *)
(*                                                                         *)
(* The 64-bit hash is taken to be injective, so a key is what is fed to    *)
(* the hasher: the texts follow each other with nothing in between, then   *)
(* come the fixed-width numbers, the absent ones contributing nothing.     *)
(***************************************************************************)
EXTENDS Naturals, Sequences, SequencesExt

Roles == {"system", "user", "assistant"}

Message(Text) == [role : Roles, content : Text]

(* An optional number is a set of at most one. *)
UnifiedRequest(Models, Text, Length, Temps, Limits) ==
    [model       : Models,
     messages    : UNION {[1..n -> Message(Text)] : n \in Length},
     temperature : {{}} \cup {{t} : t \in Temps},
     max_tokens  : {{}} \cup {{n} : n \in Limits}]

(* The messages with one of the roles, in order.  Written out, where        *)
(* SelectSeq would do, for proofs: the provers know nothing of SelectSeq.  *)
Said(messages, roles) ==
    LET kept == {n \in DOMAIN messages : messages[n].role \in roles}
        upTo[n \in 0..Len(messages)] ==
            IF n = 0 THEN <<>>
            ELSE IF n \in kept THEN Append(upTo[n - 1], messages[n]) ELSE upTo[n - 1]
    IN  upTo[Len(messages)]

Contents(messages, role) ==
    LET said == Said(messages, {role})
    IN  [i \in DOMAIN said |-> said[i].content]

(* A line break between any two, empty ones too. *)
Joined(texts) ==
    IF texts = <<>> THEN <<>>
    ELSE FoldLeft(LAMBDA t, c : t \o <<"\n">> \o c, Head(texts), Tail(texts))

SystemText(r) == Joined(Contents(r.messages, "system"))

(* Empty when no message is the user's. *)
LastUserMessage(r) == FoldLeft(LAMBDA t, c : c, <<>>, Contents(r.messages, "user"))

Bytes(optional) == SetToSeq(optional)

(* Equal for requests that differ only in the middle of the conversation.  *)
KeyOf(r) ==
    SystemText(r) \o LastUserMessage(r)
        \o <<r.model, Len(r.messages)>>
        \o Bytes(r.temperature) \o Bytes(r.max_tokens)

=============================================================================
