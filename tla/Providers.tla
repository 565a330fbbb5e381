----------------------------- MODULE Providers -----------------------------
(***************************************************************************)
(* One call of a provider, from the translation of the request to the last *)
(* event of the reader's stream: the two clients of the core crate         *)
(* (provider/openai.rs, provider/anthropic.rs), which turn lines of        *)
(* server-sent events into chunks, and the gateway's relay (handle_stream  *)
(* of inference.rs), which pulls the chunks and sends them on.  The        *)
(* provider and the connection are not in the repository: they say lines   *)
(* of their protocol, hang up or break at any point.                       *)
(*                                                                         *)
(* A piece of text is its number in the answer; what JSON a line holds is  *)
(* told apart only as far as the parsers do.                               *)
(***************************************************************************)
EXTENDS CacheKey

CONSTANTS
    Requests,   \* the requests a call may be made for, with their stream flag
    MaxTexts,   \* bound of the model: pieces of an answer
    MaxNoise    \* bound of the model: lines that say nothing

ASSUME ProviderBoundsAreNat == MaxTexts \in Nat /\ MaxNoise \in Nat
ASSUME RequestsHaveMessages ==
    \A r \in Requests :
        /\ r.stream \in BOOLEAN
        /\ r.messages \in Seq(Range(r.messages)) /\ \A m \in Range(r.messages) : m.role \in Roles

VARIABLES
    kind,       \* the provider's type
    call,       \* complete or complete_stream
    request, body,
    stage,      \* of the relay
    link,       \* the connection
    wire,       \* the lines said and not yet read
    event,      \* current_event
    chunk,      \* the chunk pulled and not yet sent on
    sent,       \* the reader's events
    published,  \* RequestCompleted events on the bus
    said, whole, noise

external == <<said, whole, noise>>
generator == <<event, chunk>>
vars == <<kind, call, request, body, stage, link, wire, generator, sent, published, external>>

Mark(name) == [text |-> <<>>, mark |-> name, usage |-> FALSE]

NoBody == [messages |-> <<>>, system |-> <<>>, stream |-> FALSE]

Init ==
    /\ kind \in {"openai", "anthropic"}
    /\ call \in {"complete", "stream"}
    /\ request \in Requests
    /\ body = NoBody
    /\ stage = "idle" /\ link = "none"
    /\ wire = <<>> /\ event = "" /\ chunk = <<>> /\ sent = <<>> /\ published = 0
    /\ said = <<>> /\ whole = FALSE /\ noise = 0

-----------------------------------------------------------------------------
(* build_request_body *)

Unless(role, r) == Said(r.messages, Roles \ {role})

OpenAiBody(r) == [messages |-> r.messages, system |-> <<>>, stream |-> r.stream]

(* Mutant of AnthropicBody: only the user's turns are sent. *)
AnthropicBodyOfUser(r) ==
    [messages |-> Said(r.messages, {"user"}), system |-> SystemText(r), stream |-> r.stream]

(* The system texts go beside the messages. *)
AnthropicBody(r) ==
    [messages |-> Unless("system", r), system |-> SystemText(r), stream |-> r.stream]

Post ==
    /\ stage = "idle"
    /\ stage' = "posted"
    /\ LET b == IF kind = "openai" THEN OpenAiBody(request) ELSE AnthropicBody(request)
       IN  body' = IF call = "stream" THEN [b EXCEPT !.stream = TRUE] ELSE b
    /\ UNCHANGED <<kind, call, request, link, wire, generator, sent, published, external>>

(* complete: the whole text of the reply, as one answer. *)
Reply ==
    /\ stage = "posted" /\ call = "complete" /\ ~body.stream
    /\ \E n \in 0..MaxTexts : said' = [i \in 1..n |-> i]
    /\ whole' = TRUE
    /\ stage' = "done"
    /\ sent' = <<[text |-> said', mark |-> "final", usage |-> TRUE]>>
    /\ UNCHANGED <<kind, call, request, body, link, wire, generator, published, noise>>

(* The call fails: no connection, an error status, no choices, a body that *)
(* is not the JSON expected.                                               *)
Refuse ==
    /\ stage = "posted"
    /\ stage' = "failed"
    /\ UNCHANGED <<kind, call, request, body, link, wire, generator, sent, published, external>>

Open ==
    /\ stage = "posted" /\ call = "stream"
    /\ stage' = "reading" /\ link' = "open"
    /\ UNCHANGED <<kind, call, request, body, wire, generator, sent, published, external>>

-----------------------------------------------------------------------------
(* The provider and the connection *)

Blank == [tag |-> "blank"]
Data(payload) == [tag |-> "data", payload |-> payload]
Named(name, payload) == <<[tag |-> "event", name |-> name], Data(payload), Blank>>

Piece(text, stop) ==
    IF kind = "openai"
      THEN <<Data([type |-> "chunk", text |-> text, stop |-> stop]), Blank>>
      ELSE Named("content_block_delta", [type |-> "delta", text |-> text])

FinalLines(usage) ==
    IF kind = "openai" THEN Piece(<<>>, TRUE)
                       ELSE Named("message_delta", [type |-> "message", usage |-> usage])

LastLines ==
    IF kind = "openai" THEN <<Data([type |-> "done"])>>
                       ELSE Named("message_stop", [type |-> "other"])

(* Comments and keep-alives, an error object, a piece with no text. *)
NoiseLines ==
    IF kind = "openai"
      THEN {<<Blank>>, <<Data([type |-> "other"])>>, Piece(<<>>, FALSE)}
      ELSE {Named("ping", [type |-> "other"]), Named("error", [type |-> "other"]), Piece(<<>>, FALSE)}

Says(lines) ==
    /\ link = "open"
    /\ wire' = wire \o lines
    /\ UNCHANGED <<kind, call, request, body, stage, generator, sent, published>>

SayPiece ==
    /\ ~whole /\ Len(said) < MaxTexts
    /\ said' = Append(said, Len(said) + 1)
    /\ \E stop \in IF kind = "openai" THEN BOOLEAN ELSE {FALSE} :
          Says(Piece(<<Len(said')>>, stop)) /\ whole' = stop
    /\ UNCHANGED <<link, noise>>

SayFinal ==
    /\ ~whole
    /\ whole' = TRUE
    /\ \E usage \in BOOLEAN : Says(FinalLines(usage))
    /\ UNCHANGED <<said, link, noise>>

(* [DONE] is the provider's word that the answer is whole, finish chunk or *)
(* not; message_stop, which only ends the stream, follows message_delta.   *)
SayLast ==
    /\ whole \/ kind = "openai"
    /\ Says(LastLines)
    /\ whole' = TRUE /\ link' = "closed"
    /\ UNCHANGED <<said, noise>>

SayNothing ==
    /\ noise < MaxNoise
    /\ noise' = noise + 1
    /\ \E lines \in NoiseLines : Says(lines)
    /\ UNCHANGED <<said, whole, link>>

HangUp ==
    /\ Says(<<>>)
    /\ link' = "closed"
    /\ UNCHANGED external

(* What was in flight is lost. *)
Break ==
    /\ link = "open"
    /\ link' = "broken"
    /\ \E n \in 0..Len(wire) : wire' = SubSeq(wire, 1, n)
    /\ UNCHANGED <<kind, call, request, body, stage, generator, sent, published, external>>

-----------------------------------------------------------------------------
(* complete_stream *)

Chunk(delta, finished, usage) ==
    [delta |-> delta, finished |-> finished, usage |-> usage, error |-> FALSE]

OpenAiYields(ln) ==
    CASE ln.tag = "data" /\ ln.payload.type = "chunk" ->
              <<Chunk(ln.payload.text, ln.payload.stop, FALSE)>>
      [] ln.tag = "data" /\ ln.payload.type = "done" -> <<Chunk(<<>>, TRUE, FALSE)>>
      [] OTHER -> <<>>

(* Mutant of AnthropicYields: a message_delta counts only with its usage. *)
AnthropicYieldsUsage(ln, ev) ==
    CASE ln.tag = "data" /\ ev = "content_block_delta" ->
              <<Chunk(ln.payload.text, FALSE, FALSE)>>
      [] ln.tag = "data" /\ ev = "message_delta" /\ ln.payload.usage -> <<Chunk(<<>>, TRUE, TRUE)>>
      [] OTHER -> <<>>

AnthropicYields(ln, ev) ==
    CASE ln.tag = "data" /\ ev = "content_block_delta" ->
              <<Chunk(ln.payload.text, FALSE, FALSE)>>
      [] ln.tag = "data" /\ ev = "message_delta" -> <<Chunk(<<>>, TRUE, ln.payload.usage)>>
      [] OTHER -> <<>>

EventAfter(ln, ev) ==
    CASE kind = "anthropic" /\ ln.tag = "blank" -> ""
      [] kind = "anthropic" /\ ln.tag = "event" -> ln.name
      [] OTHER -> ev

(* One line is read.  message_stop ends the generator; what follows        *)
(* [DONE], which it has yielded as a last chunk, is never pulled.          *)
ReadLine ==
    LET ln == Head(wire)
        yields == IF kind = "openai" THEN OpenAiYields(ln) ELSE AnthropicYields(ln, event)
        stops == kind = "anthropic" /\ ln.tag = "data" /\ event = "message_stop"
    IN  /\ stage = "reading" /\ chunk = <<>> /\ wire # <<>>
        /\ wire' = Tail(wire)
        /\ chunk' = yields
        /\ event' = EventAfter(ln, event)
        /\ stage' = IF stops THEN "closing" ELSE stage
        /\ UNCHANGED <<kind, call, request, body, link, sent, published, external>>

(* Mutant of ReadEnd: the end of the input is taken for a line. *)
ReadEndAgain ==
    /\ stage = "reading" /\ chunk = <<>> /\ wire = <<>> /\ link = "closed"
    /\ event' = ""
    /\ UNCHANGED <<kind, call, request, body, stage, link, wire, chunk, sent, published, external>>

(* Ok(0): the generator ends as it does after the last line. *)
ReadEnd ==
    /\ stage = "reading" /\ chunk = <<>> /\ wire = <<>> /\ link = "closed"
    /\ stage' = "closing"
    /\ UNCHANGED <<kind, call, request, body, link, wire, generator, sent, published, external>>

(* Mutant of ReadError: an error ends the answer as its last chunk does. *)
ReadErrorAsEnd ==
    /\ stage = "reading" /\ chunk = <<>> /\ wire = <<>> /\ link = "broken"
    /\ chunk' = <<Chunk(<<>>, TRUE, FALSE)>>
    /\ UNCHANGED <<kind, call, request, body, stage, link, wire, event, sent, published, external>>

ReadError ==
    /\ stage = "reading" /\ chunk = <<>> /\ wire = <<>> /\ link = "broken"
    /\ chunk' = <<[Chunk(<<>>, FALSE, FALSE) EXCEPT !.error = TRUE]>>
    /\ UNCHANGED <<kind, call, request, body, stage, link, wire, event, sent, published, external>>

-----------------------------------------------------------------------------
(* handle_stream *)

(* A chunk is sent on, a final one with usage published before; the loop   *)
(* ends with a final chunk or an error.                                    *)
Relay ==
    /\ chunk # <<>>
    /\ LET c == Head(chunk)
           mark == IF c.error THEN "error" ELSE IF c.finished THEN "final" ELSE "none"
       IN  /\ published' = published + (IF c.finished /\ c.usage THEN 1 ELSE 0)
           /\ sent' = Append(sent, [text |-> c.delta, mark |-> mark, usage |-> c.usage])
           /\ stage' = IF mark = "none" THEN stage ELSE "closing"
    /\ chunk' = <<>>
    /\ UNCHANGED <<kind, call, request, body, link, wire, event, external>>

SendDone ==
    /\ stage = "closing" /\ chunk = <<>>
    /\ stage' = "done"
    /\ sent' = Append(sent, Mark("done"))
    /\ UNCHANGED <<kind, call, request, body, link, wire, generator, published, external>>

(* The reader goes away; so does the connection. *)
Abandon ==
    /\ stage \in {"posted", "reading", "closing"}
    /\ stage' = "gone"
    /\ link' = "closed" /\ wire' = <<>> /\ chunk' = <<>>
    /\ UNCHANGED <<kind, call, request, body, event, sent, published, external>>

Run == ReadLine \/ ReadEnd \/ ReadError \/ Relay \/ SendDone

Next ==
    \/ Post \/ Reply \/ Refuse \/ Open
    \/ SayPiece \/ SayFinal \/ SayLast \/ SayNothing \/ HangUp \/ Break
    \/ Run
    \/ Abandon

Spec == Init /\ [][Next]_vars

(* The stream is polled as long as its reader is there.  Nothing is        *)
(* assumed of the provider: its silence is bounded by no timeout.          *)
FairSpec == Spec /\ WF_vars(Run)

-----------------------------------------------------------------------------
Marks == {sent[i].mark : i \in DOMAIN sent}

(* Types, and a chunk is in hand only while the stream is read. *)
TypeOK ==
    /\ stage \in {"idle", "posted", "reading", "closing", "done", "failed", "gone"}
    /\ link \in {"none", "open", "closed", "broken"}
    /\ chunk # <<>> => stage = "reading" /\ Len(chunk) = 1
    /\ Marks \subseteq {"none", "final", "error", "done"}
    /\ published \in Nat
    /\ said \in Seq(1..MaxTexts)

(* What the reader has of the text, and how it was told that it ended. *)
Got == FlattenSeq([i \in DOMAIN sent |-> sent[i].text])

Told == IF "final" \in Marks THEN "whole"
        ELSE IF "error" \in Marks THEN "error"
        ELSE IF stage = "done" THEN "cut"
        ELSE IF stage \in {"gone", "failed"} THEN stage ELSE "open"

(* The reader of a call, of either provider, has the text in order and is  *)
(* told it is whole only when it is.                                       *)
Reader == INSTANCE TextStream WITH complete <- whole, got <- Got, outcome <- Told
ImplementsTextStream == Reader!Spec

(* Both bodies carry the conversation: the turns that are not the system's *)
(* in order, and the system's text, wherever it stood (build_request_body). *)
ConversationKept ==
    stage = "posted" =>
        /\ Unless("system", body) = Unless("system", request)
        /\ SystemText(request) = IF kind = "openai" THEN SystemText(body) ELSE body.system

(* A stream that the provider ended, or that broke, ends for its reader.   *)
StreamsEnd ==
    (stage = "reading" /\ link \in {"closed", "broken"}) ~> (stage \in {"done", "gone"})

(* An answer the provider said to the end reaches its reader to the end,   *)
(* unless the connection broke or the reader left, whether or not the      *)
(* provider then says its last line; and a usage that the reader is shown  *)
(* is published, once (handle_stream).                                     *)
WholeAnswersArrive ==
    (stage = "reading" /\ whole) ~>
        \/ "final" \in Marks /\ published = Cardinality({i \in DOMAIN sent : sent[i].usage})
        \/ link = "broken" \/ stage = "gone"

=============================================================================
