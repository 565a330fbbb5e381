------------------------------ MODULE Gateway ------------------------------
(***************************************************************************)
(* The inference endpoint of the gateway (routes/inference.rs): many       *)
(* chat-completion requests at once against one cache, one event bus, one  *)
(* cost store and the two counters of /metrics, until the server is told to  *)
(* shut down (server.rs).                                                   *)
(*                                                                         *)
(* A handler runs on a thread of the runtime, so the steps between two     *)
(* awaits interleave with those of other handlers but cannot be cut short; *)
(* at an await the handler's future may be dropped, because the caller     *)
(* went away or the TimeoutLayer of server.rs fired.  The cache is known   *)
(* only by its contract (LossyCache): it may forget, it does not invent.   *)
(***************************************************************************)
EXTENDS Naturals, Sequences, FiniteSets

CONSTANTS
    Handlers,     \* requests handled at once
    Keys,         \* cache keys of the requests
    Answers,      \* what providers may answer
    NoAnswer,
    UsageKinds,   \* whether the provider's final chunk carries token usage:
                  \* TRUE for Anthropic, FALSE for OpenAI
    MaxRequests,  \* bound of the model: requests received
    MaxDeltas     \* bound of the model: content chunks of a stream

ASSUME HandlersFinite == IsFiniteSet(Handlers)
ASSUME NoAnswerIsOutside == NoAnswer \notin Answers
ASSUME UsageIsBoolean == UsageKinds \subseteq BOOLEAN
ASSUME BoundsAreNat == MaxRequests \in Nat /\ MaxDeltas \in Nat

VARIABLES
    phase,         \* where each handler is
    key,           \* the cache key of its request
    answer,        \* the provider's answer it holds
    sent,          \* the server-sent events of its stream
    cache,         \* the partial function from keys to cached answers
    requestCount,  \* REQUEST_COUNT
    errorCount,    \* ERROR_COUNT
    events,        \* how many events of each type the bus was given
    costs,         \* cost records: spawned and not run, stored, and gone
    server,        \* the process: up, in its grace period, closing, down
    produced,      \* history: what providers answered for each key
    ended          \* history: how many requests ended in each way

vars == <<phase, key, answer, sent, cache, requestCount, errorCount, events,
          costs, server, produced, ended>>

Outcomes == {"rejected", "hit", "completed", "failed", "cancelled",
             "streamed", "broken", "abandoned"}

Init ==
    /\ phase = [t \in Handlers |-> "idle"]
    /\ key \in [Handlers -> Keys]
    /\ answer = [t \in Handlers |-> NoAnswer]
    /\ sent = [t \in Handlers |-> <<>>]
    /\ cache = [k \in {} |-> NoAnswer]
    /\ requestCount = 0
    /\ errorCount = 0
    /\ events = [hit |-> 0, completed |-> 0, streamed |-> 0]
    /\ costs = [pending |-> 0, stored |-> 0, gone |-> 0]
    /\ server = "up"
    /\ produced = [k \in Keys |-> {}]
    /\ ended = [o \in Outcomes |-> 0]

Move(t, from, to) ==
    /\ phase[t] = from
    /\ phase' = [phase EXCEPT ![t] = to]

Publish(type) == events' = [events EXCEPT ![type] = @ + 1]

(* The handler is done with its request. *)
End(t, from, outcome) ==
    /\ Move(t, from, "idle")
    /\ ended' = [ended EXCEPT ![outcome] = @ + 1]
    /\ answer' = [answer EXCEPT ![t] = NoAnswer]
    /\ sent' = [sent EXCEPT ![t] = <<>>]

-----------------------------------------------------------------------------
(* chat_completions up to the first await *)

(* Mutant of Arrive: only valid requests are counted. *)
ArriveCountingValid(t) ==
    /\ requestCount < MaxRequests
    /\ server \in {"up", "grace"}
    /\ \/ /\ \E to \in {"lookup", "opening"} : Move(t, "idle", to)
          /\ \E k \in Keys : key' = [key EXCEPT ![t] = k]
          /\ requestCount' = requestCount + 1
          /\ UNCHANGED <<ended, answer, sent>>
       \/ End(t, "idle", "rejected") /\ UNCHANGED <<key, requestCount>>
    /\ UNCHANGED <<cache, errorCount, events, costs, server, produced>>

(* A request is counted; an invalid one, or one for a model no provider     *)
(* supports, is answered 400.                                               *)
Arrive(t) ==
    /\ requestCount < MaxRequests
    /\ server \in {"up", "grace"}
    /\ requestCount' = requestCount + 1
    /\ \/ /\ \E to \in {"lookup", "opening"} : Move(t, "idle", to)
          /\ \E k \in Keys : key' = [key EXCEPT ![t] = k]
          /\ UNCHANGED <<ended, answer, sent>>
       \/ End(t, "idle", "rejected") /\ UNCHANGED key
    /\ UNCHANGED <<cache, errorCount, events, costs, server, produced>>

(* cache.lookup answers: a CacheHit event, and no provider is called. *)
LookupHit(t) ==
    /\ key[t] \in DOMAIN cache
    /\ End(t, "lookup", "hit")
    /\ Publish("hit")
    /\ UNCHANGED <<key, cache, requestCount, errorCount, costs, server,
                   produced>>

LookupMiss(t) ==
    /\ key[t] \notin DOMAIN cache
    /\ Move(t, "lookup", "calling")
    /\ UNCHANGED <<key, answer, sent, cache, requestCount, errorCount, events,
                   costs, server, produced, ended>>

-----------------------------------------------------------------------------
(* handle_complete *)

ProviderAnswers(t) ==
    /\ Move(t, "calling", "storing")
    /\ \E a \in Answers :
          /\ answer' = [answer EXCEPT ![t] = a]
          /\ produced' = [produced EXCEPT ![key[t]] = @ \cup {a}]
    /\ UNCHANGED <<key, sent, cache, requestCount, errorCount, events, costs,
                   server, ended>>

(* Mutant of StoreAnswer: the key of any request in progress is used. *)
StoreAnswerAnywhere(t) ==
    /\ Move(t, "storing", "spawning")
    /\ \E u \in Handlers :
          cache' = [k \in DOMAIN cache \cup {key[u]} |->
                       IF k = key[u] THEN answer[t] ELSE cache[k]]
    /\ UNCHANGED <<key, answer, sent, requestCount, errorCount, events, costs,
                   server, produced, ended>>

(* cache.store *)
StoreAnswer(t) ==
    /\ Move(t, "storing", "spawning")
    /\ cache' = [k \in DOMAIN cache \cup {key[t]} |->
                    IF k = key[t] THEN answer[t] ELSE cache[k]]
    /\ UNCHANGED <<key, answer, sent, requestCount, errorCount, events, costs,
                   server, produced, ended>>

(* tokio::spawn: the cost record is written by a task of its own. *)
SpawnRecord(t) ==
    /\ Move(t, "spawning", "publishing")
    /\ costs' = [costs EXCEPT !.pending = @ + 1]
    /\ UNCHANGED <<key, answer, sent, cache, requestCount, errorCount, events,
                   server, produced, ended>>

(* The event is published and the response returned. *)
Complete(t) ==
    /\ End(t, "publishing", "completed")
    /\ Publish("completed")
    /\ UNCHANGED <<key, cache, requestCount, errorCount, costs, server,
                   produced>>

(* The provider call, or the opening of a stream, fails: 500. *)
Fail(t) ==
    /\ \E from \in {"calling", "opening"} : End(t, from, "failed")
    /\ errorCount' = errorCount + 1
    /\ UNCHANGED <<key, cache, requestCount, events, costs, server, produced>>

(* Mutants of Cancel: there is an await before the event is published; the  *)
(* timeout does not reach the opening of a stream.                          *)
CancelAnywhere(t) ==
    /\ \E from \in {"calling", "opening", "publishing"} : End(t, from, "cancelled")
    /\ UNCHANGED <<key, cache, requestCount, errorCount, events, costs,
                   server, produced>>

CancelCallsOnly(t) ==
    /\ End(t, "calling", "cancelled")
    /\ UNCHANGED <<key, cache, requestCount, errorCount, events, costs,
                   server, produced>>

(* The future is dropped at its await: the caller left, or 120 s passed. *)
Cancel(t) ==
    /\ \E from \in {"calling", "opening"} : End(t, from, "cancelled")
    /\ UNCHANGED <<key, cache, requestCount, errorCount, events, costs,
                   server, produced>>

(* The spawned task: record_cost succeeds, or fails with a warning. *)
RunRecord ==
    /\ costs.pending > 0
    /\ \E how \in {"stored", "gone"} :
          costs' = [costs EXCEPT !.pending = @ - 1, ![how] = @ + 1]
    /\ UNCHANGED <<phase, key, answer, sent, cache, requestCount, errorCount,
                   events, server, produced, ended>>

(* What the cache's contract lets it do at any time: forget a key. *)
Forget ==
    /\ \E k \in DOMAIN cache : cache' = [l \in DOMAIN cache \ {k} |-> cache[l]]
    /\ UNCHANGED <<phase, key, answer, sent, requestCount, errorCount, events,
                   costs, server, produced, ended>>

-----------------------------------------------------------------------------
(* handle_stream *)

Send(t, event) == sent' = [sent EXCEPT ![t] = Append(@, event)]

OpenStream(t) ==
    /\ Move(t, "opening", "streaming")
    /\ UNCHANGED <<key, answer, sent, cache, requestCount, errorCount, events,
                   costs, server, produced, ended>>

Delta(t) ==
    /\ Move(t, "streaming", "streaming")
    /\ Len(sent[t]) < MaxDeltas
    /\ Send(t, "delta")
    /\ UNCHANGED <<key, answer, cache, requestCount, errorCount, events,
                   costs, server, produced, ended>>

(* The final chunk has been received: the event is published, but only if   *)
(* the chunk says how many tokens were used.                                *)
FinalChunk(t) ==
    /\ Move(t, "streaming", "yielding")
    /\ \E usage \in UsageKinds : IF usage THEN Publish("streamed") ELSE UNCHANGED events
    /\ UNCHANGED <<key, answer, sent, cache, requestCount, errorCount, costs,
                   server, produced, ended>>

(* Mutant of YieldFinal: the loop is not left after the final chunk. *)
YieldFinalAndGoOn(t) ==
    /\ Move(t, "yielding", "streaming")
    /\ Send(t, "final")
    /\ UNCHANGED <<key, answer, cache, requestCount, errorCount, events,
                   costs, server, produced, ended>>

YieldFinal(t) ==
    /\ Move(t, "yielding", "closing")
    /\ Send(t, "final")
    /\ UNCHANGED <<key, answer, cache, requestCount, errorCount, events,
                   costs, server, produced, ended>>

(* A chunk is an error: the caller is told and the loop left. *)
ErrorChunk(t) ==
    /\ Move(t, "streaming", "closing")
    /\ Send(t, "error")
    /\ UNCHANGED <<key, answer, cache, requestCount, errorCount, events,
                   costs, server, produced, ended>>

(* The provider's stream ends without a final chunk: [DONE] comes at once.   *)
Exhaust(t) ==
    /\ Move(t, "streaming", "sent")
    /\ Send(t, "done")
    /\ UNCHANGED <<key, answer, cache, requestCount, errorCount, events,
                   costs, server, produced, ended>>

(* [DONE] is always sent last. *)
SendDone(t) ==
    /\ Move(t, "closing", "sent")
    /\ Send(t, "done")
    /\ UNCHANGED <<key, answer, cache, requestCount, errorCount, events,
                   costs, server, produced, ended>>

Failed(t) == \E i \in 1..Len(sent[t]) : sent[t][i] = "error"

CloseStream(t) ==
    /\ End(t, "sent", IF Failed(t) THEN "broken" ELSE "streamed")
    /\ UNCHANGED <<key, cache, requestCount, errorCount, events, costs,
                   server, produced>>

(* The caller goes away: the stream is dropped at an await or a yield.      *)
Abandon(t) ==
    /\ \E from \in {"streaming", "closing"} : End(t, from, "abandoned")
    /\ UNCHANGED <<key, cache, requestCount, errorCount, events, costs,
                   server, produced>>

-----------------------------------------------------------------------------
(* server.rs: the end of the process *)

(* SIGINT or SIGTERM: for graceful_shutdown_sec requests still come in. *)
Signal ==
    /\ server = "up"
    /\ server' = "grace"
    /\ UNCHANGED <<phase, key, answer, sent, cache, requestCount, errorCount,
                   events, costs, produced, ended>>

(* shutdown_signal returns, and axum accepts no more requests. *)
StopAccepting ==
    /\ server = "grace"
    /\ server' = "closing"
    /\ UNCHANGED <<phase, key, answer, sent, cache, requestCount, errorCount,
                   events, costs, produced, ended>>

(* The last response is out: run returns and main with it, and the tasks    *)
(* the runtime still holds, the unwritten cost records, are dropped.        *)
ServerExit ==
    /\ server = "closing"
    /\ \A t \in Handlers : phase[t] = "idle"
    /\ server' = "down"
    /\ costs' = [costs EXCEPT !.pending = 0, !.gone = @ + costs.pending]
    /\ UNCHANGED <<phase, key, answer, sent, cache, requestCount, errorCount,
                   events, produced, ended>>

-----------------------------------------------------------------------------
(* What a handler does by itself, between two awaits. *)
Run(t) ==
    \/ LookupHit(t) \/ LookupMiss(t)
    \/ StoreAnswer(t) \/ SpawnRecord(t) \/ Complete(t)
    \/ YieldFinal(t) \/ SendDone(t) \/ CloseStream(t)

(* What the provider does. *)
Provider(t) ==
    \/ ProviderAnswers(t) \/ Fail(t)
    \/ OpenStream(t) \/ Delta(t) \/ FinalChunk(t) \/ ErrorChunk(t) \/ Exhaust(t)

Next ==
    \/ \E t \in Handlers : Arrive(t) \/ Run(t) \/ Provider(t) \/ Cancel(t) \/ Abandon(t)
    \/ RunRecord
    \/ Forget
    \/ Signal \/ StopAccepting \/ ServerExit

Spec == Init /\ [][Next]_vars

(* The runtime keeps running handlers that are not at an await, the          *)
(* TimeoutLayer ends a call that has not answered, the grace period is a     *)
(* sleep and axum returns once nothing is open.  Nothing is assumed of       *)
(* providers or callers.                                                    *)
FairSpec ==
    /\ Spec
    /\ \A t \in Handlers : WF_vars(Run(t)) /\ WF_vars(Cancel(t))
    /\ WF_vars(StopAccepting) /\ WF_vars(ServerExit)

-----------------------------------------------------------------------------
Phases == {"idle", "lookup", "calling", "storing", "spawning", "publishing",
           "opening", "streaming", "yielding", "closing", "sent"}

(* Types, and the handler holds a provider's answer exactly while it stores *)
(* and reports it (handle_complete).                                        *)
TypeOK ==
    /\ phase \in [Handlers -> Phases]
    /\ key \in [Handlers -> Keys]
    /\ answer \in [Handlers -> Answers \cup {NoAnswer}]
    /\ sent \in [Handlers -> Seq({"delta", "final", "error", "done"})]
    /\ DOMAIN cache \subseteq Keys
    /\ requestCount \in Nat /\ errorCount \in Nat
    /\ events \in [{"hit", "completed", "streamed"} -> Nat]
    /\ server \in {"up", "grace", "closing", "down"}
    /\ costs \in [{"pending", "stored", "gone"} -> Nat]
    /\ produced \in [Keys -> SUBSET Answers]
    /\ ended \in [Outcomes -> Nat]
    /\ \A t \in Handlers :
          (answer[t] # NoAnswer) <=> phase[t] \in {"storing", "spawning", "publishing"}

In(phases) == Cardinality({t \in Handlers : phase[t] \in phases})

(* A cached answer was given by a provider for the same key: concurrent     *)
(* misses may overwrite one another, never mix keys up.                     *)
CachedAnswersAreReal == \A k \in DOMAIN cache : cache[k] \in produced[k]

(* Requests are neither lost nor answered twice: /metrics counts every one,  *)
(* and each has ended in exactly one way or is still being handled.         *)
RequestsAccountedFor ==
    LET Ended == ended["rejected"] + ended["hit"] + ended["completed"]
                   + ended["failed"] + ended["cancelled"] + ended["streamed"]
                   + ended["broken"] + ended["abandoned"]
    IN  requestCount = Ended + In(Phases \ {"idle"})

(* What a completed call leaves behind comes all or not at all, whatever is *)
(* cancelled and in whatever order handlers run: once the provider has      *)
(* answered, one cost record is spawned and one RequestCompleted published, *)
(* and a call that fails or is cancelled leaves neither.  A process that is  *)
(* down has dropped what was spawned and not yet written: nothing waits.     *)
EffectsAccountedFor ==
    /\ events["completed"] = ended["completed"]
    /\ events["hit"] = ended["hit"]
    /\ costs.pending + costs.stored + costs.gone = ended["completed"] + In({"publishing"})
    /\ server = "down" => costs.pending = 0 /\ In({"idle"}) = Cardinality(Handlers)

(* A stream is content, then at most one final or error event, then [DONE], *)
(* and nothing after it.                                                    *)
StreamsWellFormed ==
    \A t \in Handlers : \A i \in 1..Len(sent[t]) :
        /\ sent[t][i] = "done" => i = Len(sent[t])
        /\ sent[t][i] \in {"final", "error"} =>
              /\ i >= Len(sent[t]) - 1
              /\ i < Len(sent[t]) => sent[t][Len(sent[t])] = "done"

(* Every request that does not become a stream is answered, by the provider *)
(* or by the TimeoutLayer, and a stream that got its final chunk is closed. *)
RequestsEnd ==
    \A t \in Handlers : (phase[t] # "idle") ~> (phase[t] \in {"idle", "streaming"})

(* Graceful shutdown ends the process unless a stream stays open for ever:   *)
(* no call, lookup or record can hold it up, since the timeout ends calls,   *)
(* but nothing ends a stream whose provider and caller both stay.            *)
ShutdownEnds ==
    <>(server # "up") =>
        \/ <>(server = "down")
        \/ \E t \in Handlers : <>[](phase[t] = "streaming")

=============================================================================
