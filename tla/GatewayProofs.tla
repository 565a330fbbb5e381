--------------------------- MODULE GatewayProofs ---------------------------
(***************************************************************************)
(* Proofs about Gateway, for every number of handlers, keys, answers,      *)
(* requests and content chunks: its types, that cached answers are real,   *)
(* that requests and the effects of completed calls are accounted for, and *)
(* that streams are well formed.                                           *)
(***************************************************************************)
EXTENDS Gateway, FiniteSetTheorems, TLAPS

(* The phases in which a handler holds an answer. *)
Holding == {"storing", "spawning", "publishing"}

StreamEvents == {"delta", "final", "error", "done"}

(* The part of TypeOK that speaks of the handlers. *)
HandlersOK ==
    /\ phase \in [Handlers -> Phases]
    /\ key \in [Handlers -> Keys]
    /\ answer \in [Handlers -> Answers \cup {NoAnswer}]
    /\ sent \in [Handlers -> Seq(StreamEvents)]
    /\ \A t \in Handlers : (answer[t] # NoAnswer) <=> phase[t] \in Holding

(* The part that speaks of the counters and of the process. *)
CountersOK ==
    /\ requestCount \in Nat /\ errorCount \in Nat
    /\ events \in [{"hit", "completed", "streamed"} -> Nat]
    /\ costs \in [{"pending", "stored", "gone"} -> Nat]
    /\ ended \in [Outcomes -> Nat]
    /\ server \in {"up", "grace", "closing", "down"}

(* The part that speaks of the cache and of what providers answered. *)
CacheOK == DOMAIN cache \subseteq Keys /\ produced \in [Keys -> SUBSET Answers]

LEMMA TypeParts ==
  /\ TypeOK <=> HandlersOK /\ CountersOK /\ CacheOK
  /\ TypeOK' <=> HandlersOK' /\ CountersOK' /\ CacheOK'
BY DEF TypeOK, HandlersOK, CountersOK, CacheOK, Holding, StreamEvents

(* Ending a request leaves the handler idle, with nothing held or sent. *)
LEMMA EndOK ==
  ASSUME TypeOK, NEW t \in Handlers, NEW from, NEW outcome \in Outcomes,
         End(t, from, outcome), key' \in [Handlers -> Keys]
  PROVE  HandlersOK' /\ ended' \in [Outcomes -> Nat]
<1>1. HandlersOK /\ CountersOK
  BY TypeParts
<1>2. <<>> \in Seq(StreamEvents)
  OBVIOUS
<1>3. ended' \in [Outcomes -> Nat]
  BY <1>1 DEF End, CountersOK
<1>. QED
  BY <1>1, <1>2, <1>3 DEF End, Move, HandlersOK, Holding, Phases

(* Moving between two phases that agree on holding an answer, with the same *)
(* answers, keeps the handlers typed.                                       *)
LEMMA MoveOK ==
  ASSUME TypeOK, NEW t \in Handlers, NEW from, NEW to \in Phases,
         Move(t, from, to), from \in Holding <=> to \in Holding,
         UNCHANGED answer, key' \in [Handlers -> Keys],
         sent' \in [Handlers -> Seq(StreamEvents)]
  PROVE  HandlersOK'
BY TypeParts DEF Move, HandlersOK

(* Sending an event keeps what was sent typed. *)
LEMMA SendOK ==
  ASSUME TypeOK, NEW t \in Handlers, NEW e \in StreamEvents, Send(t, e)
  PROVE  sent' \in [Handlers -> Seq(StreamEvents)]
BY TypeParts DEF Send, HandlersOK

-----------------------------------------------------------------------------
(* How many handlers are in a set of phases. *)

LEMMA InIsNat ==
  ASSUME NEW S
  PROVE  In(S) \in Nat /\ IsFiniteSet({t \in Handlers : phase[t] \in S})
<1>1. {t \in Handlers : phase[t] \in S} \in SUBSET Handlers
  OBVIOUS
<1>2. IsFiniteSet({t \in Handlers : phase[t] \in S})
  BY <1>1, HandlersFinite, FS_Subset
<1>. QED
  BY <1>2, FS_CardinalityType DEF In

(* A move changes the count by what it takes in and what it lets out. *)
LEMMA InMoves ==
  ASSUME phase \in [Handlers -> Phases], NEW t \in Handlers,
         NEW from, NEW to, Move(t, from, to), NEW S
  PROVE  /\ (from \in S <=> to \in S) => In(S)' = In(S)
         /\ from \notin S /\ to \in S => In(S)' = In(S) + 1
         /\ from \in S /\ to \notin S => In(S)' = In(S) - 1
<1>. DEFINE A == {u \in Handlers : phase[u] \in S}
            B == {u \in Handlers : phase'[u] \in S}
<1>1. In(S) = Cardinality(A) /\ In(S)' = Cardinality(B)
  BY DEF In
<1>2. IsFiniteSet(A)
  BY InIsNat
<1>3. \A u \in Handlers : phase'[u] = IF u = t THEN to ELSE phase[u]
  BY DEF Move
<1>4. phase[t] = from
  BY DEF Move
<1>5. ASSUME from \in S <=> to \in S PROVE A = B
  BY <1>3, <1>4, <1>5
<1>6. ASSUME from \notin S, to \in S PROVE B = A \cup {t} /\ t \notin A
  BY <1>3, <1>4, <1>6
<1>7. ASSUME from \in S, to \notin S PROVE B = A \ {t} /\ t \in A
  BY <1>3, <1>4, <1>7
<1>8. ASSUME from \notin S, to \in S PROVE Cardinality(B) = Cardinality(A) + 1
  BY <1>2, <1>6, <1>8, FS_AddElement
<1>9. ASSUME from \in S, to \notin S PROVE Cardinality(B) = Cardinality(A) - 1
  BY <1>2, <1>7, <1>9, FS_RemoveElement
<1>. QED
  BY <1>1, <1>5, <1>8, <1>9

LEMMA InStays ==
  ASSUME UNCHANGED phase, NEW S
  PROVE  In(S)' = In(S)
BY DEF In

-----------------------------------------------------------------------------
(* Types *)

LEMMA TypeInit == Init => TypeOK
BY DEF Init, TypeOK, Phases, Outcomes

LEMMA PublishOK ==
  ASSUME CountersOK, NEW type \in {"hit", "completed", "streamed"}, Publish(type)
  PROVE  events' \in [{"hit", "completed", "streamed"} -> Nat]
BY DEF Publish, CountersOK

(* The first step of a request keeps the types. *)
LEMMA ArriveTyped ==
  ASSUME TypeOK, NEW t \in Handlers, Arrive(t)
  PROVE  TypeOK'
<1>1. HandlersOK /\ CountersOK /\ CacheOK
  BY TypeParts
<1>2. CASE End(t, "idle", "rejected") /\ UNCHANGED key
  <2>1. HandlersOK' /\ ended' \in [Outcomes -> Nat]
    BY <1>1, <1>2, EndOK DEF Outcomes, HandlersOK
  <2>. QED
    BY <1>1, <2>1, TypeParts DEF Arrive, CountersOK, CacheOK
<1>3. CASE ~ (End(t, "idle", "rejected") /\ UNCHANGED key)
  <2>1. PICK to \in {"lookup", "opening"} : Move(t, "idle", to)
    BY <1>3 DEF Arrive
  <2>2. PICK k \in Keys : key' = [key EXCEPT ![t] = k]
    BY <1>3 DEF Arrive
  <2>3. UNCHANGED <<ended, answer, sent>>
    BY <1>3 DEF Arrive
  <2>4. HandlersOK'
    BY <1>1, <2>1, <2>2, <2>3, MoveOK DEF HandlersOK, Holding, Phases
  <2>. QED
    BY <1>1, <2>3, <2>4, TypeParts DEF Arrive, CountersOK, CacheOK
<1>. QED
  BY <1>2, <1>3

(* Each step a handler takes by itself keeps the types. *)
LEMMA RunTyped ==
  ASSUME TypeOK, NEW t \in Handlers, Run(t)
  PROVE  TypeOK'
<1>. USE TypeParts
<1>1. HandlersOK /\ CountersOK /\ CacheOK
  OBVIOUS
<1>2. CASE LookupHit(t)
  <2>1. HandlersOK' /\ ended' \in [Outcomes -> Nat]
    BY <1>1, <1>2, EndOK DEF LookupHit, Outcomes, HandlersOK
  <2>. QED
    BY <1>1, <1>2, <2>1, PublishOK DEF LookupHit, CountersOK, CacheOK
<1>3. CASE LookupMiss(t)
  <2>1. HandlersOK'
    BY <1>1, <1>3, MoveOK DEF LookupMiss, HandlersOK, Holding, Phases
  <2>. QED
    BY <1>1, <1>3, <2>1 DEF LookupMiss, CountersOK, CacheOK
<1>4. CASE StoreAnswer(t)
  <2>1. HandlersOK'
    BY <1>1, <1>4, MoveOK DEF StoreAnswer, HandlersOK, Holding, Phases
  <2>. QED
    BY <1>1, <1>4, <2>1 DEF StoreAnswer, CountersOK, CacheOK, HandlersOK
<1>5. CASE SpawnRecord(t)
  <2>1. HandlersOK'
    BY <1>1, <1>5, MoveOK DEF SpawnRecord, HandlersOK, Holding, Phases
  <2>. QED
    BY <1>1, <1>5, <2>1 DEF SpawnRecord, CountersOK, CacheOK
<1>6. CASE Complete(t)
  <2>1. HandlersOK' /\ ended' \in [Outcomes -> Nat]
    BY <1>1, <1>6, EndOK DEF Complete, Outcomes, HandlersOK
  <2>. QED
    BY <1>1, <1>6, <2>1, PublishOK DEF Complete, CountersOK, CacheOK
<1>7. CASE YieldFinal(t)
  <2>1. HandlersOK'
    BY <1>1, <1>7, MoveOK, SendOK DEF YieldFinal, HandlersOK, Holding, Phases, StreamEvents
  <2>. QED
    BY <1>1, <1>7, <2>1 DEF YieldFinal, CountersOK, CacheOK
<1>8. CASE SendDone(t)
  <2>1. HandlersOK'
    BY <1>1, <1>8, MoveOK, SendOK DEF SendDone, HandlersOK, Holding, Phases, StreamEvents
  <2>. QED
    BY <1>1, <1>8, <2>1 DEF SendDone, CountersOK, CacheOK
<1>9. CASE CloseStream(t)
  <2>1. HandlersOK' /\ ended' \in [Outcomes -> Nat]
    BY <1>1, <1>9, EndOK DEF CloseStream, Outcomes, HandlersOK
  <2>. QED
    BY <1>1, <1>9, <2>1 DEF CloseStream, CountersOK, CacheOK
<1>. QED
  BY <1>2, <1>3, <1>4, <1>5, <1>6, <1>7, <1>8, <1>9 DEF Run

(* Each step of the provider keeps the types. *)
LEMMA ProviderTyped ==
  ASSUME TypeOK, NEW t \in Handlers, Provider(t)
  PROVE  TypeOK'
<1>. USE TypeParts
<1>1. HandlersOK /\ CountersOK /\ CacheOK
  OBVIOUS
<1>2. CASE ProviderAnswers(t)
  <2>1. PICK a \in Answers : /\ answer' = [answer EXCEPT ![t] = a]
                             /\ produced' = [produced EXCEPT ![key[t]] = @ \cup {a}]
    BY <1>2 DEF ProviderAnswers
  <2>2. HandlersOK'
    BY <1>1, <1>2, <2>1, NoAnswerIsOutside
       DEF ProviderAnswers, Move, HandlersOK, Holding, Phases
  <2>3. CacheOK'
    BY <1>1, <1>2, <2>1 DEF ProviderAnswers, HandlersOK, CacheOK
  <2>. QED
    BY <1>1, <1>2, <2>2, <2>3 DEF ProviderAnswers, CountersOK
<1>3. CASE Fail(t)
  <2>1. HandlersOK' /\ ended' \in [Outcomes -> Nat]
    BY <1>1, <1>3, EndOK DEF Fail, Outcomes, HandlersOK
  <2>. QED
    BY <1>1, <1>3, <2>1 DEF Fail, CountersOK, CacheOK
<1>4. CASE OpenStream(t)
  <2>1. HandlersOK'
    BY <1>1, <1>4, MoveOK DEF OpenStream, HandlersOK, Holding, Phases
  <2>. QED
    BY <1>1, <1>4, <2>1 DEF OpenStream, CountersOK, CacheOK
<1>5. CASE Delta(t)
  <2>1. HandlersOK'
    BY <1>1, <1>5, MoveOK, SendOK DEF Delta, HandlersOK, Holding, Phases, StreamEvents
  <2>. QED
    BY <1>1, <1>5, <2>1 DEF Delta, CountersOK, CacheOK
<1>6. CASE FinalChunk(t)
  <2>1. HandlersOK'
    BY <1>1, <1>6, MoveOK DEF FinalChunk, HandlersOK, Holding, Phases
  <2>2. events' \in [{"hit", "completed", "streamed"} -> Nat]
    BY <1>1, <1>6, PublishOK DEF FinalChunk, CountersOK
  <2>. QED
    BY <1>1, <1>6, <2>1, <2>2 DEF FinalChunk, CountersOK, CacheOK
<1>7. CASE ErrorChunk(t)
  <2>1. HandlersOK'
    BY <1>1, <1>7, MoveOK, SendOK DEF ErrorChunk, HandlersOK, Holding, Phases, StreamEvents
  <2>. QED
    BY <1>1, <1>7, <2>1 DEF ErrorChunk, CountersOK, CacheOK
<1>8. CASE Exhaust(t)
  <2>1. HandlersOK'
    BY <1>1, <1>8, MoveOK, SendOK DEF Exhaust, HandlersOK, Holding, Phases, StreamEvents
  <2>. QED
    BY <1>1, <1>8, <2>1 DEF Exhaust, CountersOK, CacheOK
<1>. QED
  BY <1>2, <1>3, <1>4, <1>5, <1>6, <1>7, <1>8 DEF Provider

(* A future or a stream that is dropped keeps the types. *)
LEMMA DropTyped ==
  ASSUME TypeOK, NEW t \in Handlers, Cancel(t) \/ Abandon(t)
  PROVE  TypeOK'
<1>1. HandlersOK /\ CountersOK /\ CacheOK
  BY TypeParts
<1>2. HandlersOK' /\ ended' \in [Outcomes -> Nat]
  BY <1>1, EndOK DEF Cancel, Abandon, Outcomes, HandlersOK
<1>. QED
  BY <1>1, <1>2, TypeParts DEF Cancel, Abandon, CountersOK, CacheOK

(* The spawned tasks, the cache and the process keep the types. *)
LEMMA ServerTyped ==
  ASSUME TypeOK, RunRecord \/ Forget \/ Signal \/ StopAccepting \/ ServerExit
  PROVE  TypeOK'
<1>. USE TypeParts
<1>1. HandlersOK /\ CountersOK /\ CacheOK
  OBVIOUS
<1>2. HandlersOK'
  BY <1>1 DEF RunRecord, Forget, Signal, StopAccepting, ServerExit, HandlersOK
<1>3. CASE RunRecord
  BY <1>1, <1>2, <1>3 DEF RunRecord, CountersOK, CacheOK
<1>4. CASE Forget
  BY <1>1, <1>2, <1>4 DEF Forget, CountersOK, CacheOK
<1>5. CASE Signal
  BY <1>1, <1>2, <1>5 DEF Signal, CountersOK, CacheOK
<1>6. CASE StopAccepting
  BY <1>1, <1>2, <1>6 DEF StopAccepting, CountersOK, CacheOK
<1>7. CASE ServerExit
  <2>1. PICK c \in [{"pending", "stored", "gone"} -> Nat] : c = [costs EXCEPT !.pending = 0]
    BY <1>1 DEF CountersOK
  <2>2. costs' = [c EXCEPT !.gone = costs.gone + costs.pending]
    BY <1>7, <2>1, Zenon DEF ServerExit
  <2>3. costs.gone + costs.pending \in Nat
    BY <1>1 DEF CountersOK
  <2>4. costs' \in [{"pending", "stored", "gone"} -> Nat]
    BY <2>1, <2>2, <2>3
  <2>. QED
    BY <1>1, <1>2, <1>7, <2>4 DEF ServerExit, CountersOK, CacheOK
<1>. QED
  BY <1>3, <1>4, <1>5, <1>6, <1>7

(* The variables of the endpoint keep their types, and a handler holds an   *)
(* answer exactly while it stores and reports one (handle_complete).        *)
THEOREM TypeCorrect == Spec => []TypeOK
<1>1. TypeOK /\ [Next]_vars => TypeOK'
  <2>1. TypeOK /\ Next => TypeOK'
    BY ArriveTyped, RunTyped, ProviderTyped, DropTyped, ServerTyped DEF Next
  <2>2. TypeOK /\ UNCHANGED vars => TypeOK'
    BY DEF TypeOK, vars
  <2>. QED
    BY <2>1, <2>2
<1>. QED
  BY <1>1, TypeInit, PTL DEF Spec

-----------------------------------------------------------------------------
(* Cached answers *)

(* What makes CachedAnswersAreReal inductive: the answer a handler is about *)
(* to store was given for its own key.                                      *)
HeldAnswersAreReal ==
    \A t \in Handlers : phase[t] = "storing" => answer[t] \in produced[key[t]]

(* The steps of a handler keep both. *)
LEMMA RealSteps ==
  ASSUME TypeOK, CachedAnswersAreReal, HeldAnswersAreReal, NEW t \in Handlers,
         Arrive(t) \/ Run(t) \/ Provider(t) \/ Cancel(t) \/ Abandon(t)
  PROVE  CachedAnswersAreReal' /\ HeldAnswersAreReal'
<1>. USE TypeParts
<1>1. HandlersOK /\ CacheOK
  OBVIOUS
<1>2. CASE StoreAnswer(t)
  <2>1. CachedAnswersAreReal'
    BY <1>1, <1>2 DEF StoreAnswer, Move, CachedAnswersAreReal, HeldAnswersAreReal
  <2>2. HeldAnswersAreReal'
    BY <1>1, <1>2 DEF StoreAnswer, Move, HeldAnswersAreReal, HandlersOK
  <2>. QED
    BY <2>1, <2>2
<1>3. CASE ProviderAnswers(t)
  <2>1. PICK a \in Answers : /\ answer' = [answer EXCEPT ![t] = a]
                             /\ produced' = [produced EXCEPT ![key[t]] = @ \cup {a}]
    BY <1>3 DEF ProviderAnswers
  <2>2. \A k \in Keys : produced[k] \subseteq produced'[k]
    BY <1>1, <2>1 DEF CacheOK
  <2>3. CachedAnswersAreReal'
    BY <1>1, <1>3, <2>2 DEF ProviderAnswers, CachedAnswersAreReal, CacheOK
  <2>4. answer'[t] \in produced'[key'[t]]
    BY <1>1, <1>3, <2>1 DEF ProviderAnswers, HandlersOK, CacheOK
  <2>5. ASSUME NEW u \in Handlers \ {t}, phase'[u] = "storing"
        PROVE  answer'[u] \in produced'[key'[u]]
    BY <1>1, <1>3, <2>1, <2>2, <2>5
       DEF ProviderAnswers, Move, HandlersOK, HeldAnswersAreReal
  <2>6. HeldAnswersAreReal'
    BY <2>4, <2>5 DEF HeldAnswersAreReal
  <2>. QED
    BY <2>3, <2>6
<1>4. CASE ~ StoreAnswer(t) /\ ~ ProviderAnswers(t)
  <2>1. UNCHANGED <<cache, produced>>
    BY <1>4 DEF Arrive, Run, Provider, Cancel, Abandon, LookupHit, LookupMiss,
       SpawnRecord, Complete, YieldFinal, SendDone, CloseStream, Fail,
       OpenStream, Delta, FinalChunk, ErrorChunk, Exhaust
  <2>2. PICK from, to \in Phases \ {"storing"} : Move(t, from, to)
    BY <1>4 DEF Arrive, Run, Provider, Cancel, Abandon, LookupHit, LookupMiss,
       SpawnRecord, Complete, YieldFinal, SendDone, CloseStream, Fail,
       OpenStream, Delta, FinalChunk, ErrorChunk, Exhaust, End, Move, Phases
  <2>3. \A u \in Handlers \ {t} :
           phase'[u] = phase[u] /\ answer'[u] = answer[u] /\ key'[u] = key[u]
    BY <1>1, <1>4 DEF Arrive, Run, Provider, Cancel, Abandon, LookupHit, LookupMiss,
       SpawnRecord, Complete, YieldFinal, SendDone, CloseStream, Fail,
       OpenStream, Delta, FinalChunk, ErrorChunk, Exhaust, End, Move, HandlersOK
  <2>4. phase'[t] # "storing"
    BY <1>1, <2>2 DEF Move, HandlersOK
  <2>5. HeldAnswersAreReal'
    BY <2>1, <2>3, <2>4 DEF HeldAnswersAreReal
  <2>. QED
    BY <2>1, <2>5 DEF CachedAnswersAreReal
<1>. QED
  BY <1>2, <1>3, <1>4

(* The cache holds, for a key, only what a provider answered for that key,  *)
(* however concurrent misses store over one another (cache.store after the  *)
(* provider call in handle_complete).                                       *)
THEOREM AnswersStayReal == Spec => []CachedAnswersAreReal
<1>1. Init => CachedAnswersAreReal /\ HeldAnswersAreReal
  BY DEF Init, CachedAnswersAreReal, HeldAnswersAreReal
<1>2. ASSUME TypeOK, CachedAnswersAreReal, HeldAnswersAreReal, [Next]_vars
      PROVE  CachedAnswersAreReal' /\ HeldAnswersAreReal'
  <2>1. ASSUME NEW t \in Handlers,
               Arrive(t) \/ Run(t) \/ Provider(t) \/ Cancel(t) \/ Abandon(t)
        PROVE  CachedAnswersAreReal' /\ HeldAnswersAreReal'
    BY <1>2, <2>1, RealSteps
  <2>2. CASE Forget
    BY <1>2, <2>2 DEF Forget, CachedAnswersAreReal, HeldAnswersAreReal
  <2>3. CASE RunRecord \/ Signal \/ StopAccepting \/ ServerExit \/ UNCHANGED vars
    BY <1>2, <2>3 DEF RunRecord, Signal, StopAccepting, ServerExit, vars,
       CachedAnswersAreReal, HeldAnswersAreReal
  <2>. QED
    BY <1>2, <2>1, <2>2, <2>3 DEF Next
<1>. QED
  BY <1>1, <1>2, TypeCorrect, PTL DEF Spec

-----------------------------------------------------------------------------
(* Accounting *)

(* A request is in progress while its handler is not idle. *)
BusyPhases == Phases \ {"idle"}

Busy == In(BusyPhases)

LEMMA BusyIsNat == Busy \in Nat
BY InIsNat DEF Busy

(* The requests that have ended. *)
Ended == ended["rejected"] + ended["hit"] + ended["completed"]
           + ended["failed"] + ended["cancelled"] + ended["streamed"]
           + ended["broken"] + ended["abandoned"]

(* One more outcome is one more request that has ended. *)
LEMMA EndCounts ==
  ASSUME TypeOK, NEW outcome \in Outcomes,
         ended' = [ended EXCEPT ![outcome] = @ + 1]
  PROVE  Ended' = Ended + 1
<1>1. ended \in [Outcomes -> Nat]
  BY TypeParts DEF CountersOK
<1>2. \A o \in Outcomes : ended'[o] = IF o = outcome THEN ended[o] + 1 ELSE ended[o]
  BY <1>1
<1>. QED
  BY <1>1, <1>2 DEF Ended, Outcomes

LEMMA EndedIsNat == TypeOK => Ended \in Nat
BY TypeParts DEF CountersOK, Ended, Outcomes

LEMMA EndedStays ==
  ASSUME UNCHANGED ended
  PROVE  Ended' = Ended
BY DEF Ended

(* A request that ends is counted out of the ones in progress. *)
LEMMA EndAccounts ==
  ASSUME TypeOK, NEW t \in Handlers, NEW from \in BusyPhases,
         NEW outcome \in Outcomes, End(t, from, outcome)
  PROVE  Ended' + Busy' = Ended + Busy
<1>1. Ended' = Ended + 1
  BY EndCounts DEF End
<1>2. phase \in [Handlers -> Phases] /\ Move(t, from, "idle") /\ "idle" \notin BusyPhases
  BY TypeParts DEF End, HandlersOK, BusyPhases
<1>3. Busy' = Busy - 1
  BY <1>2, InMoves DEF Busy
<1>. QED
  BY <1>1, <1>3, EndedIsNat, BusyIsNat

(* A request that moves on stays one in progress. *)
LEMMA MoveAccounts ==
  ASSUME TypeOK, NEW t \in Handlers, NEW from \in BusyPhases,
         NEW to \in BusyPhases, Move(t, from, to), UNCHANGED ended
  PROVE  Ended' + Busy' = Ended + Busy
<1>1. phase \in [Handlers -> Phases]
  BY TypeParts DEF HandlersOK
<1>2. Busy' = Busy
  BY <1>1, InMoves DEF Busy
<1>. QED
  BY <1>2, EndedStays

(* A request that arrives is counted, and is in progress or has ended. *)
LEMMA ArriveAccounts ==
  ASSUME TypeOK, NEW t \in Handlers, Arrive(t)
  PROVE  Ended' + Busy' = Ended + Busy + 1
<1>1. phase \in [Handlers -> Phases] /\ Ended \in Nat /\ Busy \in Nat
  BY TypeParts, EndedIsNat, BusyIsNat DEF HandlersOK
<1>2. CASE End(t, "idle", "rejected")
  <2>1. Ended' = Ended + 1
    BY <1>2, EndCounts DEF End, Outcomes
  <2>2. Busy' = Busy
    BY <1>1, <1>2, InMoves DEF End, Busy, BusyPhases
  <2>. QED
    BY <1>1, <2>1, <2>2
<1>3. ASSUME NEW to \in {"lookup", "opening"}, Move(t, "idle", to), UNCHANGED ended
      PROVE  Ended' + Busy' = Ended + Busy + 1
  <2>1. Busy' = Busy + 1
    BY <1>1, <1>3, InMoves DEF Busy, BusyPhases, Phases
  <2>. QED
    BY <1>1, <1>3, <2>1, EndedStays
<1>. QED
  BY <1>2, <1>3 DEF Arrive

(* /metrics counts every request, and each has ended in exactly one way or  *)
(* is still being handled: no interleaving of handlers, timeouts and callers *)
(* that leave loses one or ends it twice (chat_completions).                *)
THEOREM NoRequestIsLost == Spec => []RequestsAccountedFor
<1>1. RequestsAccountedFor <=> requestCount = Ended + Busy
  BY DEF RequestsAccountedFor, Ended, Busy, BusyPhases
<1>2. RequestsAccountedFor' <=> requestCount' = Ended' + Busy'
  BY DEF RequestsAccountedFor, Ended, Busy, BusyPhases
<1>3. Init => RequestsAccountedFor
  <2>. SUFFICES ASSUME Init PROVE requestCount = Ended + Busy
    BY <1>1
  <2>1. {t \in Handlers : phase[t] \in BusyPhases} = {}
    BY DEF Init, BusyPhases
  <2>2. Busy = 0
    BY <2>1, FS_EmptySet DEF In, Busy
  <2>3. Ended = 0
    BY DEF Init, Ended, Outcomes
  <2>. QED
    BY <2>2, <2>3 DEF Init
<1>4. ASSUME TypeOK, RequestsAccountedFor, [Next]_vars PROVE RequestsAccountedFor'
  <2>0. requestCount = Ended + Busy /\ Ended \in Nat /\ Busy \in Nat
    BY <1>1, <1>4, EndedIsNat, BusyIsNat
  <2>1. ASSUME NEW t \in Handlers, Arrive(t) PROVE RequestsAccountedFor'
    <3>1. requestCount' = requestCount + 1
      BY <2>1 DEF Arrive
    <3>. QED
      BY <1>2, <1>4, <2>0, <2>1, <3>1, ArriveAccounts
  <2>2. ASSUME NEW t \in Handlers, Run(t) \/ Provider(t) \/ Cancel(t) \/ Abandon(t)
        PROVE  RequestsAccountedFor'
    <3>1. UNCHANGED requestCount
      BY <2>2 DEF Run, Provider, Cancel, Abandon, LookupHit, LookupMiss,
         StoreAnswer, SpawnRecord, Complete, YieldFinal, SendDone, CloseStream,
         ProviderAnswers, Fail, OpenStream, Delta, FinalChunk, ErrorChunk, Exhaust
    <3>2. \/ \E from \in BusyPhases, outcome \in Outcomes : End(t, from, outcome)
          \/ \E from, to \in BusyPhases : Move(t, from, to) /\ UNCHANGED ended
      <4>1. CASE LookupHit(t) \/ Complete(t) \/ CloseStream(t)
        BY <4>1 DEF LookupHit, Complete, CloseStream, BusyPhases, Phases, Outcomes
      <4>2. CASE Fail(t) \/ Cancel(t) \/ Abandon(t)
        BY <4>2 DEF Fail, Cancel, Abandon, BusyPhases, Phases, Outcomes
      <4>3. CASE LookupMiss(t) \/ StoreAnswer(t) \/ SpawnRecord(t) \/ ProviderAnswers(t)
        BY <4>3 DEF LookupMiss, StoreAnswer, SpawnRecord, ProviderAnswers, BusyPhases, Phases
      <4>4. CASE \/ OpenStream(t) \/ Delta(t) \/ FinalChunk(t) \/ ErrorChunk(t)
                 \/ Exhaust(t) \/ YieldFinal(t) \/ SendDone(t)
        BY <4>4 DEF OpenStream, Delta, FinalChunk, ErrorChunk, Exhaust,
           YieldFinal, SendDone, BusyPhases, Phases
      <4>. QED
        BY <2>2, <4>1, <4>2, <4>3, <4>4 DEF Run, Provider
    <3>3. Ended' + Busy' = Ended + Busy
      BY <1>4, <3>2, EndAccounts, MoveAccounts
    <3>. QED
      BY <1>2, <2>0, <3>1, <3>3
  <2>3. CASE \/ RunRecord \/ Forget \/ Signal \/ StopAccepting \/ ServerExit
             \/ UNCHANGED vars
    <3>1. UNCHANGED <<phase, ended, requestCount>>
      BY <2>3 DEF RunRecord, Forget, Signal, StopAccepting, ServerExit, vars
    <3>2. Busy' = Busy /\ Ended' = Ended
      BY <3>1, InStays, EndedStays DEF Busy
    <3>. QED
      BY <1>2, <2>0, <3>1, <3>2
  <2>. QED
    BY <1>4, <2>1, <2>2, <2>3 DEF Next
<1>. QED
  BY <1>3, <1>4, TypeCorrect, PTL DEF Spec

-----------------------------------------------------------------------------
(* Effects of completed calls *)

(* A process that is down handles nothing and has nothing left to write. *)
DownIsQuiet ==
    server = "down" => costs.pending = 0 /\ \A t \in Handlers : phase[t] = "idle"

(* Every spawned record belongs to a completed call or to the one call that *)
(* is about to publish its event.                                           *)
RecordsMatch ==
    costs.pending + costs.stored + costs.gone = ended["completed"] + In({"publishing"})

EventsMatch ==
    /\ events["completed"] = ended["completed"]
    /\ events["hit"] = ended["hit"]

(* A step of a handler that spawns no record and completes no call keeps     *)
(* their balance.                                                           *)
LEMMA RecordsStay ==
  ASSUME TypeOK, RecordsMatch, NEW t \in Handlers, NEW from, NEW to,
         Move(t, from, to), from # "publishing", to # "publishing",
         UNCHANGED costs, ended'["completed"] = ended["completed"]
  PROVE  RecordsMatch'
<1>1. phase \in [Handlers -> Phases]
  BY TypeParts DEF HandlersOK
<1>2. In({"publishing"})' = In({"publishing"})
  BY <1>1, InMoves
<1>. QED
  BY <1>2 DEF RecordsMatch

(* Publishing counts one event of one type, ending one request of one kind. *)
LEMMA OneMore ==
  ASSUME TypeOK
  PROVE  /\ \A o \in Outcomes : ended' = [ended EXCEPT ![o] = @ + 1] =>
               \A u \in Outcomes : ended'[u] = IF u = o THEN ended[u] + 1 ELSE ended[u]
         /\ \A e \in {"hit", "completed", "streamed"} : Publish(e) =>
               \A f \in {"hit", "completed", "streamed"} :
                  events'[f] = IF f = e THEN events[f] + 1 ELSE events[f]
BY TypeParts DEF CountersOK, Publish

(* The steps of a handler keep events, records and outcomes together. *)
LEMMA EffectSteps ==
  ASSUME TypeOK, DownIsQuiet, RecordsMatch, EventsMatch, NEW t \in Handlers,
         Arrive(t) \/ Run(t) \/ Provider(t) \/ Cancel(t) \/ Abandon(t)
  PROVE  DownIsQuiet' /\ RecordsMatch' /\ EventsMatch'
<1>1. HandlersOK /\ CountersOK
  BY TypeParts
<1>. DEFINE Publishing == In({"publishing"})
<1>2. Publishing \in Nat
  BY InIsNat
<1>3. CASE SpawnRecord(t)
  <2>1. Publishing' = Publishing + 1
    BY <1>1, <1>3, InMoves DEF SpawnRecord, HandlersOK
  <2>2. /\ costs'.pending = costs.pending + 1
        /\ costs'.stored = costs.stored /\ costs'.gone = costs.gone
    BY <1>1, <1>3 DEF SpawnRecord, CountersOK
  <2>3. RecordsMatch'
    BY <1>1, <1>2, <1>3, <2>1, <2>2 DEF SpawnRecord, RecordsMatch, CountersOK, Outcomes
  <2>4. server # "down" /\ server' = server
    BY <1>3 DEF SpawnRecord, Move, DownIsQuiet
  <2>. QED
    BY <1>3, <2>3, <2>4 DEF SpawnRecord, DownIsQuiet, EventsMatch
<1>4. CASE Complete(t)
  <2>0. phase \in [Handlers -> Phases] /\ Move(t, "publishing", "idle")
    BY <1>1, <1>4 DEF Complete, End, HandlersOK
  <2>1. Publishing' = Publishing - 1
    BY <2>0, InMoves
  <2>2. /\ ended'["completed"] = ended["completed"] + 1
        /\ ended'["hit"] = ended["hit"]
    BY <1>4, OneMore DEF Complete, End, Outcomes
  <2>3. /\ events'["completed"] = events["completed"] + 1
        /\ events'["hit"] = events["hit"]
    BY <1>4, OneMore DEF Complete
  <2>4. RecordsMatch'
    BY <1>1, <1>2, <1>4, <2>1, <2>2 DEF Complete, RecordsMatch, CountersOK, Outcomes
  <2>5. server # "down" /\ server' = server
    BY <1>4 DEF Complete, End, Move, DownIsQuiet
  <2>. QED
    BY <2>2, <2>3, <2>4, <2>5 DEF DownIsQuiet, EventsMatch
<1>5. CASE LookupHit(t)
  <2>1. /\ ended'["completed"] = ended["completed"]
        /\ ended'["hit"] = ended["hit"] + 1
    BY <1>5, OneMore DEF LookupHit, End, Outcomes
  <2>2. /\ events'["completed"] = events["completed"]
        /\ events'["hit"] = events["hit"] + 1
    BY <1>5, OneMore DEF LookupHit
  <2>3. RecordsMatch'
    BY <1>5, <2>1, RecordsStay DEF LookupHit, End
  <2>4. server # "down" /\ server' = server
    BY <1>5 DEF LookupHit, End, Move, DownIsQuiet
  <2>. QED
    BY <2>1, <2>2, <2>3, <2>4 DEF DownIsQuiet, EventsMatch
<1>6. CASE ~ SpawnRecord(t) /\ ~ Complete(t) /\ ~ LookupHit(t)
  <2>1. UNCHANGED <<costs, server>>
    BY <1>6 DEF Arrive, Run, Provider, Cancel, Abandon, LookupMiss, StoreAnswer,
       YieldFinal, SendDone, CloseStream, ProviderAnswers, Fail, OpenStream,
       Delta, FinalChunk, ErrorChunk, Exhaust
  <2>2. \E from, to \in Phases \ {"publishing"} :
           Move(t, from, to) /\ (from = "idle" => server \in {"up", "grace"})
    BY <1>6 DEF Arrive, Run, Provider, Cancel, Abandon, LookupMiss, StoreAnswer,
       YieldFinal, SendDone, CloseStream, ProviderAnswers, Fail, OpenStream,
       Delta, FinalChunk, ErrorChunk, Exhaust, End, Phases
  <2>3. /\ ended'["completed"] = ended["completed"]
        /\ ended'["hit"] = ended["hit"]
    <3>1. \/ UNCHANGED ended
          \/ \E o \in Outcomes \ {"completed", "hit"} : ended' = [ended EXCEPT ![o] = @ + 1]
      BY <1>6 DEF Arrive, Run, Provider, Cancel, Abandon, LookupMiss, StoreAnswer,
         YieldFinal, SendDone, CloseStream, ProviderAnswers, Fail, OpenStream,
         Delta, FinalChunk, ErrorChunk, Exhaust, End, Outcomes
    <3>. QED
      BY <3>1, OneMore DEF Outcomes
  <2>4. /\ events'["completed"] = events["completed"]
        /\ events'["hit"] = events["hit"]
    <3>1. UNCHANGED events \/ Publish("streamed")
      BY <1>6 DEF Arrive, Run, Provider, Cancel, Abandon, LookupMiss, StoreAnswer,
         YieldFinal, SendDone, CloseStream, ProviderAnswers, Fail, OpenStream,
         Delta, FinalChunk, ErrorChunk, Exhaust
    <3>. QED
      BY <3>1, OneMore
  <2>5. RecordsMatch'
    BY <2>1, <2>2, <2>3, RecordsStay
  <2>6. DownIsQuiet'
    BY <2>1, <2>2 DEF DownIsQuiet, Move
  <2>. QED
    BY <2>3, <2>4, <2>5, <2>6 DEF EventsMatch
<1>. QED
  BY <1>3, <1>4, <1>5, <1>6

(* One cost record and one RequestCompleted for every completed call and    *)
(* none for any other, whatever is cancelled; a process that is down has    *)
(* dropped what it had spawned and not written (handle_complete, run).      *)
THEOREM EffectsComeTogether == Spec => []EffectsAccountedFor
<1>1. Init => DownIsQuiet /\ RecordsMatch /\ EventsMatch
  <2>. SUFFICES ASSUME Init PROVE DownIsQuiet /\ RecordsMatch /\ EventsMatch
    OBVIOUS
  <2>1. {t \in Handlers : phase[t] \in {"publishing"}} = {}
    BY DEF Init
  <2>2. In({"publishing"}) = 0
    BY <2>1, FS_EmptySet DEF In
  <2>3. ended["completed"] = 0 /\ ended["hit"] = 0
    BY DEF Init, Outcomes
  <2>. QED
    BY <2>2, <2>3 DEF Init, DownIsQuiet, RecordsMatch, EventsMatch
<1>2. ASSUME TypeOK, DownIsQuiet, RecordsMatch, EventsMatch, [Next]_vars
      PROVE  DownIsQuiet' /\ RecordsMatch' /\ EventsMatch'
  <2>1. ASSUME NEW t \in Handlers,
               Arrive(t) \/ Run(t) \/ Provider(t) \/ Cancel(t) \/ Abandon(t)
        PROVE  DownIsQuiet' /\ RecordsMatch' /\ EventsMatch'
    BY <1>2, <2>1, EffectSteps
  <2>2. CASE RunRecord
    <3>1. costs \in [{"pending", "stored", "gone"} -> Nat] /\ costs.pending > 0
      BY <1>2, <2>2, TypeParts DEF CountersOK, RunRecord
    <3>2. costs'.pending + costs'.stored + costs'.gone
            = costs.pending + costs.stored + costs.gone
      BY <2>2, <3>1 DEF RunRecord
    <3>3. server # "down"
      BY <1>2, <3>1 DEF DownIsQuiet
    <3>4. UNCHANGED <<phase, server, events, ended>>
      BY <2>2 DEF RunRecord
    <3>5. In({"publishing"})' = In({"publishing"})
      BY <3>4, InStays
    <3>. QED
      BY <1>2, <3>2, <3>3, <3>4, <3>5 DEF DownIsQuiet, RecordsMatch, EventsMatch
  <2>3. CASE ServerExit
    <3>1. costs \in [{"pending", "stored", "gone"} -> Nat]
      BY <1>2, TypeParts DEF CountersOK
    <3>2. /\ costs'.pending = 0 /\ costs'.stored = costs.stored
          /\ costs'.gone = costs.gone + costs.pending
      BY <2>3, <3>1 DEF ServerExit
    <3>3. UNCHANGED <<phase, events, ended>> /\ \A t \in Handlers : phase[t] = "idle"
      BY <2>3 DEF ServerExit
    <3>4. In({"publishing"})' = In({"publishing"})
      BY <3>3, InStays
    <3>. QED
      BY <1>2, <3>1, <3>2, <3>3, <3>4 DEF DownIsQuiet, RecordsMatch, EventsMatch
  <2>4. CASE Forget \/ Signal \/ StopAccepting \/ UNCHANGED vars
    <3>1. UNCHANGED <<phase, costs, events, ended>>
      BY <2>4 DEF Forget, Signal, StopAccepting, vars
    <3>2. server' = "down" => server = "down"
      BY <2>4 DEF Forget, Signal, StopAccepting, vars
    <3>3. In({"publishing"})' = In({"publishing"})
      BY <3>1, InStays
    <3>. QED
      BY <1>2, <3>1, <3>2, <3>3 DEF DownIsQuiet, RecordsMatch, EventsMatch
  <2>. QED
    BY <1>2, <2>1, <2>2, <2>3, <2>4 DEF Next
<1>3. DownIsQuiet /\ RecordsMatch /\ EventsMatch => EffectsAccountedFor
  <2>1. (\A t \in Handlers : phase[t] = "idle") => In({"idle"}) = Cardinality(Handlers)
    <3>. SUFFICES ASSUME \A t \in Handlers : phase[t] = "idle"
                  PROVE  In({"idle"}) = Cardinality(Handlers)
      OBVIOUS
    <3>1. {t \in Handlers : phase[t] \in {"idle"}} = Handlers
      OBVIOUS
    <3>. QED
      BY <3>1 DEF In
  <2>. QED
    BY <2>1 DEF DownIsQuiet, RecordsMatch, EventsMatch, EffectsAccountedFor
<1>. QED
  BY <1>1, <1>2, <1>3, TypeCorrect, PTL DEF Spec

-----------------------------------------------------------------------------
(* Streams *)

(* What a handler has sent, by where it is: content while the provider      *)
(* sends, one final or error event once the loop is left, [DONE] at the end, *)
(* nothing outside a stream.                                                *)
Shape(p, s) ==
    /\ p \in {"streaming", "yielding"} => \A i \in 1..Len(s) : s[i] = "delta"
    /\ p = "closing" =>
          /\ Len(s) > 0 /\ s[Len(s)] \in {"final", "error"}
          /\ \A i \in 1..(Len(s) - 1) : s[i] = "delta"
    /\ p = "sent" =>
          /\ Len(s) > 0 /\ s[Len(s)] = "done"
          /\ \A i \in 1..(Len(s) - 1) : s[i] = "delta" \/ (i = Len(s) - 1 /\ s[i] # "done")
    /\ p \notin {"streaming", "yielding", "closing", "sent"} => s = <<>>

StreamsShaped == \A t \in Handlers : Shape(phase[t], sent[t])

(* The next event of a stream, by the phase it leads to. *)
LEMMA NextEvent ==
  ASSUME NEW s \in Seq(StreamEvents)
  PROVE  /\ Shape("streaming", s) => Shape("streaming", Append(s, "delta"))
         /\ Shape("yielding", s) => Shape("closing", Append(s, "final"))
         /\ Shape("streaming", s) => Shape("closing", Append(s, "error"))
         /\ Shape("streaming", s) => Shape("sent", Append(s, "done"))
         /\ Shape("closing", s) => Shape("sent", Append(s, "done"))
<1>. DEFINE After(e) == Append(s, e)
<1>1. \A e \in StreamEvents :
         /\ Len(After(e)) = Len(s) + 1 /\ After(e)[Len(s) + 1] = e
         /\ \A i \in 1..Len(s) : After(e)[i] = s[i]
  BY DEF StreamEvents
<1>2. Len(s) \in Nat
  OBVIOUS
<1>. HIDE DEF After
<1>. QED
  BY <1>1, <1>2 DEF Shape, StreamEvents

(* One handler at a time: the streams of the others keep their shape. *)
LEMMA ShapeSteps ==
  ASSUME TypeOK, StreamsShaped, NEW t \in Handlers,
         Arrive(t) \/ Run(t) \/ Provider(t) \/ Cancel(t) \/ Abandon(t)
  PROVE  StreamsShaped'
<1>1. phase \in [Handlers -> Phases] /\ sent \in [Handlers -> Seq(StreamEvents)]
  BY TypeParts DEF HandlersOK
<1>2. \A u \in Handlers \ {t} : phase'[u] = phase[u] /\ sent'[u] = sent[u]
  BY <1>1 DEF Arrive, Run, Provider, Cancel, Abandon, LookupHit, LookupMiss,
     StoreAnswer, SpawnRecord, Complete, YieldFinal, SendDone, CloseStream,
     ProviderAnswers, Fail, OpenStream, Delta, FinalChunk, ErrorChunk, Exhaust,
     End, Move, Send
<1>3. Shape(phase[t], sent[t])
  BY DEF StreamsShaped
<1>4. Shape(phase'[t], sent'[t])
  <2>1. CASE \/ Arrive(t) \/ LookupHit(t) \/ Complete(t) \/ CloseStream(t)
             \/ Fail(t) \/ Cancel(t) \/ Abandon(t)
    <3>1. sent'[t] = <<>> /\ phase'[t] \in {"idle", "lookup", "opening"}
      BY <1>1, <1>3, <2>1 DEF Arrive, LookupHit, Complete, CloseStream, Fail, Cancel,
         Abandon, End, Move, Shape
    <3>. QED
      BY <3>1 DEF Shape
  <2>2. CASE LookupMiss(t) \/ ProviderAnswers(t) \/ StoreAnswer(t) \/ SpawnRecord(t)
    BY <1>1, <1>3, <2>2 DEF LookupMiss, ProviderAnswers, StoreAnswer, SpawnRecord, Move, Shape
  <2>3. CASE OpenStream(t) \/ FinalChunk(t)
    BY <1>1, <1>3, <2>3 DEF OpenStream, FinalChunk, Move, Shape
  <2>4. CASE Delta(t)
    BY <1>1, <1>3, <2>4, NextEvent DEF Delta, Move, Send
  <2>5. CASE YieldFinal(t)
    BY <1>1, <1>3, <2>5, NextEvent DEF YieldFinal, Move, Send
  <2>6. CASE ErrorChunk(t)
    BY <1>1, <1>3, <2>6, NextEvent DEF ErrorChunk, Move, Send
  <2>7. CASE Exhaust(t)
    BY <1>1, <1>3, <2>7, NextEvent DEF Exhaust, Move, Send
  <2>8. CASE SendDone(t)
    BY <1>1, <1>3, <2>8, NextEvent DEF SendDone, Move, Send
  <2>. QED
    BY <2>1, <2>2, <2>3, <2>4, <2>5, <2>6, <2>7, <2>8 DEF Run, Provider
<1>. QED
  BY <1>2, <1>3, <1>4 DEF StreamsShaped

(* A caller never receives anything after [DONE], nor two closing events,   *)
(* whether the provider ends, fails or says nothing more (handle_stream).   *)
THEOREM StreamsStayWellFormed == Spec => []StreamsWellFormed
<1>1. Init => StreamsShaped
  BY DEF Init, StreamsShaped, Shape
<1>2. ASSUME TypeOK, StreamsShaped, [Next]_vars PROVE StreamsShaped'
  <2>1. ASSUME NEW t \in Handlers,
               Arrive(t) \/ Run(t) \/ Provider(t) \/ Cancel(t) \/ Abandon(t)
        PROVE  StreamsShaped'
    BY <1>2, <2>1, ShapeSteps
  <2>2. CASE \/ RunRecord \/ Forget \/ Signal \/ StopAccepting \/ ServerExit
             \/ UNCHANGED vars
    <3>1. UNCHANGED <<phase, sent>>
      BY <2>2 DEF RunRecord, Forget, Signal, StopAccepting, ServerExit, vars
    <3>. QED
      BY <1>2, <3>1 DEF StreamsShaped
  <2>. QED
    BY <1>2, <2>1, <2>2 DEF Next
<1>3. TypeOK /\ StreamsShaped => StreamsWellFormed
  <2>. SUFFICES ASSUME TypeOK, StreamsShaped, NEW t \in Handlers,
                       NEW i \in 1..Len(sent[t])
                PROVE  /\ sent[t][i] = "done" => i = Len(sent[t])
                       /\ sent[t][i] \in {"final", "error"} =>
                             /\ i >= Len(sent[t]) - 1
                             /\ i < Len(sent[t]) => sent[t][Len(sent[t])] = "done"
    BY DEF StreamsWellFormed
  <2>1. phase[t] \in Phases /\ Len(sent[t]) \in Nat /\ Shape(phase[t], sent[t])
    BY TypeParts DEF HandlersOK, StreamsShaped
  <2>. QED
    BY <2>1 DEF Shape, Phases
<1>. QED
  BY <1>1, <1>2, <1>3, TypeCorrect, PTL DEF Spec

=============================================================================
