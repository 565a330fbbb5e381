------------------------------ MODULE Routing ------------------------------
(***************************************************************************)
(* How a request reaches a provider in the core crate: through the layers  *)
(* of the pipeline (pipeline.rs), two of which route - the round-robin     *)
(* load balancer (router/mod.rs) and the cost auctioneer with its bandit   *)
(* (cost_auctioneer.rs, bandit.rs) - or through the fallback executor      *)
(* (router/fallback.rs), or as the gateway does it, by configured priority *)
(* (state.rs).  Beside them the health monitor (router/health.rs) keeps a  *)
(* map of statuses that nothing routes by.                                 *)
(*                                                                         *)
(* An observation of the bandit is one entry of an arm's window; rewards   *)
(* are left out, for no decision of the code reads them (get_score has no  *)
(* caller).  After the warm-up the auctioneer may explore, so any          *)
(* candidate may be selected; which one wins otherwise is in Auction.      *)
(***************************************************************************)
EXTENDS Registry, FiniteSets

CONSTANTS
    Clients, Models, None, Failed,
    Configs,        \* Vec<ProviderConfig>
    LayerOrders,    \* the layers a pipeline may have, in order: "balancer", "auctioneer"
    Candidates,     \* the auctioneer's candidates, a sequence of models
    Warmup,         \* warmup_requests
    Window,         \* sliding_window_size
    MaxArms,        \* MAX_ARMS
    MaxRetries,     \* max_retries
    MaxRequests     \* bound of the model: requests begun

ASSUME LayersKnown == \A ls \in LayerOrders : ls \in Seq({"balancer", "auctioneer"})
ASSUME CandidatesAreModels == Candidates \in Seq(Models)
ASSUME ConfigsAreSequence == Configs \in Seq(Range(Configs))
ASSUME ModelsAreFinite == IsFiniteSet(Models) /\ Models # {}
ASSUME SizesAreNat ==
    {Warmup, Window, MaxRetries, MaxRequests} \subseteq Nat /\ MaxArms \in Nat \ {0}

Reg == Providers(Configs)
Supports == [m \in Models |-> Supporting(Reg, m)]
Matching == [m \in Models |-> Positions(Len(Reg), Supports[m])]

(* A layer or a sender may name any configured provider; those that were   *)
(* not registered are not found.                                           *)
Ids == {Configs[i].id : i \in DOMAIN Configs}
RegisteredIds == {Reg[i].id : i \in DOMAIN Reg}

Preferred == [m \in Models |-> FindProvider(Configs, m)]

Position == [n \in Ids |-> GetByName(Reg, n)]

(* The pipeline finds by id the provider a layer has chosen; nothing in    *)
(* the code checks that the configured ids differ.                         *)
ASSUME IdsDiffer == Cardinality(RegisteredIds) = Len(Reg)
ASSUME NamesApart ==
    /\ None \notin Models /\ None \notin Ids /\ None \notin DOMAIN Reg \cup {0}
    /\ Failed \notin DOMAIN Reg /\ Failed # None

VARIABLES
    layers,     \* Pipeline.layers, fixed before the first request
    counter,    \* LoadBalancer.counter
    picks,      \* history: how often the balancer picked each provider, by model
    arms,       \* SlidingWindowUCB.arms: the length of each window
    total,      \* total_observations
    begun,      \* requests begun
    pc, req,    \* each client's next step and its request
    tried,      \* history: the providers called in vain by the client's fallback
    out,        \* who answered each client's last request
    statuses,   \* HealthMonitor.statuses: how many rounds old each status is
    next        \* the provider check_all is at, 0 between the rounds

bandit == <<arms, total>>
balancer == <<counter, picks>>
clients == <<layers, begun, pc, req, tried, out>>
monitor == <<statuses, next>>
vars == <<balancer, bandit, clients, monitor>>

(* at: the position in the layers, or in the registry. *)
Request == [model : Models, provider_id : Ids \cup {None}, stream : BOOLEAN, at : Nat]

NoRequest == [model |-> CHOOSE m \in Models : TRUE, provider_id |-> None,
              stream |-> FALSE, at |-> 0]

Init ==
    /\ layers \in LayerOrders
    /\ counter = 0
    /\ picks = [m \in Models |-> [i \in DOMAIN Reg |-> 0]]
    /\ arms = [m \in {} |-> 0]
    /\ total = 0
    /\ begun = 0
    /\ pc = [p \in Clients |-> "idle"]
    /\ req = [p \in Clients |-> NoRequest]
    /\ tried = [p \in Clients |-> {}]
    /\ out = [p \in Clients |-> None]
    /\ statuses = [i \in {} |-> 0]
    /\ next = 0

Goto(p, label, r) ==
    /\ pc' = [pc EXCEPT ![p] = label]
    /\ req' = [req EXCEPT ![p] = r]
    /\ UNCHANGED <<layers, begun, out>>

Finish(p, outcome) ==
    /\ pc' = [pc EXCEPT ![p] = "idle"]
    /\ req' = [req EXCEPT ![p] = NoRequest]
    /\ out' = [out EXCEPT ![p] = outcome]
    /\ UNCHANGED <<layers, begun>>

Begin(p, label, m, n, stream) ==
    /\ pc[p] = "idle" /\ begun < MaxRequests
    /\ begun' = begun + 1
    /\ pc' = [pc EXCEPT ![p] = label]
    /\ req' = [req EXCEPT ![p] = [model |-> m, provider_id |-> n, stream |-> stream, at |-> 1]]
    /\ out' = [out EXCEPT ![p] = None]
    /\ UNCHANGED <<layers, balancer, bandit, tried, monitor>>

-----------------------------------------------------------------------------
(* Pipeline::execute *)

Execute(p, m, n, stream) == Begin(p, "onRequest", m, n, stream)

OnRequest(p, layer) ==
    /\ pc[p] = "onRequest"
    /\ req[p].at \in DOMAIN layers /\ layers[req[p].at] = layer
    /\ UNCHANGED <<bandit, tried, monitor>>

Onward(p, r) == Goto(p, "onRequest", [r EXCEPT !.at = @ + 1])

(* Mutant of Index: a quotient for the remainder. *)
IndexQuotient(n, len) == Min({n \div len, len - 1}) + 1

Index(n, len) == (n % len) + 1

(* LoadBalancer::on_request.  One counter serves all models; fetch_add is  *)
(* atomic.                                                                 *)
Balance(p) ==
    LET r == req[p]
        matching == Matching[r.model]
        selected == matching[Index(counter, Len(matching))]
    IN  /\ OnRequest(p, "balancer")
        /\ IF r.provider_id # None \/ matching = <<>>
             THEN Onward(p, r) /\ UNCHANGED balancer
             ELSE /\ counter' = counter + 1
                  /\ picks' = [picks EXCEPT ![r.model][selected] = @ + 1]
                  /\ Onward(p, [r EXCEPT !.provider_id = Reg[selected].id])

(* Mutant of Reassigned: the provider chosen for the old model stays. *)
ReassignedInPlace(r, m) == [r EXCEPT !.model = m]

Reassigned(r, m) == [r EXCEPT !.model = m, !.provider_id = None]

(* CostAuctioneer::on_request: the first candidate until the warm-up is    *)
(* over.  The model is replaced, and with it goes the provider.            *)
Auction(p) ==
    /\ OnRequest(p, "auctioneer")
    /\ IF Candidates = <<>>
         THEN Finish(p, Failed)
         ELSE \E m \in IF total < Warmup THEN {Head(Candidates)} ELSE Range(Candidates) :
                 Onward(p, Reassigned(req[p], m))
    /\ UNCHANGED balancer

(* The layers are passed: the provider is looked up and called. *)
Select(p) ==
    LET r == req[p]
        i == IF r.provider_id # None THEN Position[r.provider_id]
                                     ELSE GetProvider(Reg, r.model)
    IN  /\ pc[p] = "onRequest" /\ r.at > Len(layers)
        /\ IF i = 0 THEN Finish(p, Failed)
                    ELSE Goto(p, "call", [r EXCEPT !.provider_id = Reg[i].id])
        /\ UNCHANGED <<balancer, bandit, tried, monitor>>

(* chat_completions: the provider is found without any layer, so none is   *)
(* told of the answer either.                                              *)
Serve(p, m, stream) ==
    LET i == Preferred[m]
    IN  /\ i # 0
        /\ Begin(p, "call", m, Reg[i].id, stream)

(* The provider answers; a stream is handed out with no layer told of it.  *)
CallAnswers(p) ==
    LET r == req[p]
    IN  /\ pc[p] = "call"
        /\ IF r.stream THEN Finish(p, Position[r.provider_id])
                       ELSE Goto(p, "onResponse", [r EXCEPT !.at = @ - 1])
        /\ UNCHANGED <<balancer, bandit, tried, monitor>>

CallFails(p) ==
    /\ pc[p] = "call"
    /\ Finish(p, Failed)
    /\ UNCHANGED <<balancer, bandit, tried, monitor>>

(* Mutant of Crowded: the arms are counted one too late. *)
CrowdedLate(m) == m \notin DOMAIN arms /\ Cardinality(DOMAIN arms) > MaxArms

Crowded(m) == m \notin DOMAIN arms /\ Cardinality(DOMAIN arms) >= MaxArms

(* SlidingWindowUCB::update: for a new arm one with the fewest             *)
(* observations goes; a full window loses its oldest.                      *)
Update(m) ==
    /\ total' = total + 1
    /\ LET least == {a \in DOMAIN arms : \A b \in DOMAIN arms : arms[a] <= arms[b]}
           seen == IF m \in DOMAIN arms THEN arms[m] ELSE 0
       IN  \E V \in SUBSET least :
              /\ Cardinality(V) = IF Crowded(m) /\ least # {} THEN 1 ELSE 0
              /\ arms' = [a \in (DOMAIN arms \ V) \cup {m} |->
                             IF a = m THEN Min({seen + 1, Window}) ELSE arms[a]]

(* on_response of the layers in reverse: only the auctioneer's does        *)
(* anything, and it learns under the name of the model it had chosen.      *)
OnResponse(p) ==
    LET r == req[p]
    IN  /\ pc[p] = "onResponse"
        /\ IF r.at = 0
             THEN Finish(p, Position[r.provider_id]) /\ UNCHANGED bandit
             ELSE /\ Goto(p, "onResponse", [r EXCEPT !.at = @ - 1])
                  /\ IF layers[r.at] = "auctioneer" THEN Update(r.model) ELSE UNCHANGED bandit
        /\ UNCHANGED <<balancer, tried, monitor>>

-----------------------------------------------------------------------------
(* FallbackExecutor::execute_with_fallback *)

ExecuteWithFallback(p, m) == Begin(p, "fallback", m, None, FALSE)

(* Mutant of OutOfRetries: one attempt too few. *)
OutOfRetriesEarly(i) == i >= MaxRetries

(* An attempt is a position in the registry (counted from 0 in the code),  *)
(* taken up by providers that do not support the model too.                *)
OutOfRetries(i) == i - 1 > MaxRetries

(* The outcome of one attempt: skipped, answered, failed, or none is left. *)
Attempt(p) ==
    LET r == req[p]
        i == r.at
        onward == Goto(p, "fallback", [r EXCEPT !.at = @ + 1])
    IN  /\ pc[p] = "fallback"
        /\ IF i > Len(Reg) \/ OutOfRetries(i)
             THEN Finish(p, Failed) /\ tried' = [tried EXCEPT ![p] = {}]
             ELSE IF i \notin Supports[r.model]
               THEN onward /\ UNCHANGED tried
               ELSE \/ Finish(p, i) /\ tried' = [tried EXCEPT ![p] = {}]
                    \/ onward /\ tried' = [tried EXCEPT ![p] = @ \cup {i}]
        /\ UNCHANGED <<balancer, bandit, monitor>>

-----------------------------------------------------------------------------
(* HealthMonitor: a round calls one provider after the other, with no lock *)
(* held, and enters each status on its own.                                *)

StartRound ==
    /\ next = 0 /\ Reg # <<>>
    /\ next' = 1
    /\ statuses' = [i \in DOMAIN statuses |-> Min({statuses[i] + 1, 2})]
    /\ UNCHANGED <<balancer, bandit, clients>>

(* Mutant of After: only providers with no status yet are checked. *)
AfterKnown(i) == IF i = Len(Reg) \/ i + 1 \in DOMAIN statuses THEN 0 ELSE i + 1

After(i) == IF i = Len(Reg) THEN 0 ELSE i + 1

Check ==
    /\ next # 0
    /\ statuses' = [i \in DOMAIN statuses \cup {next} |-> IF i = next THEN 0 ELSE statuses[i]]
    /\ next' = After(next)
    /\ UNCHANGED <<balancer, bandit, clients>>

Monitor == StartRound \/ Check

-----------------------------------------------------------------------------
Next ==
    \/ Monitor
    \/ \E p \in Clients :
          \/ \E m \in Models :
                \/ \E n \in Ids \cup {None}, s \in BOOLEAN : Execute(p, m, n, s)
                \/ \E s \in BOOLEAN : Serve(p, m, s)
                \/ ExecuteWithFallback(p, m)
          \/ Balance(p) \/ Auction(p) \/ Select(p)
          \/ CallAnswers(p) \/ CallFails(p) \/ OnResponse(p)
          \/ Attempt(p)

Spec == Init /\ [][Next]_vars

-----------------------------------------------------------------------------
(* The variables have their types; an attempt or a layer is one there is,  *)
(* or the one after the last.                                              *)
TypeOK ==
    /\ layers \in LayerOrders
    /\ counter \in Nat /\ total \in Nat /\ begun \in 0..MaxRequests
    /\ picks \in [Models -> [DOMAIN Reg -> Nat]]
    /\ DOMAIN arms \subseteq Models /\ \A m \in DOMAIN arms : arms[m] \in 0..Window
    /\ pc \in [Clients -> {"idle", "onRequest", "call", "onResponse", "fallback"}]
    /\ req \in [Clients -> Request]
    /\ \A p \in Clients :
          /\ pc[p] = "onRequest" => req[p].at \in 1..Len(layers) + 1
          /\ pc[p] = "fallback" => req[p].at \in 1..Len(Reg) + 1
          /\ pc[p] = "onResponse" => req[p].at \in 0..Len(layers)
          /\ pc[p] \in {"call", "onResponse"} => req[p].provider_id \in RegisteredIds
    /\ tried \in [Clients -> SUBSET DOMAIN Reg]
    /\ out \in [Clients -> DOMAIN Reg \cup {None, Failed}]
    /\ DOMAIN statuses \subseteq DOMAIN Reg
    /\ next \in 0..Len(Reg)

(* Every outcome is one that routing may give: the layers' changes to a    *)
(* request never send it to a provider without its model.                  *)
Contract == INSTANCE Dispatch WITH
    Candidates <- Range(Candidates),
    Registered <- DOMAIN Reg,
    Absent     <- 0,
    Supports   <- Supports,
    asked      <- [p \in Clients |-> IF pc[p] = "idle" THEN None ELSE req[p].model],
    bound      <- [p \in Clients |-> IF pc[p] = "idle" \/ req[p].provider_id = None
                                      THEN None ELSE Position[req[p].provider_id]],
    outcome    <- out
ImplementsDispatch == Contract!Spec

SumPicks(M) == SumFunction([n \in M |-> SumFunction(picks[n])])

(* Round robin (LoadBalancer): of two providers of a model one is picked   *)
(* at most once more than the other, and once more for every pick made for *)
(* another model, which turns the shared counter too.                      *)
SpreadBounded ==
    \A m \in Models : \A i, k \in Supports[m] :
        picks[m][i] <= picks[m][k] + 1
            + SumPicks(Models \ {m})

(* The bandit forgets (update): it holds at most MAX_ARMS arms of at most  *)
(* one window each, all of them candidates, and never more observations    *)
(* than it was shown.                                                      *)
BanditBounded ==
    /\ Cardinality(DOMAIN arms) <= MaxArms
    /\ DOMAIN arms \subseteq Range(Candidates)
    /\ \A m \in DOMAIN arms : arms[m] <= Window
    /\ SumFunction(arms) <= total

(* A fallback fails only when it has called every provider of the model    *)
(* among the first max_retries + 1 of the registry, and is answered only   *)
(* when it has called all those before the one that answers.               *)
FallbackExhausts ==
    [][\A p \in Clients : pc[p] = "fallback" /\ pc'[p] = "idle" =>
          IF out'[p] = Failed
            THEN tried[p] = Supports[req[p].model] \cap (1..MaxRetries + 1)
            ELSE tried[p] = Supports[req[p].model] \cap (1..out'[p] - 1)]_vars

(* A status read from the map is of this round or of the one before.       *)
StatusesFresh == \A i \in DOMAIN statuses : statuses[i] <= 1

=============================================================================
