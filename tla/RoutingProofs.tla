---------------------------- MODULE RoutingProofs ----------------------------
(***************************************************************************)
(* Proofs about Routing, for every number of clients, every registry and   *)
(* order of layers: its types, that every outcome is one that Dispatch     *)
(* allows, that a fallback exhausts its providers, and the bounds of the   *)
(* bandit, of the balancer's spread and of the age of a status.            *)
(*                                                                         *)
(* Induction on numbers is by the least counterexample (LeastOf), which    *)
(* also gives the recursive functions their defining equations.            *)
(***************************************************************************)
EXTENDS Routing, FiniteSetTheorems, WellFoundedInduction, TLAPS

LEMMA LeastOf ==
  ASSUME NEW S, S \subseteq Nat, S # {}
  PROVE  \E m \in S : \A k \in S : m <= k
<1>. DEFINE less == OpToRel(<, Nat)
<1>1. IsWellFoundedOn(less, Nat)
  BY NatLessThanWellFounded
<1>2. \A a, b \in Nat : a < b => <<a, b>> \in less
  BY DEF OpToRel
<1>. HIDE DEF less
<1>3. PICK m \in S : \A k \in S : ~(<<k, m>> \in less)
  BY <1>1, WFMin
<1>4. \A k \in S : k \in Nat /\ m \in Nat /\ ~(k < m)
  BY <1>2, <1>3
<1>. QED
  BY <1>4

(* A set of numbers that has 0, and with each number the next, has them all. *)
LEMMA Induction ==
  ASSUME NEW S, 0 \in S, \A n \in Nat : n \in S => n + 1 \in S
  PROVE  Nat \subseteq S
<1>. SUFFICES ASSUME Nat \ S # {} PROVE FALSE
  OBVIOUS
<1>1. PICK m \in Nat \ S : \A k \in Nat \ S : m <= k
  BY LeastOf
<1>2. m # 0 /\ m - 1 \in Nat
  BY <1>1
<1>3. m - 1 \in S
  BY <1>1, <1>2
<1>. QED
  BY <1>1, <1>2, <1>3

LEMMA MinIn ==
  ASSUME NEW S, S \subseteq Nat, S # {}
  PROVE  Min(S) \in S /\ \A k \in S : Min(S) <= k
BY LeastOf DEF Min

LEMMA MinOfTwo ==
  ASSUME NEW a \in Nat, NEW b \in Nat
  PROVE  Min({a, b}) = IF a <= b THEN a ELSE b
<1>1. Min({a, b}) \in {a, b} /\ \A k \in {a, b} : Min({a, b}) <= k
  BY MinIn
<1>. QED
  BY <1>1

-----------------------------------------------------------------------------
(* Positions *)

Builds(g, n, I) ==
    g = [k \in 0..n |-> IF k = 0 THEN <<>>
                         ELSE IF k \in I THEN Append(g[k - 1], k) ELSE g[k - 1]]

(* The numbers in I up to k, each at one place. *)
Lists(s, k, I) ==
    /\ s \in Seq(1..k)
    /\ \A a \in DOMAIN s : s[a] \in I
    /\ \A a, b \in DOMAIN s : s[a] = s[b] => a = b
    /\ \A i \in I \cap (1..k) : \E a \in DOMAIN s : s[a] = i

LEMMA BuildsExists ==
  ASSUME NEW I
  PROVE  \A n \in Nat : \E g : Builds(g, n, I)
<1>. DEFINE S == {n \in Nat : \E g : Builds(g, n, I)}
<1>1. 0 \in S
  <2>1. Builds([k \in 0..0 |-> <<>>], 0, I)
    BY DEF Builds
  <2>. QED
    BY <2>1
<1>2. ASSUME NEW n \in Nat, n \in S PROVE n + 1 \in S
  <2>1. PICK h : Builds(h, n, I)
    BY <1>2
  <2>. DEFINE last == IF n + 1 \in I THEN Append(h[n], n + 1) ELSE h[n]
              g == [k \in 0..n + 1 |-> IF k = n + 1 THEN last ELSE h[k]]
  <2>2. \A k \in 0..n : h[k] = IF k = 0 THEN <<>>
                               ELSE IF k \in I THEN Append(h[k - 1], k) ELSE h[k - 1]
    BY <2>1 DEF Builds
  <2>3. \A k \in 0..n + 1 : g[k] = IF k = 0 THEN <<>>
                               ELSE IF k \in I THEN Append(g[k - 1], k) ELSE g[k - 1]
    BY <2>2
  <2>4. Builds(g, n + 1, I)
    BY <2>3 DEF Builds
  <2>. QED
    BY <2>4
<1>. HIDE DEF S
<1>3. Nat \subseteq S
  BY <1>1, <1>2, Induction
<1>. QED
  BY <1>3 DEF S

LEMMA BuildsLists ==
  ASSUME NEW I, NEW n \in Nat, NEW g, Builds(g, n, I)
  PROVE  \A k \in 0..n : Lists(g[k], k, I)
<1>. DEFINE S == {k \in Nat : k <= n => Lists(g[k], k, I)}
<1>1. \A k \in 0..n : g[k] = IF k = 0 THEN <<>>
                             ELSE IF k \in I THEN Append(g[k - 1], k) ELSE g[k - 1]
  BY DEF Builds
<1>2. 0 \in S
  <2>1. g[0] = <<>>
    BY <1>1
  <2>2. Lists(<<>>, 0, I)
    BY DEF Lists
  <2>. QED
    BY <2>1, <2>2
<1>3. ASSUME NEW k \in Nat, k \in S PROVE k + 1 \in S
  <2>. SUFFICES ASSUME k + 1 <= n PROVE Lists(g[k + 1], k + 1, I)
    OBVIOUS
  <2>1. Lists(g[k], k, I)
    BY <1>3
  <2>2. g[k + 1] = IF k + 1 \in I THEN Append(g[k], k + 1) ELSE g[k]
    BY <1>1
  <2>3. CASE k + 1 \notin I
    BY <2>1, <2>2, <2>3 DEF Lists
  <2>4. CASE k + 1 \in I
    <3>. DEFINE s == g[k]
                t == Append(s, k + 1)
    <3>1. s \in Seq(1..k) /\ k + 1 \in 1..k + 1
      BY <2>1 DEF Lists
    <3>2. /\ t \in Seq(1..k + 1) /\ DOMAIN t = DOMAIN s \cup {Len(s) + 1}
          /\ t[Len(s) + 1] = k + 1 /\ \A a \in DOMAIN s : t[a] = s[a] /\ s[a] \in 1..k
      BY <3>1
    <3>3. Len(s) + 1 \notin DOMAIN s
      BY <3>1
    <3>. HIDE DEF t
    <3>4. \A a \in DOMAIN t : t[a] \in I
      BY <2>1, <2>4, <3>2 DEF Lists
    <3>5. \A a, b \in DOMAIN t : t[a] = t[b] => a = b
      BY <2>1, <3>2, <3>3 DEF Lists
    <3>6. \A i \in I \cap (1..k + 1) : \E a \in DOMAIN t : t[a] = i
      <4>. SUFFICES ASSUME NEW i \in I \cap (1..k + 1) PROVE \E a \in DOMAIN t : t[a] = i
        OBVIOUS
      <4>1. CASE i = k + 1
        BY <3>2, <4>1
      <4>2. CASE i # k + 1
        <5>1. i \in I \cap (1..k)
          BY <4>2
        <5>2. PICK a \in DOMAIN s : s[a] = i
          BY <2>1, <5>1 DEF Lists
        <5>. QED
          BY <3>2, <5>2
      <4>. QED
        BY <4>1, <4>2
    <3>7. g[k + 1] = t
      BY <2>2, <2>4 DEF t
    <3>. QED
      BY <3>2, <3>4, <3>5, <3>6, <3>7 DEF Lists
  <2>. QED
    BY <2>3, <2>4
<1>. HIDE DEF S
<1>4. Nat \subseteq S
  BY <1>2, <1>3, Induction
<1>. QED
  BY <1>4 DEF S

(* Positions lists the numbers of I up to n, each once. *)
LEMMA PositionsList ==
  ASSUME NEW n \in Nat, NEW I
  PROVE  Lists(Positions(n, I), n, I)
<1>. DEFINE g == CHOOSE h : Builds(h, n, I)
<1>1. Positions(n, I) = g[n]
  BY DEF Positions, Builds
<1>2. Builds(g, n, I)
  BY BuildsExists
<1>. HIDE DEF g
<1>. QED
  BY <1>1, <1>2, BuildsLists

-----------------------------------------------------------------------------
(* The registry *)

LEMMA Limits ==
  /\ Warmup \in Nat /\ Window \in Nat /\ MaxRetries \in Nat /\ MaxRequests \in Nat
  /\ MaxArms \in Nat /\ MaxArms >= 1
BY SizesAreNat

LEMMA RegistryIs ==
  /\ Len(Reg) \in Nat /\ DOMAIN Reg = 1..Len(Reg)
  /\ Reg \in Seq(Range(Configs))
<1>. DEFINE I == {i \in DOMAIN Configs : Registers(Configs[i])}
            kept == Positions(Len(Configs), I)
<1>1. Len(Configs) \in Nat /\ DOMAIN Configs = 1..Len(Configs)
  BY ConfigsAreSequence
<1>2. kept \in Seq(1..Len(Configs))
  BY <1>1, PositionsList DEF Lists
<1>. HIDE DEF kept
<1>3. DOMAIN kept = 1..Len(kept) /\ Len(kept) \in Nat /\ \A k \in DOMAIN kept : kept[k] \in 1..Len(Configs)
  BY <1>2
<1>4. Reg = [k \in DOMAIN kept |-> Configs[kept[k]]]
  BY DEF Reg, Providers, kept
<1>5. \A k \in DOMAIN kept : Configs[kept[k]] \in Range(Configs)
  BY <1>1, <1>3 DEF Range
<1>6. Reg \in Seq(Range(Configs))
  BY <1>3, <1>4, <1>5
<1>. QED
  BY <1>6

(* Registered providers are configured ones. *)
LEMMA RegisteredAre ==
  ASSUME NEW i \in DOMAIN Reg
  PROVE  Reg[i].id \in RegisteredIds /\ Reg[i].id \in Ids /\ Reg[i].id # None
<1>1. Reg[i] \in Range(Configs)
  BY RegistryIs
<1>2. PICK k \in DOMAIN Configs : Reg[i] = Configs[k]
  BY <1>1 DEF Range
<1>. QED
  BY <1>2, NamesApart DEF RegisteredIds, Ids

LEMMA IdsAreUnique ==
  ASSUME NEW i \in DOMAIN Reg, NEW k \in DOMAIN Reg, Reg[i].id = Reg[k].id
  PROVE  i = k
<1>. DEFINE f == [x \in DOMAIN Reg |-> Reg[x].id]
<1>1. f \in Surjection(DOMAIN Reg, RegisteredIds)
  BY DEF Surjection, RegisteredIds
<1>2. IsFiniteSet(DOMAIN Reg) /\ Cardinality(DOMAIN Reg) = Len(Reg)
  <2>. DEFINE n == Len(Reg)
  <2>1. n \in Nat /\ DOMAIN Reg = 1..n
    BY RegistryIs
  <2>. HIDE DEF n
  <2>2. IsFiniteSet(1..n) /\ Cardinality(1..n) = n
    BY <2>1, FS_Interval
  <2>. QED
    BY <2>1, <2>2 DEF n
<1>3. f \in Injection(DOMAIN Reg, RegisteredIds)
  BY <1>1, <1>2, IdsDiffer, FS_SurjSameCardinalityImpliesInj
<1>. QED
  BY <1>3 DEF Injection, IsInjective

LEMMA SupportsIn ==
  ASSUME NEW m \in Models
  PROVE  Supports[m] \subseteq DOMAIN Reg /\ Supports[m] \subseteq Nat
BY RegistryIs DEF Supports, Supporting

LEMMA FirstIn ==
  ASSUME NEW S, S \subseteq Nat
  PROVE  FirstOf(S) = 0 \/ FirstOf(S) \in S
BY MinIn DEF FirstOf

(* A provider that is found for a model supports it. *)
LEMMA FoundSupports ==
  ASSUME NEW m \in Models
  PROVE  /\ GetProvider(Reg, m) # 0 => GetProvider(Reg, m) \in Supports[m]
         /\ Preferred[m] # 0 => Preferred[m] \in Supports[m]
<1>1. Supporting(Reg, m) = Supports[m]
  BY DEF Supports
<1>2. GetProvider(Reg, m) # 0 => GetProvider(Reg, m) \in Supports[m]
  BY <1>1, SupportsIn, FirstIn DEF GetProvider
<1>. DEFINE prio(i) == Priority(Configs, Reg[i].id)
            B == {i \in Supports[m] : \A k \in Supports[m] : prio(i) <= prio(k)}
<1>3. Preferred[m] = FirstOf(B)
  BY <1>1 DEF Preferred, FindProvider, Reg
<1>4. B \subseteq Supports[m] /\ B \subseteq Nat
  BY SupportsIn
<1>. HIDE DEF B
<1>. QED
  BY <1>2, <1>3, <1>4, FirstIn

(* A provider is found by its id. *)
LEMMA PositionIs ==
  ASSUME NEW i \in DOMAIN Reg
  PROVE  Reg[i].id \in Ids /\ Position[Reg[i].id] = i
<1>. DEFINE n == Reg[i].id
            S == {k \in DOMAIN Reg : Reg[k].id = n}
<1>1. n \in Ids
  BY RegisteredAre
<1>2. S = {i}
  BY IdsAreUnique
<1>3. FirstOf(S) \in S
  <2>1. S \subseteq Nat /\ S # {}
    BY <1>2, RegistryIs
  <2>. HIDE DEF S
  <2>. QED
    BY <2>1, MinIn DEF FirstOf
<1>4. Position[n] = FirstOf(S)
  BY <1>1 DEF Position, GetByName
<1>. QED
  BY <1>1, <1>2, <1>3, <1>4

LEMMA PositionIn ==
  ASSUME NEW n \in RegisteredIds
  PROVE  /\ Position[n] \in DOMAIN Reg /\ Reg[Position[n]].id = n
         /\ n \in Ids /\ Position[n] # 0
<1>1. PICK i \in DOMAIN Reg : Reg[i].id = n
  BY DEF RegisteredIds
<1>2. i # 0
  BY RegistryIs
<1>. QED
  BY <1>1, <1>2, PositionIs

(* Another that is configured is not found. *)
LEMMA PositionOr ==
  ASSUME NEW n \in Ids
  PROVE  /\ Position[n] \in DOMAIN Reg \cup {0}
         /\ Position[n] # 0 => n \in RegisteredIds
<1>1. CASE n \in RegisteredIds
  BY <1>1, PositionIn
<1>2. CASE n \notin RegisteredIds
  <2>1. {k \in DOMAIN Reg : Reg[k].id = n} = {}
    BY <1>2 DEF RegisteredIds
  <2>2. Position[n] = FirstOf({k \in DOMAIN Reg : Reg[k].id = n})
    BY DEF Position, GetByName
  <2>. QED
    BY <2>1, <2>2 DEF FirstOf
<1>. QED
  BY <1>1, <1>2

LEMMA MatchingIs ==
  ASSUME NEW m \in Models
  PROVE  /\ Lists(Matching[m], Len(Reg), Supports[m])
         /\ Len(Matching[m]) \in Nat /\ DOMAIN Matching[m] = 1..Len(Matching[m])
         /\ (Matching[m] = <<>>) <=> (Len(Matching[m]) = 0)
<1>1. Matching[m] = Positions(Len(Reg), Supports[m])
  BY DEF Matching
<1>2. Lists(Matching[m], Len(Reg), Supports[m])
  BY <1>1, RegistryIs, PositionsList
<1>. QED
  BY <1>2 DEF Lists

-----------------------------------------------------------------------------
(* Types *)

Labels == {"idle", "onRequest", "call", "onResponse", "fallback"}

(* The part of TypeOK that speaks of the requests, and: a fallback is bound  *)
(* to no provider and makes at most one attempt more than it has retries.    *)
RequestsOK ==
    /\ layers \in LayerOrders
    /\ begun \in 0..MaxRequests
    /\ pc \in [Clients -> Labels]
    /\ req \in [Clients -> Request]
    /\ \A p \in Clients :
          /\ pc[p] \in {"onRequest", "call"} => req[p].at \in 1..Len(layers) + 1
          /\ pc[p] = "onResponse" => req[p].at \in 0..Len(layers)
          /\ pc[p] \in {"call", "onResponse"} => req[p].provider_id \in RegisteredIds
          /\ pc[p] = "fallback" => /\ req[p].at \in 1..Len(Reg) + 1
                                   /\ req[p].at <= MaxRetries + 2
                                   /\ req[p].provider_id = None

OutcomesOK ==
    /\ tried \in [Clients -> SUBSET DOMAIN Reg]
    /\ out \in [Clients -> DOMAIN Reg \cup {None, Failed}]

BalancerOK == counter \in Nat /\ picks \in [Models -> [DOMAIN Reg -> Nat]]

BanditOK ==
    /\ total \in Nat
    /\ DOMAIN arms \subseteq Models /\ \A m \in DOMAIN arms : arms[m] \in 0..Window

MonitorOK == DOMAIN statuses \subseteq DOMAIN Reg /\ next \in 0..Len(Reg)

TypeInv == RequestsOK /\ OutcomesOK /\ BalancerOK /\ BanditOK /\ MonitorOK

LEMMA TypeParts == TypeInv => TypeOK
BY DEF TypeInv, RequestsOK, OutcomesOK, BalancerOK, BanditOK, MonitorOK, TypeOK, Labels

LEMMA LayersAre ==
  ASSUME RequestsOK
  PROVE  /\ Len(layers) \in Nat /\ DOMAIN layers = 1..Len(layers)
         /\ \A i \in DOMAIN layers : layers[i] \in {"balancer", "auctioneer"}
<1>1. layers \in Seq({"balancer", "auctioneer"})
  BY LayersKnown DEF RequestsOK
<1>. QED
  BY <1>1

LEMMA NoRequestOK == NoRequest \in Request
BY ModelsAreFinite DEF NoRequest, Request

(* What a client's request must be at a label. *)
Fits(label, r) ==
    /\ r \in Request
    /\ label \in {"onRequest", "call"} => r.at \in 1..Len(layers) + 1
    /\ label = "onResponse" => r.at \in 0..Len(layers)
    /\ label \in {"call", "onResponse"} => r.provider_id \in RegisteredIds
    /\ label = "fallback" =>
          r.at \in 1..Len(Reg) + 1 /\ r.at <= MaxRetries + 2 /\ r.provider_id = None

LEMMA MoveOK ==
  ASSUME RequestsOK, NEW p \in Clients, NEW label \in Labels, NEW r, Fits(label, r),
         pc' = [pc EXCEPT ![p] = label], req' = [req EXCEPT ![p] = r],
         UNCHANGED layers, begun' \in 0..MaxRequests
  PROVE  RequestsOK'
BY DEF RequestsOK, Fits

LEMMA GotoOK ==
  ASSUME RequestsOK, NEW p \in Clients, NEW label \in Labels, NEW r, Fits(label, r),
         Goto(p, label, r)
  PROVE  RequestsOK' /\ UNCHANGED out
BY MoveOK DEF Goto, RequestsOK

LEMMA FinishOK ==
  ASSUME RequestsOK, OutcomesOK, NEW p \in Clients,
         NEW o \in DOMAIN Reg \cup {None, Failed}, Finish(p, o)
  PROVE  RequestsOK' /\ out' \in [Clients -> DOMAIN Reg \cup {None, Failed}]
<1>1. Fits("idle", NoRequest)
  BY NoRequestOK DEF Fits
<1>2. RequestsOK'
  BY <1>1, MoveOK DEF Finish, RequestsOK, Labels
<1>. QED
  BY <1>2 DEF Finish, OutcomesOK

LEMMA BeginOK ==
  ASSUME TypeInv, NEW p \in Clients, NEW label \in {"onRequest", "call", "fallback"},
         NEW m \in Models, NEW n \in Ids \cup {None}, NEW s \in BOOLEAN,
         label = "call" => n \in RegisteredIds, label = "fallback" => n = None,
         Begin(p, label, m, n, s)
  PROVE  TypeInv'
<1>. DEFINE r == [model |-> m, provider_id |-> n, stream |-> s, at |-> 1]
<1>1. r \in Request
  BY DEF Request
<1>2. Fits(label, r)
  <2>1. Len(layers) \in Nat /\ Len(Reg) \in Nat
    BY LayersAre, RegistryIs DEF TypeInv
  <2>. QED
    BY <1>1, <2>1, Limits DEF Fits
<1>. HIDE DEF r
<1>3. RequestsOK'
  <2>1. begun' \in 0..MaxRequests
    BY Limits DEF Begin, TypeInv, RequestsOK
  <2>2. pc' = [pc EXCEPT ![p] = label] /\ req' = [req EXCEPT ![p] = r] /\ UNCHANGED layers
    BY DEF Begin, r
  <2>. QED
    BY <1>2, <2>1, <2>2, MoveOK DEF TypeInv, Labels
<1>4. OutcomesOK'
  BY DEF Begin, TypeInv, OutcomesOK
<1>. QED
  BY <1>3, <1>4 DEF Begin, TypeInv, BalancerOK, BanditOK, MonitorOK, balancer, bandit, monitor

LEMMA InitTyped == Init => TypeInv
<1>. SUFFICES ASSUME Init PROVE TypeInv
  OBVIOUS
<1>1. RequestsOK
  BY NoRequestOK, Limits DEF Init, RequestsOK, Labels
<1>2. OutcomesOK
  BY DEF Init, OutcomesOK
<1>3. BalancerOK
  BY DEF Init, BalancerOK
<1>4. BanditOK /\ MonitorOK
  BY RegistryIs DEF Init, BanditOK, MonitorOK
<1>. QED
  BY <1>1, <1>2, <1>3, <1>4 DEF TypeInv

(* The balancer picks a provider of the model. *)
LEMMA PickIs ==
  ASSUME NEW m \in Models, NEW c \in Nat, Matching[m] # <<>>
  PROVE  /\ Len(Matching[m]) \in Nat \ {0}
         /\ Index(c, Len(Matching[m])) \in DOMAIN Matching[m]
         /\ Matching[m][Index(c, Len(Matching[m]))] \in Supports[m]
<1>. DEFINE n == Len(Matching[m])
<1>1. n \in Nat /\ n # 0 /\ DOMAIN Matching[m] = 1..n
  BY MatchingIs
<1>. HIDE DEF n
<1>2. c % n \in 0..n - 1
  BY <1>1
<1>3. Index(c, n) \in 1..n
  BY <1>1, <1>2 DEF Index
<1>. QED
  BY <1>1, <1>3, MatchingIs DEF Lists, n

LEMMA OnwardOK ==
  ASSUME RequestsOK, NEW p \in Clients, NEW layer, OnRequest(p, layer),
         NEW r \in Request, r.at = req[p].at, Onward(p, r)
  PROVE  RequestsOK' /\ UNCHANGED out
<1>. DEFINE s == [r EXCEPT !.at = r.at + 1]
<1>1. Len(layers) \in Nat /\ DOMAIN layers = 1..Len(layers)
  BY LayersAre
<1>2. s \in Request /\ s.at = req[p].at + 1 /\ req[p].at \in 1..Len(layers)
  BY <1>1 DEF Request, OnRequest
<1>3. s.at \in 1..Len(layers) + 1
  BY <1>1, <1>2
<1>4. Fits("onRequest", s)
  BY <1>2, <1>3 DEF Fits
<1>. HIDE DEF s
<1>5. Goto(p, "onRequest", s)
  BY DEF Onward, s
<1>. QED
  BY <1>4, <1>5, GotoOK DEF Labels

LEMMA BalanceTyped ==
  ASSUME TypeInv, NEW p \in Clients, Balance(p)
  PROVE  TypeInv'
<1>. DEFINE r == req[p]
            matching == Matching[r.model]
            selected == matching[Index(counter, Len(matching))]
<1>1. r \in Request /\ r.model \in Models
  BY DEF TypeInv, RequestsOK, Request
<1>2. OnRequest(p, "balancer")
  BY DEF Balance
<1>3. CASE r.provider_id # None \/ matching = <<>>
  <2>1. Onward(p, r) /\ UNCHANGED balancer
    BY <1>3 DEF Balance
  <2>2. RequestsOK' /\ UNCHANGED out
    BY <1>1, <1>2, <2>1, OnwardOK DEF TypeInv
  <2>. QED
    BY <1>2, <2>1, <2>2 DEF TypeInv, OnRequest, OutcomesOK, BalancerOK, BanditOK, MonitorOK,
       balancer, bandit, monitor
<1>4. CASE ~(r.provider_id # None \/ matching = <<>>)
  <2>1. /\ counter' = counter + 1
        /\ picks' = [picks EXCEPT ![r.model][selected] = @ + 1]
        /\ Onward(p, [r EXCEPT !.provider_id = Reg[selected].id])
    BY <1>4 DEF Balance
  <2>2. selected \in DOMAIN Reg
    BY <1>1, <1>4, PickIs, SupportsIn DEF TypeInv, BalancerOK
  <2>3. Reg[selected].id \in Ids
    BY <2>2, RegisteredAre
  <2>. HIDE DEF selected
  <2>4. RequestsOK' /\ UNCHANGED out
    <3>. DEFINE s == [r EXCEPT !.provider_id = Reg[selected].id]
    <3>1. s \in Request /\ s.at = req[p].at
      BY <1>1, <2>3 DEF Request
    <3>2. Onward(p, s)
      BY <2>1
    <3>. HIDE DEF s
    <3>. QED
      BY <1>2, <3>1, <3>2, OnwardOK DEF TypeInv
  <2>5. BalancerOK'
    <3>1. picks[r.model][selected] + 1 \in Nat
      BY <1>1, <2>2 DEF TypeInv, BalancerOK
    <3>. QED
      BY <1>1, <2>1, <2>2, <3>1 DEF TypeInv, BalancerOK
  <2>. QED
    BY <1>2, <2>4, <2>5 DEF TypeInv, OnRequest, OutcomesOK, BanditOK, MonitorOK, bandit, monitor
<1>. QED
  BY <1>3, <1>4

LEMMA AuctionTyped ==
  ASSUME TypeInv, NEW p \in Clients, Auction(p)
  PROVE  TypeInv'
<1>1. OnRequest(p, "auctioneer") /\ UNCHANGED balancer /\ req[p] \in Request
  BY DEF Auction, TypeInv, RequestsOK
<1>2. RequestsOK' /\ OutcomesOK'
  <2>1. CASE Candidates = <<>>
    BY <1>1, <2>1, FinishOK DEF Auction, TypeInv, OutcomesOK, OnRequest
  <2>2. CASE Candidates # <<>>
    <3>1. PICK m \in Models : Onward(p, Reassigned(req[p], m))
      <4>1. Head(Candidates) \in Models /\ Range(Candidates) \subseteq Models
        BY <2>2, CandidatesAreModels DEF Range
      <4>. QED
        BY <2>2, <4>1 DEF Auction
    <3>2. Reassigned(req[p], m) \in Request /\ Reassigned(req[p], m).at = req[p].at
      BY <1>1 DEF Reassigned, Request
    <3>3. RequestsOK' /\ UNCHANGED out
      BY <1>1, <3>1, <3>2, OnwardOK DEF TypeInv
    <3>. QED
      BY <1>1, <3>3 DEF TypeInv, OutcomesOK, OnRequest
  <2>. QED
    BY <2>1, <2>2
<1>. QED
  BY <1>1, <1>2 DEF TypeInv, OnRequest, BalancerOK, BanditOK, MonitorOK, balancer, bandit, monitor

LEMMA SelectTyped ==
  ASSUME TypeInv, NEW p \in Clients, Select(p)
  PROVE  TypeInv'
<1>. DEFINE r == req[p]
            i == IF r.provider_id # None THEN Position[r.provider_id] ELSE GetProvider(Reg, r.model)
<1>1. r \in Request /\ pc[p] = "onRequest" /\ r.at \in 1..Len(layers) + 1
  BY DEF Select, TypeInv, RequestsOK
<1>2. RequestsOK' /\ OutcomesOK'
  <2>1. CASE i = 0
    BY <2>1, FinishOK DEF Select, TypeInv, OutcomesOK
  <2>2. CASE i # 0
    <3>1. i \in DOMAIN Reg
      BY <1>1, <2>2, PositionOr, FoundSupports, SupportsIn DEF Request
    <3>2. Reg[i].id \in Ids /\ Reg[i].id \in RegisteredIds
      BY <3>1, RegisteredAre
    <3>3. Goto(p, "call", [r EXCEPT !.provider_id = Reg[i].id])
      BY <2>2 DEF Select
    <3>. HIDE DEF i
    <3>. DEFINE s == [r EXCEPT !.provider_id = Reg[i].id]
    <3>4. Fits("call", s)
      BY <1>1, <3>2 DEF Fits, Request
    <3>. HIDE DEF s
    <3>5. RequestsOK' /\ UNCHANGED out
      <4>1. Goto(p, "call", s)
        BY <3>3 DEF s
      <4>. QED
        BY <3>4, <4>1, GotoOK DEF TypeInv, Labels
    <3>. QED
      BY <3>5 DEF Select, TypeInv, OutcomesOK
  <2>. QED
    BY <2>1, <2>2
<1>. QED
  BY <1>2 DEF Select, TypeInv, BalancerOK, BanditOK, MonitorOK, balancer, bandit, monitor

LEMMA CallTyped ==
  ASSUME TypeInv, NEW p \in Clients, CallAnswers(p) \/ CallFails(p)
  PROVE  TypeInv'
<1>1. /\ req[p] \in Request /\ pc[p] = "call" /\ req[p].at \in 1..Len(layers) + 1
      /\ req[p].provider_id \in RegisteredIds /\ UNCHANGED <<balancer, bandit, tried, monitor>>
  BY DEF CallAnswers, CallFails, TypeInv, RequestsOK
<1>2. Len(layers) \in Nat
  BY LayersAre DEF TypeInv
<1>3. RequestsOK' /\ OutcomesOK'
  <2>1. CASE Finish(p, Position[req[p].provider_id])
    <3>1. Position[req[p].provider_id] \in DOMAIN Reg
      BY <1>1, PositionIn DEF Request
    <3>. QED
      BY <1>1, <2>1, <3>1, FinishOK DEF TypeInv, OutcomesOK
  <2>2. CASE Goto(p, "onResponse", [req[p] EXCEPT !.at = @ - 1])
    <3>. DEFINE s == [req[p] EXCEPT !.at = @ - 1]
    <3>1. s \in Request /\ s.at = req[p].at - 1 /\ s.provider_id \in RegisteredIds
      BY <1>1, <1>2 DEF Request
    <3>2. Fits("onResponse", s)
      BY <1>1, <1>2, <3>1 DEF Fits
    <3>3. RequestsOK' /\ UNCHANGED out
      BY <2>2, <3>2, GotoOK DEF TypeInv, Labels
    <3>. QED
      BY <1>1, <3>3 DEF TypeInv, OutcomesOK
  <2>3. CASE CallFails(p)
    BY <1>1, <2>3, FinishOK DEF CallFails, TypeInv, OutcomesOK
  <2>. QED
    BY <2>1, <2>2, <2>3 DEF CallAnswers
<1>. QED
  BY <1>1, <1>3 DEF TypeInv, BalancerOK, BanditOK, MonitorOK, balancer, bandit, monitor

LEMMA UpdateTyped ==
  ASSUME BanditOK, NEW m \in Models, Update(m)
  PROVE  BanditOK'
<1>. DEFINE seen == IF m \in DOMAIN arms THEN arms[m] ELSE 0
<1>1. PICK V \in SUBSET (DOMAIN arms) :
         arms' = [a \in (DOMAIN arms \ V) \cup {m} |->
                     IF a = m THEN Min({seen + 1, Window}) ELSE arms[a]]
  BY DEF Update
<1>2. Min({seen + 1, Window}) \in 0..Window
  BY Limits, MinOfTwo DEF BanditOK
<1>. HIDE DEF seen
<1>3. DOMAIN arms' \subseteq Models /\ \A a \in DOMAIN arms' : arms'[a] \in 0..Window
  BY <1>1, <1>2 DEF BanditOK
<1>4. total' = total + 1
  BY DEF Update
<1>. QED
  BY <1>3, <1>4 DEF BanditOK

LEMMA OnResponseTyped ==
  ASSUME TypeInv, NEW p \in Clients, OnResponse(p)
  PROVE  TypeInv'
<1>1. /\ req[p] \in Request /\ pc[p] = "onResponse" /\ req[p].at \in 0..Len(layers)
      /\ req[p].provider_id \in RegisteredIds /\ UNCHANGED <<balancer, tried, monitor>>
  BY DEF OnResponse, TypeInv, RequestsOK
<1>2. Len(layers) \in Nat
  BY LayersAre DEF TypeInv
<1>3. CASE req[p].at = 0
  <2>1. Finish(p, Position[req[p].provider_id]) /\ UNCHANGED bandit
    BY <1>3 DEF OnResponse
  <2>2. Position[req[p].provider_id] \in DOMAIN Reg
    BY <1>1, PositionIn DEF Request
  <2>3. RequestsOK' /\ OutcomesOK'
    BY <1>1, <2>1, <2>2, FinishOK DEF TypeInv, OutcomesOK
  <2>. QED
    BY <1>1, <2>1, <2>3 DEF TypeInv, BalancerOK, BanditOK, MonitorOK, balancer, bandit, monitor
<1>4. CASE req[p].at # 0
  <2>. DEFINE s == [req[p] EXCEPT !.at = @ - 1]
  <2>1. Goto(p, "onResponse", s) /\ (Update(req[p].model) \/ UNCHANGED bandit)
    BY <1>4 DEF OnResponse
  <2>2. s \in Request /\ s.at = req[p].at - 1 /\ s.provider_id \in RegisteredIds
    BY <1>1, <1>2, <1>4 DEF Request
  <2>3. Fits("onResponse", s)
    BY <1>1, <1>2, <1>4, <2>2 DEF Fits
  <2>4. RequestsOK' /\ UNCHANGED out
    BY <2>1, <2>3, GotoOK DEF TypeInv, Labels
  <2>5. BanditOK'
    BY <1>1, <2>1, UpdateTyped DEF TypeInv, Request, BanditOK, bandit
  <2>. QED
    BY <1>1, <2>4, <2>5 DEF TypeInv, OutcomesOK, BalancerOK, MonitorOK, balancer, monitor
<1>. QED
  BY <1>3, <1>4

LEMMA AttemptTyped ==
  ASSUME TypeInv, NEW p \in Clients, Attempt(p)
  PROVE  TypeInv'
<1>. DEFINE r == req[p]
            s == [r EXCEPT !.at = @ + 1]
            more == ~(r.at > Len(Reg) \/ OutOfRetries(r.at))
<1>1. /\ r \in Request /\ pc[p] = "fallback" /\ r.provider_id = None
      /\ r.at \in 1..Len(Reg) + 1 /\ r.at <= MaxRetries + 2
      /\ UNCHANGED <<balancer, bandit, monitor>>
  BY DEF Attempt, TypeInv, RequestsOK
<1>2. Len(Reg) \in Nat /\ DOMAIN Reg = 1..Len(Reg)
  BY RegistryIs
<1>3. tried' \in [Clients -> SUBSET DOMAIN Reg]
  <2>1. tried \in [Clients -> SUBSET DOMAIN Reg]
    BY DEF TypeInv, OutcomesOK
  <2>2. CASE UNCHANGED tried \/ tried' = [tried EXCEPT ![p] = {}]
    BY <2>1, <2>2
  <2>3. CASE more /\ tried' = [tried EXCEPT ![p] = @ \cup {r.at}]
    <3>1. r.at \in DOMAIN Reg
      BY <1>1, <1>2, <2>3
    <3>2. tried[p] \cup {r.at} \in SUBSET DOMAIN Reg
      BY <2>1, <3>1
    <3>. QED
      BY <2>1, <2>3, <3>2
  <2>. QED
    BY <2>2, <2>3 DEF Attempt
<1>4. RequestsOK' /\ out' \in [Clients -> DOMAIN Reg \cup {None, Failed}]
  <2>1. CASE ~more
    BY <2>1, FinishOK DEF Attempt, TypeInv
  <2>2. CASE more /\ Finish(p, r.at)
    BY <1>1, <1>2, <2>2, FinishOK DEF TypeInv
  <2>3. CASE more /\ Goto(p, "fallback", s)
    <3>1. s \in Request /\ s.at = r.at + 1 /\ s.provider_id = None
      BY <1>1, <1>2 DEF Request
    <3>5. r.at \in Nat /\ r.at >= 1 /\ r.at <= Len(Reg) /\ r.at - 1 <= MaxRetries
      BY <1>1, <1>2, <2>3, Limits DEF OutOfRetries
    <3>. HIDE DEF r, s, more
    <3>2. s.at \in 1..Len(Reg) + 1 /\ s.at <= MaxRetries + 2
      BY <1>2, <3>1, <3>5, Limits
    <3>. USE DEF r, s, more
    <3>3. Fits("fallback", s)
      BY <3>1, <3>2 DEF Fits
    <3>4. RequestsOK' /\ UNCHANGED out
      BY <2>3, <3>3, GotoOK DEF TypeInv, Labels
    <3>. QED
      BY <3>4 DEF TypeInv, OutcomesOK
  <2>. QED
    BY <2>1, <2>2, <2>3 DEF Attempt
<1>. QED
  BY <1>1, <1>3, <1>4 DEF TypeInv, OutcomesOK, BalancerOK, BanditOK, MonitorOK, balancer, bandit, monitor

LEMMA MonitorTyped ==
  ASSUME TypeInv, Monitor
  PROVE  TypeInv'
<1>1. Len(Reg) \in Nat /\ DOMAIN Reg = 1..Len(Reg)
  BY RegistryIs
<1>2. MonitorOK'
  <2>1. CASE StartRound
    <3>1. Len(Reg) # 0
      BY <1>1, <2>1, RegistryIs DEF StartRound
    <3>. QED
      BY <1>1, <2>1, <3>1 DEF StartRound, TypeInv, MonitorOK
  <2>2. CASE Check
    <3>1. next \in DOMAIN Reg
      BY <1>1, <2>2 DEF Check, TypeInv, MonitorOK
    <3>2. DOMAIN statuses' \subseteq DOMAIN Reg
      BY <2>2, <3>1 DEF Check, TypeInv, MonitorOK
    <3>3. next' \in 0..Len(Reg)
      BY <1>1, <2>2, <3>1 DEF Check, After
    <3>. QED
      BY <3>2, <3>3 DEF MonitorOK
  <2>. QED
    BY <2>1, <2>2 DEF Monitor
<1>. QED
  BY <1>2 DEF Monitor, StartRound, Check, TypeInv, RequestsOK, OutcomesOK, BalancerOK, BanditOK,
     clients, balancer, bandit

LEMMA StepTyped == TypeInv /\ [Next]_vars => TypeInv'
<1>. SUFFICES ASSUME TypeInv, [Next]_vars PROVE TypeInv'
  OBVIOUS
<1>1. CASE UNCHANGED vars
  BY <1>1 DEF vars, TypeInv, RequestsOK, OutcomesOK, BalancerOK, BanditOK, MonitorOK,
     clients, balancer, bandit, monitor
<1>2. ASSUME NEW p \in Clients, NEW m \in Models
      PROVE  /\ \A n \in Ids \cup {None}, s \in BOOLEAN : Execute(p, m, n, s) => TypeInv'
             /\ \A s \in BOOLEAN : Serve(p, m, s) => TypeInv'
             /\ ExecuteWithFallback(p, m) => TypeInv'
  <2>1. ASSUME NEW n \in Ids \cup {None}, NEW s \in BOOLEAN, Execute(p, m, n, s) PROVE TypeInv'
    BY <2>1, BeginOK DEF Execute
  <2>2. ASSUME NEW s \in BOOLEAN, Serve(p, m, s) PROVE TypeInv'
    <3>1. Preferred[m] \in DOMAIN Reg /\ Begin(p, "call", m, Reg[Preferred[m]].id, s)
      BY <2>2, FoundSupports, SupportsIn DEF Serve
    <3>2. Reg[Preferred[m]].id \in Ids /\ Reg[Preferred[m]].id \in RegisteredIds
      BY <3>1, RegisteredAre
    <3>. QED
      BY <3>1, <3>2, BeginOK
  <2>3. ExecuteWithFallback(p, m) => TypeInv'
    BY BeginOK DEF ExecuteWithFallback
  <2>. QED
    BY <2>1, <2>2, <2>3
<1>3. CASE Next
  BY <1>2, <1>3, MonitorTyped, BalanceTyped, AuctionTyped, SelectTyped, CallTyped,
     OnResponseTyped, AttemptTyped DEF Next
<1>. QED
  BY <1>1, <1>3

LEMMA TypeInvariant == Spec => []TypeInv
BY InitTyped, StepTyped, PTL DEF Spec

(* Requests, outcomes, the balancer, the bandit and the map of statuses keep *)
(* their types, and no layer or attempt is gone to that does not exist.      *)
THEOREM TypeCorrect == Spec => []TypeOK
BY TypeInvariant, TypeParts, PTL

-----------------------------------------------------------------------------
(* The steps of a client *)

Begins(p) ==
    \E m \in Models :
        \/ \E n \in Ids \cup {None}, s \in BOOLEAN : Execute(p, m, n, s)
        \/ \E s \in BOOLEAN : Serve(p, m, s)

(* Every step of a client but those of a fallback. *)
Routes(p) ==
    \/ Begins(p) \/ Balance(p) \/ Auction(p) \/ Select(p)
    \/ CallAnswers(p) \/ CallFails(p) \/ OnResponse(p)

LEMMA NextCases ==
  ASSUME [Next]_vars
  PROVE  \/ UNCHANGED vars
         \/ Monitor
         \/ \E p \in Clients : \/ Routes(p) \/ Attempt(p)
                               \/ \E m \in Models : ExecuteWithFallback(p, m)
BY DEF Next, Routes, Begins

(* What these steps change of the requests is the client's own. *)
LEMMA RoutesMove ==
  ASSUME TypeInv, NEW p \in Clients, Routes(p)
  PROVE  /\ UNCHANGED tried /\ pc[p] \in Labels \ {"fallback"}
         /\ \E label \in Labels \ {"fallback"} : \E r :
               pc' = [pc EXCEPT ![p] = label] /\ req' = [req EXCEPT ![p] = r]
<1>1. CASE Begins(p)
  BY <1>1 DEF Begins, Execute, Serve, Begin, Labels
<1>2. CASE Balance(p) \/ Auction(p)
  <2>1. pc[p] = "onRequest" /\ UNCHANGED tried
    BY <1>2 DEF Balance, Auction, OnRequest
  <2>2. PICK r, o : Goto(p, "onRequest", r) \/ Finish(p, o)
    BY <1>2 DEF Balance, Auction, Onward
  <2>. QED
    BY <2>1, <2>2 DEF Goto, Finish, Labels
<1>3. CASE Select(p) \/ CallAnswers(p) \/ CallFails(p) \/ OnResponse(p)
  <2>1. pc[p] \in {"onRequest", "call", "onResponse"} /\ UNCHANGED tried
    BY <1>3 DEF Select, CallAnswers, CallFails, OnResponse
  <2>2. PICK label, r, o : \/ label \in {"idle", "call", "onResponse"} /\ Goto(p, label, r)
                           \/ Finish(p, o)
    BY <1>3 DEF Select, CallAnswers, CallFails, OnResponse
  <2>. QED
    BY <2>1, <2>2 DEF Goto, Finish, Labels
<1>. QED
  BY <1>1, <1>2, <1>3 DEF Routes

-----------------------------------------------------------------------------
(* The fallback *)

(* A fallback has tried the providers of its model that it has passed. *)
TriedInv ==
    \A p \in Clients :
        tried[p] = IF pc[p] = "fallback" THEN Supports[req[p].model] \cap (1..req[p].at - 1)
                                         ELSE {}

LEMMA AttemptTries ==
  ASSUME TypeInv, TriedInv, NEW p \in Clients, Attempt(p)
  PROVE  TriedInv'
<1>. DEFINE r == req[p]
            s == [r EXCEPT !.at = @ + 1]
<1>1. /\ r \in Request /\ pc[p] = "fallback" /\ r.at \in Nat /\ r.at >= 1
      /\ tried[p] = Supports[r.model] \cap (1..r.at - 1)
      /\ tried \in [Clients -> SUBSET DOMAIN Reg]
      /\ pc \in [Clients -> Labels] /\ req \in [Clients -> Request]
  BY RegistryIs DEF Attempt, TypeInv, RequestsOK, OutcomesOK, TriedInv
<1>2. CASE \E o : Finish(p, o) /\ tried' = [tried EXCEPT ![p] = {}]
  BY <1>1, <1>2 DEF Finish, TriedInv
<1>3. CASE /\ Goto(p, "fallback", s)
           /\ tried'[p] = Supports[r.model] \cap (1..r.at)
           /\ \A q \in Clients \ {p} : tried'[q] = tried[q]
  <2>1. s.at - 1 = r.at /\ s.model = r.model
    BY <1>1 DEF Request
  <2>. HIDE DEF s
  <2>2. pc'[p] = "fallback" /\ req'[p] = s
    BY <1>1, <1>3 DEF Goto
  <2>3. tried'[p] = Supports[s.model] \cap (1..s.at - 1)
    BY <1>3, <2>1
  <2>4. \A q \in Clients \ {p} : pc'[q] = pc[q] /\ req'[q] = req[q]
    BY <1>1, <1>3 DEF Goto
  <2>. QED
    BY <1>3, <2>2, <2>3, <2>4 DEF TriedInv
<1>4. 1..r.at = (1..r.at - 1) \cup {r.at}
  BY <1>1
<1>5. CASE Goto(p, "fallback", s) /\ r.at \notin Supports[r.model] /\ UNCHANGED tried
  <2>1. Supports[r.model] \cap (1..r.at) = Supports[r.model] \cap (1..r.at - 1)
    BY <1>4, <1>5
  <2>. QED
    BY <1>1, <1>3, <1>5, <2>1
<1>6. CASE /\ Goto(p, "fallback", s) /\ r.at \in Supports[r.model]
           /\ tried' = [tried EXCEPT ![p] = @ \cup {r.at}]
  <2>1. Supports[r.model] \cap (1..r.at) = tried[p] \cup {r.at}
    BY <1>1, <1>4, <1>6
  <2>. QED
    BY <1>1, <1>3, <1>6, <2>1
<1>. QED
  BY <1>2, <1>5, <1>6 DEF Attempt

LEMMA TriedStep == TypeInv /\ TriedInv /\ [Next]_vars => TriedInv'
<1>. SUFFICES ASSUME TypeInv, TriedInv, [Next]_vars PROVE TriedInv'
  OBVIOUS
<1>1. pc \in [Clients -> Labels] /\ req \in [Clients -> Request] /\ tried \in [Clients -> SUBSET DOMAIN Reg]
  BY DEF TypeInv, RequestsOK, OutcomesOK
<1>2. CASE UNCHANGED vars \/ Monitor
  BY <1>2 DEF vars, Monitor, StartRound, Check, clients, TriedInv
<1>3. ASSUME NEW p \in Clients, Routes(p) PROVE TriedInv'
  <2>1. /\ UNCHANGED tried /\ pc[p] # "fallback"
        /\ \E label \in Labels \ {"fallback"} : \E r :
              pc' = [pc EXCEPT ![p] = label] /\ req' = [req EXCEPT ![p] = r]
    BY <1>3, RoutesMove
  <2>. QED
    BY <1>1, <2>1 DEF TriedInv
<1>4. ASSUME NEW p \in Clients, NEW m \in Models, ExecuteWithFallback(p, m) PROVE TriedInv'
  <2>1. /\ UNCHANGED tried /\ pc[p] = "idle" /\ pc' = [pc EXCEPT ![p] = "fallback"]
        /\ \E r : r.at = 1 /\ req' = [req EXCEPT ![p] = r]
    BY <1>4 DEF ExecuteWithFallback, Begin
  <2>2. \A S : S \cap (1..1 - 1) = {}
    OBVIOUS
  <2>. QED
    BY <1>1, <2>1, <2>2 DEF TriedInv
<1>. QED
  BY <1>2, <1>3, <1>4, AttemptTries, NextCases

LEMMA TriedInvariant == Spec => []TriedInv
<1>1. Init => TriedInv
  BY DEF Init, TriedInv
<1>. QED
  BY <1>1, TriedStep, TypeInvariant, PTL DEF Spec

LEMMA EndsExhausted ==
  ASSUME TypeInv, TriedInv, [Next]_vars, NEW p \in Clients, pc[p] = "fallback", pc'[p] = "idle"
  PROVE  IF out'[p] = Failed
           THEN tried[p] = Supports[req[p].model] \cap (1..MaxRetries + 1)
           ELSE tried[p] = Supports[req[p].model] \cap (1..out'[p] - 1)
<1>. DEFINE r == req[p]
<1>1. /\ pc \in [Clients -> Labels] /\ out \in [Clients -> DOMAIN Reg \cup {None, Failed}]
      /\ r \in Request /\ r.model \in Models /\ r.at \in 1..Len(Reg) + 1 /\ r.at <= MaxRetries + 2
  BY DEF TypeInv, RequestsOK, OutcomesOK, Request
<1>2. Attempt(p)
  <2>1. \A q \in Clients : Routes(q) => pc'[p] = pc[p] \/ pc[p] # "fallback"
    BY <1>1, RoutesMove
  <2>2. \A q \in Clients : Attempt(q) => q = p \/ pc'[p] = pc[p]
    BY <1>1 DEF Attempt, Finish, Goto
  <2>3. \A q \in Clients, m \in Models : ExecuteWithFallback(q, m) => pc'[p] = pc[p] \/ pc[p] # "fallback"
    BY <1>1 DEF ExecuteWithFallback, Begin
  <2>4. UNCHANGED vars \/ Monitor => pc'[p] = pc[p]
    BY DEF vars, Monitor, StartRound, Check, clients
  <2>. QED
    BY <2>1, <2>2, <2>3, <2>4, NextCases
<1>3. tried[p] = Supports[r.model] \cap (1..r.at - 1) /\ Supports[r.model] \subseteq 1..Len(Reg)
  BY <1>1, SupportsIn, RegistryIs DEF TriedInv
<1>4. Len(Reg) \in Nat /\ DOMAIN Reg = 1..Len(Reg)
  BY RegistryIs
<1>5. CASE (r.at > Len(Reg) \/ OutOfRetries(r.at)) /\ Finish(p, Failed)
  <2>1. out'[p] = Failed
    BY <1>1, <1>5 DEF Finish
  <2>2. r.at = Len(Reg) + 1 \/ r.at = MaxRetries + 2
    BY <1>1, <1>4, <1>5, Limits DEF OutOfRetries
  <2>3. Supports[r.model] \cap (1..r.at - 1) = Supports[r.model] \cap (1..MaxRetries + 1)
    BY <1>1, <1>3, <1>4, <2>2, Limits
  <2>. QED
    BY <1>3, <2>1, <2>3
<1>6. CASE ~(r.at > Len(Reg) \/ OutOfRetries(r.at)) /\ Finish(p, r.at)
  <2>1. out'[p] = r.at
    BY <1>1, <1>6 DEF Finish
  <2>2. r.at \in DOMAIN Reg
    BY <1>1, <1>4, <1>6
  <2>. QED
    BY <1>3, <2>1, <2>2, NamesApart
<1>7. \A s : ~Goto(p, "fallback", s)
  BY <1>1 DEF Goto
<1>. QED
  BY <1>2, <1>5, <1>6, <1>7 DEF Attempt

(* FallbackExecutor::execute_with_fallback fails only when it has called     *)
(* every provider of the model among the first max_retries + 1, and answers *)
(* only when all those before the one that answers have failed.              *)
THEOREM FallbacksExhaust == Spec => FallbackExhausts
<1>1. TypeInv /\ TriedInv /\ [Next]_vars =>
        \A p \in Clients : pc[p] = "fallback" /\ pc'[p] = "idle" =>
          IF out'[p] = Failed
            THEN tried[p] = Supports[req[p].model] \cap (1..MaxRetries + 1)
            ELSE tried[p] = Supports[req[p].model] \cap (1..out'[p] - 1)
  BY EndsExhausted
<1>. QED
  BY <1>1, TypeInvariant, TriedInvariant, PTL DEF Spec, FallbackExhausts

-----------------------------------------------------------------------------
(* The health monitor *)

(* What the round in progress has passed is of this round, and between the   *)
(* rounds everything is.                                                     *)
FreshInv ==
    \A i \in DOMAIN statuses :
        statuses[i] \in 0..1 /\ (next = 0 \/ i < next => statuses[i] = 0)

LEMMA FreshStep == TypeInv /\ FreshInv /\ [Next]_vars => FreshInv'
<1>. SUFFICES ASSUME TypeInv, FreshInv, [Next]_vars PROVE FreshInv'
  OBVIOUS
<1>1. Len(Reg) \in Nat /\ DOMAIN Reg = 1..Len(Reg) /\ DOMAIN statuses \subseteq 1..Len(Reg)
      /\ next \in 0..Len(Reg)
  BY RegistryIs DEF TypeInv, MonitorOK
<1>2. CASE StartRound
  <2>1. \A i \in DOMAIN statuses' : statuses'[i] = 1
    <3>. SUFFICES ASSUME NEW i \in DOMAIN statuses PROVE Min({statuses[i] + 1, 2}) = 1
      BY <1>2 DEF StartRound
    <3>1. statuses[i] = 0
      BY <1>2 DEF StartRound, FreshInv
    <3>. QED
      BY <3>1, MinOfTwo
  <2>2. next' = 1 /\ DOMAIN statuses' = DOMAIN statuses
    BY <1>2 DEF StartRound
  <2>. QED
    BY <1>1, <2>1, <2>2 DEF FreshInv
<1>3. CASE Check
  <2>1. /\ next \in 1..Len(Reg) /\ DOMAIN statuses' = DOMAIN statuses \cup {next}
        /\ statuses'[next] = 0 /\ \A i \in DOMAIN statuses \ {next} : statuses'[i] = statuses[i]
    BY <1>1, <1>3 DEF Check
  <2>2. next' = IF next = Len(Reg) THEN 0 ELSE next + 1
    BY <1>3 DEF Check, After
  <2>3. ASSUME NEW i \in DOMAIN statuses'
        PROVE  statuses'[i] \in 0..1 /\ (next' = 0 \/ i < next' => statuses'[i] = 0)
    <3>1. CASE i = next
      BY <2>1, <3>1
    <3>2. CASE i # next
      <4>1. i \in DOMAIN statuses /\ statuses'[i] = statuses[i] /\ i \in 1..Len(Reg)
        BY <1>1, <2>1, <3>2
      <4>2. statuses[i] \in 0..1 /\ (i < next => statuses[i] = 0)
        BY <4>1 DEF FreshInv
      <4>3. next' = 0 \/ i < next' => i < next
        <5>1. i \in Nat /\ next \in Nat /\ Len(Reg) \in Nat /\ i <= Len(Reg) /\ next <= Len(Reg) /\ i # next
          BY <1>1, <2>1, <3>2, <4>1
        <5>2. next = Len(Reg) => i < next
          BY <5>1
        <5>3. next # Len(Reg) => next' = next + 1
          BY <2>2
        <5>4. next # Len(Reg) => next' # 0 /\ (i < next' => i < next)
          BY <5>1, <5>3
        <5>. QED
          BY <5>2, <5>4
      <4>. QED
        BY <4>1, <4>2, <4>3
    <3>. QED
      BY <3>1, <3>2
  <2>. QED
    BY <2>3 DEF FreshInv
<1>4. UNCHANGED monitor => FreshInv'
  BY DEF monitor, FreshInv
<1>5. \A p \in Clients : Routes(p) \/ Attempt(p) => UNCHANGED monitor
  <2>1. \A p \in Clients : Begins(p) => UNCHANGED monitor
    BY DEF Begins, Execute, Serve, Begin
  <2>2. \A p \in Clients : Balance(p) \/ Auction(p) => UNCHANGED monitor
    BY DEF Balance, Auction, OnRequest
  <2>3. \A p \in Clients : Select(p) \/ CallAnswers(p) \/ CallFails(p) \/ OnResponse(p) \/ Attempt(p)
            => UNCHANGED monitor
    BY DEF Select, CallAnswers, CallFails, OnResponse, Attempt
  <2>. QED
    BY <2>1, <2>2, <2>3 DEF Routes
<1>6. \A p \in Clients, m \in Models : ExecuteWithFallback(p, m) => UNCHANGED monitor
  BY DEF ExecuteWithFallback, Begin
<1>7. UNCHANGED vars => UNCHANGED monitor
  BY DEF vars
<1>. QED
  BY <1>2, <1>3, <1>4, <1>5, <1>6, <1>7, NextCases DEF Monitor

(* A status read from HealthMonitor's map while a round of check_all is      *)
(* under way is of that round or of the one before.                          *)
THEOREM StatusesStayFresh == Spec => []StatusesFresh
<1>1. Init => FreshInv
  BY DEF Init, FreshInv
<1>2. FreshInv => StatusesFresh
  BY DEF FreshInv, StatusesFresh
<1>. QED
  BY <1>1, <1>2, FreshStep, TypeInvariant, PTL DEF Spec

-----------------------------------------------------------------------------
(* Dispatch *)

Asked == [p \in Clients |-> IF pc[p] = "idle" THEN None ELSE req[p].model]

Bound == [p \in Clients |-> IF pc[p] = "idle" \/ req[p].provider_id = None
                              THEN None ELSE Position[req[p].provider_id]]

Moves(p, label, r) == pc' = [pc EXCEPT ![p] = label] /\ req' = [req EXCEPT ![p] = r]

(* What a client's move changes of the model asked for and of its provider. *)
LEMMA MoveMaps ==
  ASSUME RequestsOK, NEW p \in Clients, NEW label, NEW r, Moves(p, label, r)
  PROVE  /\ Asked'[p] = IF label = "idle" THEN None ELSE r.model
         /\ Bound'[p] = IF label = "idle" \/ r.provider_id = None
                          THEN None ELSE Position[r.provider_id]
         /\ \A c \in Clients \ {p} : Asked'[c] = Asked[c] /\ Bound'[c] = Bound[c]
BY DEF RequestsOK, Asked, Bound, Moves

LEMMA FunctionChangesAt ==
  ASSUME NEW D, NEW p \in D, NEW a, NEW f, NEW g,
         f = [c \in D |-> f[c]], g = [c \in D |-> g[c]],
         g[p] = a, \A c \in D \ {p} : g[c] = f[c]
  PROVE  g = [f EXCEPT ![p] = a]
OBVIOUS

(* The two are functions on the clients, so they change at one of them. *)
LEMMA ChangeAt ==
  ASSUME NEW p \in Clients, NEW a, NEW b, Asked'[p] = a, Bound'[p] = b,
         \A c \in Clients \ {p} : Asked'[c] = Asked[c] /\ Bound'[c] = Bound[c]
  PROVE  Asked' = [Asked EXCEPT ![p] = a] /\ Bound' = [Bound EXCEPT ![p] = b]
<1>1. /\ Asked = [c \in Clients |-> Asked[c]] /\ Bound = [c \in Clients |-> Bound[c]]
      /\ Asked' = [c \in Clients |-> Asked'[c]] /\ Bound' = [c \in Clients |-> Bound'[c]]
  BY DEF Asked, Bound
<1>2. Asked' = [Asked EXCEPT ![p] = a]
  BY <1>1, FunctionChangesAt, Zenon
<1>3. Bound' = [Bound EXCEPT ![p] = b]
  BY <1>1, FunctionChangesAt, Zenon
<1>. QED
  BY <1>2, <1>3

(* A move that keeps the model and the provider is none to the contract. *)
LEMMA MoveStutters ==
  ASSUME RequestsOK, NEW p \in Clients, NEW label, NEW r, Goto(p, label, r),
         pc[p] # "idle", label # "idle",
         r.model = req[p].model, r.provider_id = req[p].provider_id
  PROVE  UNCHANGED Contract!vars
<1>1. Moves(p, label, r) /\ out' = out
  BY DEF Goto, Moves
<1>2. \A c \in Clients : Asked'[c] = Asked[c] /\ Bound'[c] = Bound[c]
  <2>1. /\ Asked[p] = IF label = "idle" THEN None ELSE r.model
        /\ Bound[p] = IF label = "idle" \/ r.provider_id = None
                        THEN None ELSE Position[r.provider_id]
    BY DEF Asked, Bound
  <2>. QED
    BY <1>1, <2>1, MoveMaps
<1>3. Asked' = Asked /\ Bound' = Bound
  BY <1>2 DEF Asked, Bound
<1>. QED
  BY <1>1, <1>3 DEF Contract!vars, Asked, Bound

(* The end of a request, at which its client is told o. *)
LEMMA FinishEnds ==
  ASSUME TypeInv, NEW p \in Clients, NEW o, Finish(p, o), pc[p] # "idle"
  PROVE  /\ Contract!End(p, o)
         /\ Asked[p] \in Models /\ Asked[p] = req[p].model /\ Asked[p] # None
<1>1. Asked' = [Asked EXCEPT ![p] = None] /\ Bound' = [Bound EXCEPT ![p] = None]
  <2>1. /\ Asked'[p] = None /\ Bound'[p] = None
        /\ \A c \in Clients \ {p} : Asked'[c] = Asked[c] /\ Bound'[c] = Bound[c]
    <3>1. Moves(p, "idle", NoRequest)
      BY DEF Finish, Moves
    <3>. QED
      BY <3>1, MoveMaps DEF TypeInv
  <2>. QED
    BY <2>1, ChangeAt
<1>2. Asked[p] \in Models /\ Asked[p] = req[p].model
  BY DEF Asked, TypeInv, RequestsOK, Request
<1>3. Asked[p] # None
  BY <1>2, NamesApart
<1>4. Contract!End(p, o)
  BY <1>1, <1>3 DEF Contract!End, Finish, Asked, Bound
<1>. QED
  BY <1>2, <1>3, <1>4

LEMMA FailureAllowed ==
  ASSUME TypeInv, NEW p \in Clients, Finish(p, Failed), pc[p] # "idle"
  PROVE  Contract!Next
BY FinishEnds DEF Contract!Next, Contract!Fail

(* An answer by the provider that is bound. *)
LEMMA AnswerAllowed ==
  ASSUME TypeInv, NEW p \in Clients, pc[p] # "idle", req[p].provider_id \in RegisteredIds,
         NEW i, i = Position[req[p].provider_id], Finish(p, i)
  PROVE  Contract!Next
<1>1. i \in DOMAIN Reg /\ i # 0 /\ req[p].provider_id \in Ids
  BY PositionIn
<1>2. i # None /\ i # 0 /\ Bound[p] = i
  BY <1>1, NamesApart DEF Bound
<1>3. Contract!End(p, i) /\ Asked[p] # None
  BY FinishEnds
<1>4. Contract!Answer(p)
  BY <1>2, <1>3 DEF Contract!Answer, Asked, Bound
<1>. QED
  BY <1>4 DEF Contract!Next

(* An answer by a provider of its model, where none is bound. *)
LEMMA FreeAnswerAllowed ==
  ASSUME TypeInv, NEW p \in Clients, pc[p] # "idle", req[p].provider_id = None,
         NEW i \in Supports[req[p].model], Finish(p, i)
  PROVE  Contract!Next
<1>1. Contract!End(p, i) /\ Asked[p] # None /\ Asked[p] = req[p].model
  BY FinishEnds
<1>2. Bound[p] = None /\ None # 0
  BY NamesApart DEF Bound
<1>3. Contract!Answer(p)
  BY <1>1, <1>2 DEF Contract!Answer, Asked, Bound
<1>. QED
  BY <1>3 DEF Contract!Next

LEMMA BeginAllowed ==
  ASSUME TypeInv, NEW p \in Clients, NEW label \in {"onRequest", "call", "fallback"},
         NEW m \in Models, NEW n \in Ids \cup {None}, NEW s \in BOOLEAN,
         Begin(p, label, m, n, s)
  PROVE  Contract!Next
<1>. PICK r : r = [model |-> m, provider_id |-> n, stream |-> s, at |-> 1]
  OBVIOUS
<1>. PICK b : b = IF n = None THEN None ELSE Position[n]
  OBVIOUS
<1>1. pc[p] = "idle" /\ Moves(p, label, r) /\ out' = [out EXCEPT ![p] = None]
  BY DEF Begin, Moves
<1>2. Asked' = [Asked EXCEPT ![p] = m] /\ Bound' = [Bound EXCEPT ![p] = b]
  <2>1. /\ m = IF label = "idle" THEN None ELSE r.model
        /\ b = IF label = "idle" \/ r.provider_id = None
                 THEN None ELSE Position[r.provider_id]
    OBVIOUS
  <2>2. /\ Asked'[p] = m /\ Bound'[p] = b
        /\ \A c \in Clients \ {p} : Asked'[c] = Asked[c] /\ Bound'[c] = Bound[c]
    BY <1>1, <2>1, MoveMaps DEF TypeInv
  <2>. QED
    BY <2>2, ChangeAt
<1>3. b \in DOMAIN Reg \cup {None, 0}
  BY PositionOr
<1>4. Asked[p] = None
  BY <1>1 DEF Asked
<1>5. Asked'[p] = m /\ Bound'[p] = b
  BY <1>2 DEF Asked, Bound
<1>6. Contract!Accept(p)
  <2>1. Asked' = [Asked EXCEPT ![p] = Asked'[p]] /\ Bound' = [Bound EXCEPT ![p] = Bound'[p]]
    BY <1>2, <1>5
  <2>2. Asked'[p] \in Models /\ Bound'[p] \in DOMAIN Reg \cup {None, 0}
    BY <1>3, <1>5
  <2>. QED
    BY <1>1, <1>4, <2>1, <2>2 DEF Contract!Accept, Asked, Bound
<1>. QED
  BY <1>6 DEF Contract!Next

(* A move that binds the request to a provider of its model. *)
LEMMA BindAllowed ==
  ASSUME TypeInv, NEW p \in Clients, NEW label \in Labels \ {"idle"}, NEW r,
         Goto(p, label, r), pc[p] # "idle", req[p].provider_id = None,
         r.model = req[p].model,
         NEW i \in Supports[req[p].model], r.provider_id = Reg[i].id
  PROVE  Contract!Next
<1>1. i \in DOMAIN Reg /\ req[p].model \in Models
  BY SupportsIn DEF TypeInv, RequestsOK, Request
<1>2. Reg[i].id \in Ids /\ Position[Reg[i].id] = i /\ Reg[i].id # None
  BY <1>1, PositionIs, RegisteredAre
<1>3. Asked' = [Asked EXCEPT ![p] = req[p].model] /\ Bound' = [Bound EXCEPT ![p] = i]
  <2>1. /\ req[p].model = IF label = "idle" THEN None ELSE r.model
        /\ i = IF label = "idle" \/ r.provider_id = None
                 THEN None ELSE Position[r.provider_id]
    BY <1>2
  <2>2. Moves(p, label, r)
    BY DEF Goto, Moves
  <2>3. /\ Asked'[p] = req[p].model /\ Bound'[p] = i
        /\ \A c \in Clients \ {p} : Asked'[c] = Asked[c] /\ Bound'[c] = Bound[c]
    BY <2>1, <2>2, MoveMaps DEF TypeInv
  <2>. QED
    BY <2>3, ChangeAt
<1>4. Asked[p] = req[p].model /\ Bound[p] = None /\ Asked[p] # None
  BY <1>1, NamesApart DEF Asked, Bound
<1>5. Asked' = Asked
  BY <1>3, <1>4 DEF Asked
<1>6. out' = out
  BY DEF Goto
<1>7. Contract!Bind(p)
  BY <1>3, <1>4, <1>5, <1>6 DEF Contract!Bind, Asked, Bound
<1>. QED
  BY <1>7 DEF Contract!Next

(* A move that gives the request another model, and takes its provider. *)
LEMMA ReassignAllowed ==
  ASSUME TypeInv, NEW p \in Clients, NEW label \in Labels \ {"idle"}, NEW r,
         Goto(p, label, r), pc[p] # "idle",
         r.model \in Range(Candidates), r.provider_id = None
  PROVE  Contract!Next
<1>1. Asked' = [Asked EXCEPT ![p] = r.model] /\ Bound' = [Bound EXCEPT ![p] = None]
  <2>1. /\ r.model = IF label = "idle" THEN None ELSE r.model
        /\ None = IF label = "idle" \/ r.provider_id = None
                    THEN None ELSE Position[r.provider_id]
    OBVIOUS
  <2>2. Moves(p, label, r)
    BY DEF Goto, Moves
  <2>3. /\ Asked'[p] = r.model /\ Bound'[p] = None
        /\ \A c \in Clients \ {p} : Asked'[c] = Asked[c] /\ Bound'[c] = Bound[c]
    BY <2>1, <2>2, MoveMaps DEF TypeInv
  <2>. QED
    BY <2>3, ChangeAt
<1>2. Asked[p] # None
  BY NamesApart DEF Asked, TypeInv, RequestsOK, Request
<1>3. Asked'[p] = r.model
  BY <1>1 DEF Asked
<1>4. Contract!Reassign(p)
  <2>1. out' = out /\ Asked' = [Asked EXCEPT ![p] = Asked'[p]] /\ Asked'[p] \in Range(Candidates)
    BY <1>1, <1>3 DEF Goto
  <2>. QED
    BY <1>1, <1>2, <2>1 DEF Contract!Reassign, Asked, Bound
<1>. QED
  BY <1>4 DEF Contract!Next

Maps == Contract!Next \/ UNCHANGED Contract!vars

LEMMA BalanceMaps == ASSUME TypeInv, NEW p \in Clients, Balance(p) PROVE Maps
<1>. DEFINE r == req[p]
            matching == Matching[r.model]
            selected == matching[Index(counter, Len(matching))]
<1>1. /\ r \in Request /\ r.model \in Models /\ OnRequest(p, "balancer") /\ pc[p] # "idle"
      /\ counter \in Nat
  BY DEF Balance, OnRequest, TypeInv, RequestsOK, Request, BalancerOK
<1>2. CASE r.provider_id # None \/ matching = <<>>
  <2>. DEFINE s == [r EXCEPT !.at = @ + 1]
  <2>1. Goto(p, "onRequest", s)
    BY <1>2 DEF Balance, Onward
  <2>2. s.model = r.model /\ s.provider_id = r.provider_id
    BY <1>1 DEF Request
  <2>. HIDE DEF s
  <2>. QED
    BY <1>1, <2>1, <2>2, MoveStutters DEF TypeInv, Maps
<1>3. CASE ~(r.provider_id # None \/ matching = <<>>)
  <2>1. selected \in Supports[r.model]
    BY <1>1, <1>3, PickIs
  <2>2. Onward(p, [r EXCEPT !.provider_id = Reg[selected].id])
    BY <1>3 DEF Balance
  <2>. HIDE DEF selected
  <2>. DEFINE a == [r EXCEPT !.provider_id = Reg[selected].id]
              s == [a EXCEPT !.at = @ + 1]
  <2>3. Goto(p, "onRequest", s)
    BY <2>2 DEF Onward
  <2>4. s.model = r.model /\ s.provider_id = Reg[selected].id
    BY <1>1 DEF Request
  <2>. HIDE DEF s
  <2>. QED
    BY <1>1, <1>3, <2>1, <2>3, <2>4, BindAllowed DEF Labels, Maps
<1>. QED
  BY <1>2, <1>3

LEMMA AuctionMaps == ASSUME TypeInv, NEW p \in Clients, Auction(p) PROVE Maps
<1>1. req[p] \in Request /\ pc[p] # "idle"
  BY DEF Auction, OnRequest, TypeInv, RequestsOK
<1>2. CASE Candidates = <<>>
  BY <1>1, <1>2, FailureAllowed DEF Auction, Maps
<1>3. CASE Candidates # <<>>
  <2>1. PICK m \in Range(Candidates) : Onward(p, Reassigned(req[p], m))
    <3>1. Head(Candidates) \in Range(Candidates)
      BY <1>3, CandidatesAreModels DEF Range
    <3>. QED
      BY <1>3, <3>1 DEF Auction
  <2>. DEFINE a == Reassigned(req[p], m)
              s == [a EXCEPT !.at = @ + 1]
  <2>2. a.model = m /\ a.provider_id = None
    BY <1>1 DEF Reassigned, Request
  <2>3. s.model = m /\ s.provider_id = None
    BY <1>1 DEF Reassigned, Request
  <2>4. Goto(p, "onRequest", s)
    BY <2>1 DEF Onward
  <2>. HIDE DEF s
  <2>. QED
    BY <1>1, <2>1, <2>3, <2>4, ReassignAllowed DEF Labels, Maps
<1>. QED
  BY <1>2, <1>3

LEMMA SelectMaps == ASSUME TypeInv, NEW p \in Clients, Select(p) PROVE Maps
<1>. DEFINE r == req[p]
            i == IF r.provider_id # None THEN Position[r.provider_id] ELSE GetProvider(Reg, r.model)
            s == [r EXCEPT !.provider_id = Reg[i].id]
<1>1. r \in Request /\ r.model \in Models /\ pc[p] # "idle"
  BY DEF Select, TypeInv, RequestsOK, Request
<1>2. CASE i = 0
  BY <1>1, <1>2, FailureAllowed DEF Select, Maps
<1>3. CASE i # 0
  <2>1. Goto(p, "call", s)
    BY <1>3 DEF Select
  <2>2. s.model = r.model /\ s.provider_id = Reg[i].id
    BY <1>1 DEF Request
  <2>. HIDE DEF s
  <2>3. CASE r.provider_id # None
    <3>1. Reg[i].id = r.provider_id
      BY <1>1, <1>3, <2>3, PositionOr, PositionIn DEF Request
    <3>. HIDE DEF i
    <3>. QED
      BY <1>1, <2>1, <2>2, <3>1, MoveStutters DEF TypeInv, Maps
  <2>4. CASE r.provider_id = None
    <3>1. i \in Supports[r.model]
      BY <1>1, <1>3, <2>4, FoundSupports
    <3>. HIDE DEF i
    <3>. QED
      BY <1>1, <2>1, <2>2, <2>4, <3>1, BindAllowed DEF Labels, Maps
  <2>. QED
    BY <2>3, <2>4
<1>. QED
  BY <1>2, <1>3

LEMMA CallMaps == ASSUME TypeInv, NEW p \in Clients, CallAnswers(p) \/ CallFails(p) PROVE Maps
<1>1. req[p] \in Request /\ pc[p] # "idle" /\ req[p].provider_id \in RegisteredIds
  BY DEF CallAnswers, CallFails, TypeInv, RequestsOK
<1>2. CASE CallFails(p)
  BY <1>1, <1>2, FailureAllowed DEF CallFails, Maps
<1>3. CASE Finish(p, Position[req[p].provider_id])
  BY <1>1, <1>3, AnswerAllowed DEF Maps
<1>4. CASE Goto(p, "onResponse", [req[p] EXCEPT !.at = @ - 1])
  <2>. DEFINE s == [req[p] EXCEPT !.at = @ - 1]
  <2>1. Goto(p, "onResponse", s) /\ s.model = req[p].model /\ s.provider_id = req[p].provider_id
    BY <1>1, <1>4 DEF Request
  <2>. HIDE DEF s
  <2>. QED
    BY <1>1, <2>1, MoveStutters DEF TypeInv, Maps
<1>. QED
  BY <1>2, <1>3, <1>4 DEF CallAnswers

LEMMA OnResponseMaps == ASSUME TypeInv, NEW p \in Clients, OnResponse(p) PROVE Maps
<1>1. req[p] \in Request /\ pc[p] # "idle" /\ req[p].provider_id \in RegisteredIds
  BY DEF OnResponse, TypeInv, RequestsOK
<1>2. CASE Finish(p, Position[req[p].provider_id])
  BY <1>1, <1>2, AnswerAllowed DEF Maps
<1>3. CASE Goto(p, "onResponse", [req[p] EXCEPT !.at = @ - 1])
  <2>. DEFINE s == [req[p] EXCEPT !.at = @ - 1]
  <2>1. Goto(p, "onResponse", s) /\ s.model = req[p].model /\ s.provider_id = req[p].provider_id
    BY <1>1, <1>3 DEF Request
  <2>. HIDE DEF s
  <2>. QED
    BY <1>1, <2>1, MoveStutters DEF TypeInv, Maps
<1>. QED
  BY <1>2, <1>3 DEF OnResponse

LEMMA AttemptMaps == ASSUME TypeInv, NEW p \in Clients, Attempt(p) PROVE Maps
<1>. DEFINE s == [req[p] EXCEPT !.at = @ + 1]
<1>1. req[p] \in Request /\ pc[p] # "idle" /\ req[p].provider_id = None
  BY DEF Attempt, TypeInv, RequestsOK
<1>2. CASE Finish(p, Failed)
  BY <1>1, <1>2, FailureAllowed DEF Maps
<1>3. CASE Goto(p, "fallback", s)
  <2>1. s.model = req[p].model /\ s.provider_id = req[p].provider_id
    BY <1>1 DEF Request
  <2>. HIDE DEF s
  <2>. QED
    BY <1>1, <1>3, <2>1, MoveStutters DEF TypeInv, Maps
<1>4. CASE req[p].at \in Supports[req[p].model] /\ Finish(p, req[p].at)
  BY <1>1, <1>4, FreeAnswerAllowed DEF Maps
<1>. QED
  BY <1>2, <1>3, <1>4 DEF Attempt

(* Every step is one of the contract's, or none to it. *)
LEMMA StepMaps == TypeInv /\ [Next]_vars => [Contract!Next]_(Contract!vars)
<1>. SUFFICES ASSUME TypeInv, [Next]_vars PROVE Maps
  BY DEF Maps
<1>1. ASSUME UNCHANGED clients PROVE Maps
  BY <1>1 DEF clients, Contract!vars, Maps
<1>2. ASSUME NEW p \in Clients, NEW m \in Models
      PROVE  /\ \A n \in Ids \cup {None}, s \in BOOLEAN : Execute(p, m, n, s) => Maps
             /\ \A s \in BOOLEAN : Serve(p, m, s) => Maps
             /\ ExecuteWithFallback(p, m) => Maps
  <2>1. ASSUME NEW n \in Ids \cup {None}, NEW s \in BOOLEAN, Execute(p, m, n, s) PROVE Maps
    BY <2>1, BeginAllowed DEF Execute, Maps
  <2>2. ASSUME NEW s \in BOOLEAN, Serve(p, m, s) PROVE Maps
    <3>1. Preferred[m] \in DOMAIN Reg /\ Begin(p, "call", m, Reg[Preferred[m]].id, s)
      BY <2>2, FoundSupports, SupportsIn DEF Serve
    <3>2. Reg[Preferred[m]].id \in Ids
      BY <3>1, RegisteredAre
    <3>. QED
      BY <3>1, <3>2, BeginAllowed DEF Maps
  <2>3. ExecuteWithFallback(p, m) => Maps
    BY BeginAllowed DEF ExecuteWithFallback, Maps
  <2>. QED
    BY <2>1, <2>2, <2>3
<1>3. Monitor => UNCHANGED clients
  BY DEF Monitor, StartRound, Check
<1>4. CASE UNCHANGED vars
  BY <1>1, <1>4 DEF vars
<1>5. CASE Next
  BY <1>1, <1>2, <1>3, <1>5, BalanceMaps, AuctionMaps, SelectMaps, CallMaps, OnResponseMaps,
     AttemptMaps DEF Next
<1>. QED
  BY <1>4, <1>5

(* Routing implements Dispatch: whatever layers and fallbacks a request      *)
(* passes, it is answered by the provider its sender named, as long as its   *)
(* model is the one it was sent with, and by one with its model otherwise.   *)
THEOREM RoutingImplementsDispatch == Spec => ImplementsDispatch
<1>1. Init => Contract!Init
  BY DEF Init, Contract!Init
<1>. QED
  BY <1>1, TypeInvariant, StepMaps, PTL DEF Spec, ImplementsDispatch, Contract!Spec
-----------------------------------------------------------------------------
(* Sums *)

Pick(S) == CHOOSE x \in S : TRUE

Iterates(g, f, S) ==
    g = [s \in SUBSET S |-> IF s = {} THEN 0 ELSE f[Pick(s)] + g[s \ {Pick(s)}]]

LEMMA SumIs ==
  ASSUME NEW f, NEW S
  PROVE  SumFunctionOnSet(f, S) = (CHOOSE g : Iterates(g, f, S))[S]
BY DEF SumFunctionOnSet, FoldFunctionOnSet, MapThenFoldSet, Iterates, Pick

LEMMA PickIn == \A S : S # {} => Pick(S) \in S
BY DEF Pick

LEMMA LessOne ==
  ASSUME NEW S, NEW x \in S, IsFiniteSet(S)
  PROVE  /\ IsFiniteSet(S \ {x}) /\ Cardinality(S \ {x}) \in Nat
         /\ \A n \in Nat : Cardinality(S) = n + 1 => Cardinality(S \ {x}) = n
<1>1. IsFiniteSet(S \ {x}) /\ Cardinality(S \ {x}) = Cardinality(S) - 1
  BY FS_RemoveElement
<1>2. Cardinality(S) \in Nat /\ Cardinality(S \ {x}) \in Nat
  BY <1>1, FS_CardinalityType
<1>. QED
  BY <1>1, <1>2

LEMMA IteratesExists ==
  ASSUME NEW f, NEW S, IsFiniteSet(S)
  PROVE  \E g : Iterates(g, f, S)
<1>. DEFINE Small(n) == {s \in SUBSET S : Cardinality(s) <= n}
            Body(g, s) == IF s = {} THEN 0 ELSE f[Pick(s)] + g[s \ {Pick(s)}]
            N == {n \in Nat : \E g : g = [s \in Small(n) |-> Body(g, s)]}
<1>1. \A s \in SUBSET S : IsFiniteSet(s) /\ Cardinality(s) \in Nat /\ Cardinality(s) <= Cardinality(S)
  BY FS_Subset, FS_CardinalityType
<1>2. ASSUME NEW s \in SUBSET S, s # {}
      PROVE  /\ Pick(s) \in s /\ s \ {Pick(s)} \in SUBSET S
             /\ Cardinality(s \ {Pick(s)}) = Cardinality(s) - 1
  BY <1>1, <1>2, PickIn, FS_RemoveElement
<1>3. 0 \in N
  <2>. DEFINE g == [s \in Small(0) |-> 0]
  <2>1. \A s \in Small(0) : s = {}
    BY <1>1, FS_EmptySet
  <2>2. g = [s \in Small(0) |-> Body(g, s)]
    BY <2>1
  <2>. QED
    BY <2>2
<1>4. ASSUME NEW n \in Nat, n \in N PROVE n + 1 \in N
  <2>1. PICK h : h = [s \in Small(n) |-> Body(h, s)]
    BY <1>4
  <2>. DEFINE g == [s \in Small(n + 1) |-> Body(h, s)]
  <2>2. \A s \in Small(n + 1) : s # {} => s \ {Pick(s)} \in Small(n)
    BY <1>1, <1>2
  <2>3. Small(n) \subseteq Small(n + 1)
    BY <1>1
  <2>4. \A s \in Small(n) : g[s] = h[s]
    <3>. SUFFICES ASSUME NEW s \in Small(n) PROVE g[s] = h[s]
      OBVIOUS
    <3>1. g[s] = Body(h, s)
      BY <2>3
    <3>2. h[s] = Body(h, s)
      BY <2>1, Zenon
    <3>. QED
      BY <3>1, <3>2
  <2>5. \A s \in Small(n + 1) : g[s] = Body(g, s)
    <3>. SUFFICES ASSUME NEW s \in Small(n + 1) PROVE g[s] = Body(g, s)
      OBVIOUS
    <3>1. g[s] = Body(h, s)
      OBVIOUS
    <3>. HIDE DEF g
    <3>2. s # {} => g[s \ {Pick(s)}] = h[s \ {Pick(s)}]
      BY <2>2, <2>4
    <3>. QED
      BY <3>1, <3>2
  <2>6. g = [s \in Small(n + 1) |-> Body(g, s)]
    <3>1. g = [s \in Small(n + 1) |-> g[s]]
      OBVIOUS
    <3>. HIDE DEF g
    <3>. QED
      BY <2>5, <3>1
  <2>. HIDE DEF g
  <2>7. \E k : k = [s \in Small(n + 1) |-> Body(k, s)]
    BY <2>6
  <2>. HIDE DEF Small, Body
  <2>. QED
    BY <2>7
<1>. HIDE DEF N
<1>5. Cardinality(S) \in N
  BY <1>1, <1>3, <1>4, Induction
<1>6. Small(Cardinality(S)) = SUBSET S
  BY <1>1
<1>. QED
  BY <1>5, <1>6 DEF N, Iterates

LEMMA IteratesAgree ==
  ASSUME NEW f, NEW e, NEW S, NEW T, NEW g, NEW h, Iterates(g, f, S), Iterates(h, e, T),
         NEW U, U \subseteq S, U \subseteq T, IsFiniteSet(U), \A x \in U : f[x] = e[x]
  PROVE  g[U] = h[U]
<1>. DEFINE N == {n \in Nat : \A s \in SUBSET U : Cardinality(s) = n => g[s] = h[s]}
<1>1. \A s \in SUBSET U :
         /\ g[s] = IF s = {} THEN 0 ELSE f[Pick(s)] + g[s \ {Pick(s)}]
         /\ h[s] = IF s = {} THEN 0 ELSE e[Pick(s)] + h[s \ {Pick(s)}]
  <2>1. SUBSET U \subseteq SUBSET S /\ SUBSET U \subseteq SUBSET T
    OBVIOUS
  <2>. QED
    BY <2>1 DEF Iterates
<1>2. \A s \in SUBSET U : IsFiniteSet(s) /\ Cardinality(s) \in Nat
  BY FS_Subset, FS_CardinalityType
<1>3. 0 \in N
  <2>1. \A s \in SUBSET U : Cardinality(s) = 0 => s = {}
    BY <1>2, FS_EmptySet
  <2>. QED
    BY <1>1, <2>1
<1>4. ASSUME NEW n \in Nat, n \in N PROVE n + 1 \in N
  <2>. SUFFICES ASSUME NEW s \in SUBSET U, Cardinality(s) = n + 1 PROVE g[s] = h[s]
    OBVIOUS
  <2>1. s # {}
    BY FS_EmptySet
  <2>2. Pick(s) \in s /\ s \ {Pick(s)} \in SUBSET U /\ Cardinality(s \ {Pick(s)}) = n
    BY <1>2, <2>1, PickIn, FS_RemoveElement
  <2>3. g[s \ {Pick(s)}] = h[s \ {Pick(s)}]
    BY <1>4, <2>2
  <2>4. f[Pick(s)] = e[Pick(s)]
    BY <2>2
  <2>. QED
    BY <1>1, <2>1, <2>3, <2>4
<1>. HIDE DEF N
<1>5. Cardinality(U) \in N
  BY <1>2, <1>3, <1>4, Induction
<1>. QED
  BY <1>5 DEF N

(* A sum, as the two facts that define it. *)
LEMMA SumEmpty == \A f : SumFunctionOnSet(f, {}) = 0
<1>. SUFFICES ASSUME NEW f PROVE SumFunctionOnSet(f, {}) = 0
  OBVIOUS
<1>. DEFINE g == CHOOSE h : Iterates(h, f, {})
<1>1. Iterates(g, f, {})
  BY IteratesExists, FS_EmptySet
<1>2. SumFunctionOnSet(f, {}) = g[{}]
  BY SumIs
<1>. HIDE DEF g
<1>. QED
  BY <1>1, <1>2 DEF Iterates

LEMMA SumSame ==
  ASSUME NEW f, NEW e, NEW S, IsFiniteSet(S), \A x \in S : f[x] = e[x]
  PROVE  SumFunctionOnSet(f, S) = SumFunctionOnSet(e, S)
<1>. DEFINE g == CHOOSE k : Iterates(k, f, S)
            h == CHOOSE k : Iterates(k, e, S)
<1>1. Iterates(g, f, S) /\ Iterates(h, e, S)
  BY IteratesExists
<1>2. SumFunctionOnSet(f, S) = g[S] /\ SumFunctionOnSet(e, S) = h[S]
  BY SumIs
<1>. HIDE DEF g, h
<1>3. g[S] = h[S]
  BY <1>1, IteratesAgree
<1>. QED
  BY <1>2, <1>3

LEMMA SumPicked ==
  ASSUME NEW f, NEW S, IsFiniteSet(S), S # {}
  PROVE  SumFunctionOnSet(f, S) = f[Pick(S)] + SumFunctionOnSet(f, S \ {Pick(S)})
<1>. DEFINE T == S \ {Pick(S)}
            g == CHOOSE k : Iterates(k, f, S)
            h == CHOOSE k : Iterates(k, f, T)
<1>0. IsFiniteSet(T)
  BY FS_Subset
<1>1. Iterates(g, f, S) /\ Iterates(h, f, T)
  BY <1>0, IteratesExists
<1>2. SumFunctionOnSet(f, S) = g[S] /\ SumFunctionOnSet(f, T) = h[T]
  BY SumIs
<1>. HIDE DEF g, h
<1>3. g[S] = f[Pick(S)] + g[T]
  BY <1>1 DEF Iterates
<1>. HIDE DEF T
<1>4. g[T] = h[T]
  <2>1. T \subseteq S
    BY DEF T
  <2>. QED
    BY <1>0, <1>1, <2>1, IteratesAgree
<1>. QED
  BY <1>2, <1>3, <1>4 DEF T

LEMMA SumNat ==
  ASSUME NEW f
  PROVE  \A S : IsFiniteSet(S) /\ (\A x \in S : f[x] \in Nat) => SumFunctionOnSet(f, S) \in Nat
<1>. DEFINE N == {n \in Nat : \A S : IsFiniteSet(S) /\ Cardinality(S) = n /\ (\A x \in S : f[x] \in Nat)
                                  => SumFunctionOnSet(f, S) \in Nat}
<1>1. 0 \in N
  BY SumEmpty, FS_EmptySet
<1>2. ASSUME NEW n \in Nat, n \in N PROVE n + 1 \in N
  <2>. SUFFICES ASSUME NEW S, IsFiniteSet(S), Cardinality(S) = n + 1, \A x \in S : f[x] \in Nat
                PROVE  SumFunctionOnSet(f, S) \in Nat
    OBVIOUS
  <2>1. S # {} /\ Pick(S) \in S
    BY FS_EmptySet, PickIn
  <2>2. IsFiniteSet(S \ {Pick(S)}) /\ Cardinality(S \ {Pick(S)}) = n
    BY <2>1, LessOne
  <2>3. SumFunctionOnSet(f, S \ {Pick(S)}) \in Nat
    BY <1>2, <2>2
  <2>4. f[Pick(S)] \in Nat
    BY <2>1
  <2>. QED
    BY <2>1, <2>3, <2>4, SumPicked
<1>. HIDE DEF N
<1>3. Nat \subseteq N
  BY <1>1, <1>2, Induction
<1>. QED
  BY <1>3, FS_CardinalityType DEF N

(* Any element may be taken first. *)
LEMMA SumSplit ==
  ASSUME NEW f
  PROVE  \A S : IsFiniteSet(S) /\ (\A x \in S : f[x] \in Nat) =>
             \A x \in S : SumFunctionOnSet(f, S) = f[x] + SumFunctionOnSet(f, S \ {x})
<1>. DEFINE Splits(S) == \A x \in S : SumFunctionOnSet(f, S) = f[x] + SumFunctionOnSet(f, S \ {x})
            N == {n \in Nat : \A S : IsFiniteSet(S) /\ Cardinality(S) = n /\ (\A x \in S : f[x] \in Nat)
                                  => Splits(S)}
<1>1. 0 \in N
  BY FS_EmptySet
<1>2. ASSUME NEW n \in Nat, n \in N PROVE n + 1 \in N
  <2>. SUFFICES ASSUME NEW S, IsFiniteSet(S), Cardinality(S) = n + 1, \A x \in S : f[x] \in Nat,
                       NEW x \in S
                PROVE  SumFunctionOnSet(f, S) = f[x] + SumFunctionOnSet(f, S \ {x})
    OBVIOUS
  <2>. DEFINE y == Pick(S)
              A == S \ {y}
              B == S \ {x}
              C == A \ {x}
  <2>1. y \in S
    BY PickIn
  <2>2. SumFunctionOnSet(f, S) = f[y] + SumFunctionOnSet(f, A)
    BY SumPicked
  <2>. HIDE DEF y
  <2>3. CASE x = y
    BY <2>2, <2>3
  <2>4. CASE x # y
    <3>1. IsFiniteSet(A) /\ Cardinality(A) = n /\ IsFiniteSet(B) /\ Cardinality(B) = n
      BY <2>1, LessOne
    <3>2. x \in A /\ y \in B /\ C = B \ {y} /\ IsFiniteSet(C)
      BY <2>1, <2>4, <3>1, LessOne
    <3>. HIDE DEF A, B, C
    <3>3. Splits(A) /\ Splits(B)
      BY <1>2, <3>1 DEF A, B
    <3>4. SumFunctionOnSet(f, A) = f[x] + SumFunctionOnSet(f, C)
      BY <3>2, <3>3 DEF C
    <3>5. SumFunctionOnSet(f, B) = f[y] + SumFunctionOnSet(f, C)
      BY <3>2, <3>3
    <3>6. f[x] \in Nat /\ f[y] \in Nat /\ SumFunctionOnSet(f, C) \in Nat
      BY <2>1, <3>2, SumNat DEF A, C
    <3>. QED
      BY <2>2, <3>4, <3>5, <3>6 DEF B
  <2>. QED
    BY <2>3, <2>4
<1>. HIDE DEF N
<1>3. Nat \subseteq N
  BY <1>1, <1>2, Induction
<1>. QED
  BY <1>3, FS_CardinalityType DEF N
-----------------------------------------------------------------------------
(* The bandit *)

(* A request that has passed an auctioneer, but for those whose on_response  *)
(* has run, is for a candidate.                                              *)
Auctioned(ls, label, r) ==
    label \in {"onRequest", "call", "onResponse"} =>
        \A j \in DOMAIN ls :
            ls[j] = "auctioneer" /\ (j < r.at \/ (label = "onResponse" /\ j = r.at))
                => r.model \in Range(Candidates)

AuctionedInv == \A p \in Clients : Auctioned(layers, pc[p], req[p])

ArmsInv ==
    /\ Cardinality(DOMAIN arms) <= MaxArms
    /\ DOMAIN arms \subseteq Range(Candidates)
    /\ SumFunction(arms) <= total

LEMMA AuctionedMove ==
  ASSUME TypeInv, AuctionedInv, NEW p \in Clients, NEW label, NEW r,
         Auctioned(layers, label, r), Moves(p, label, r), UNCHANGED layers
  PROVE  AuctionedInv'
BY DEF AuctionedInv, Moves, TypeInv, RequestsOK

LEMMA AuctionedGoto ==
  ASSUME TypeInv, AuctionedInv, NEW p \in Clients, NEW label, NEW r,
         Auctioned(layers, label, r), Goto(p, label, r)
  PROVE  AuctionedInv'
<1>1. Moves(p, label, r) /\ UNCHANGED layers
  BY DEF Goto, Moves
<1>. QED
  BY <1>1, AuctionedMove

LEMMA AuctionedFinish ==
  ASSUME TypeInv, AuctionedInv, NEW p \in Clients, NEW o, Finish(p, o)
  PROVE  AuctionedInv'
<1>1. Moves(p, "idle", NoRequest) /\ UNCHANGED layers
  BY DEF Finish, Moves
<1>2. Auctioned(layers, "idle", NoRequest)
  BY DEF Auctioned
<1>. QED
  BY <1>1, <1>2, AuctionedMove

LEMMA AuctionedBegin ==
  ASSUME TypeInv, AuctionedInv, NEW p \in Clients, NEW label \in {"onRequest", "call", "fallback"},
         NEW m, NEW n, NEW s, Begin(p, label, m, n, s)
  PROVE  AuctionedInv'
<1>. DEFINE r == [model |-> m, provider_id |-> n, stream |-> s, at |-> 1]
<1>1. Moves(p, label, r) /\ UNCHANGED layers
  BY DEF Begin, Moves
<1>2. DOMAIN layers = 1..Len(layers) /\ Len(layers) \in Nat
  BY LayersAre DEF TypeInv
<1>3. Auctioned(layers, label, r)
  BY <1>2 DEF Auctioned
<1>. HIDE DEF r
<1>. QED
  BY <1>1, <1>3, AuctionedMove

LEMMA AuctionedOnward ==
  ASSUME TypeInv, AuctionedInv, NEW p \in Clients, NEW layer, OnRequest(p, layer),
         NEW r \in Request, r.at = req[p].at, Onward(p, r),
         r.model \in Range(Candidates) \/ (layer # "auctioneer" /\ r.model = req[p].model)
  PROVE  AuctionedInv'
<1>. DEFINE s == [r EXCEPT !.at = r.at + 1]
<1>1. Len(layers) \in Nat /\ DOMAIN layers = 1..Len(layers)
  BY LayersAre DEF TypeInv
<1>2. s.model = r.model /\ s.at = req[p].at + 1 /\ req[p].at \in 1..Len(layers)
      /\ layers[req[p].at] = layer /\ pc[p] = "onRequest"
  BY <1>1 DEF Request, OnRequest
<1>3. Goto(p, "onRequest", s)
  BY DEF Onward
<1>. HIDE DEF s
<1>4. Auctioned(layers, "onRequest", s)
  <2>1. CASE r.model \in Range(Candidates)
    BY <1>2, <2>1 DEF Auctioned
  <2>2. CASE layer # "auctioneer" /\ r.model = req[p].model
    <3>1. Auctioned(layers, "onRequest", req[p])
      BY <1>2 DEF AuctionedInv
    <3>2. \A j \in DOMAIN layers : layers[j] = "auctioneer" /\ j < s.at => j < req[p].at
      BY <1>1, <1>2, <2>2
    <3>. QED
      BY <1>2, <2>2, <3>1, <3>2 DEF Auctioned
  <2>. QED
    BY <2>1, <2>2
<1>. QED
  BY <1>3, <1>4, AuctionedGoto

LEMMA AuctionedBalance ==
  ASSUME TypeInv, AuctionedInv, NEW p \in Clients, Balance(p)
  PROVE  AuctionedInv'
<1>. DEFINE r == req[p]
            matching == Matching[r.model]
            selected == matching[Index(counter, Len(matching))]
<1>1. r \in Request /\ r.model \in Models /\ OnRequest(p, "balancer") /\ counter \in Nat
  BY DEF Balance, TypeInv, RequestsOK, Request, BalancerOK
<1>2. PICK s \in Request : s.at = r.at /\ s.model = r.model /\ Onward(p, s)
  <2>1. CASE r.provider_id # None \/ matching = <<>>
    BY <1>1, <2>1 DEF Balance
  <2>2. CASE ~(r.provider_id # None \/ matching = <<>>)
    <3>1. selected \in DOMAIN Reg
      BY <1>1, <2>2, PickIs, SupportsIn
    <3>2. Reg[selected].id \in Ids
      BY <3>1, RegisteredAre
    <3>3. Onward(p, [r EXCEPT !.provider_id = Reg[selected].id])
      BY <2>2 DEF Balance
    <3>. HIDE DEF selected
    <3>. DEFINE s == [r EXCEPT !.provider_id = Reg[selected].id]
    <3>4. s \in Request /\ s.at = r.at /\ s.model = r.model
      BY <1>1, <3>2 DEF Request
    <3>. QED
      BY <3>3, <3>4
  <2>. QED
    BY <2>1, <2>2
<1>. QED
  BY <1>1, <1>2, AuctionedOnward

LEMMA AuctionedAuction ==
  ASSUME TypeInv, AuctionedInv, NEW p \in Clients, Auction(p)
  PROVE  AuctionedInv'
<1>1. req[p] \in Request /\ OnRequest(p, "auctioneer")
  BY DEF Auction, TypeInv, RequestsOK
<1>2. CASE Candidates = <<>>
  BY <1>2, AuctionedFinish DEF Auction
<1>3. CASE Candidates # <<>>
  <2>1. Head(Candidates) \in Range(Candidates) /\ Range(Candidates) \subseteq Models
    BY <1>3, CandidatesAreModels DEF Range
  <2>2. PICK m \in Range(Candidates) : Onward(p, Reassigned(req[p], m))
    BY <1>3, <2>1 DEF Auction
  <2>3. /\ Reassigned(req[p], m) \in Request /\ Reassigned(req[p], m).at = req[p].at
        /\ Reassigned(req[p], m).model = m
    BY <1>1, <2>1 DEF Reassigned, Request
  <2>. QED
    BY <1>1, <2>2, <2>3, AuctionedOnward
<1>. QED
  BY <1>2, <1>3

LEMMA AuctionedRest ==
  ASSUME TypeInv, AuctionedInv, NEW p \in Clients,
         Select(p) \/ CallAnswers(p) \/ CallFails(p) \/ OnResponse(p) \/ Attempt(p)
  PROVE  AuctionedInv'
<1>. DEFINE r == req[p]
<1>1. r \in Request /\ Auctioned(layers, pc[p], r) /\ r.at \in Nat
  BY DEF TypeInv, RequestsOK, AuctionedInv, Request
<1>2. ASSUME NEW o, Finish(p, o) PROVE AuctionedInv'
  BY <1>2, AuctionedFinish
<1>3. ASSUME pc[p] = "onRequest", NEW n, Goto(p, "call", [r EXCEPT !.provider_id = n])
      PROVE  AuctionedInv'
  <2>1. Auctioned(layers, "call", [r EXCEPT !.provider_id = n])
    BY <1>1, <1>3 DEF Auctioned, Request
  <2>. QED
    BY <1>3, <2>1, AuctionedGoto
<1>4. ASSUME pc[p] \in {"call", "onResponse"}, Goto(p, "onResponse", [r EXCEPT !.at = @ - 1])
      PROVE  AuctionedInv'
  <2>. DEFINE s == [r EXCEPT !.at = @ - 1]
  <2>1. s.model = r.model /\ s.at = r.at - 1
    BY <1>1 DEF Request
  <2>2. DOMAIN layers \subseteq Nat
    BY LayersAre DEF TypeInv
  <2>. HIDE DEF s
  <2>3. Auctioned(layers, "onResponse", s)
    BY <1>1, <1>4, <2>1, <2>2 DEF Auctioned
  <2>. QED
    BY <1>4, <2>3, AuctionedGoto DEF s
<1>5. ASSUME NEW s, Goto(p, "fallback", s) PROVE AuctionedInv'
  <2>1. Auctioned(layers, "fallback", s)
    BY DEF Auctioned
  <2>. QED
    BY <1>5, <2>1, AuctionedGoto
<1>6. Select(p) => AuctionedInv'
  BY <1>2, <1>3 DEF Select
<1>7. CallAnswers(p) \/ CallFails(p) => AuctionedInv'
  BY <1>2, <1>4 DEF CallAnswers, CallFails
<1>8. OnResponse(p) => AuctionedInv'
  BY <1>2, <1>4 DEF OnResponse
<1>9. Attempt(p) => AuctionedInv'
  BY <1>2, <1>5 DEF Attempt
<1>. QED
  BY <1>6, <1>7, <1>8, <1>9
(* Some arm has the fewest observations. *)
LEMMA LeastArm ==
  ASSUME BanditOK, DOMAIN arms # {}
  PROVE  \E a \in DOMAIN arms : \A b \in DOMAIN arms : arms[a] <= arms[b]
<1>. DEFINE S == {arms[a] : a \in DOMAIN arms}
<1>1. S \subseteq Nat /\ S # {}
  BY Limits DEF BanditOK
<1>. HIDE DEF S
<1>2. PICK m \in S : \A k \in S : m <= k
  BY <1>1, LeastOf
<1>. QED
  BY <1>2 DEF S

(* An arm fewer makes the sum no greater. *)
LEMMA SumWithout ==
  ASSUME NEW f, NEW S, IsFiniteSet(S), \A x \in S : f[x] \in Nat, NEW v
  PROVE  SumFunctionOnSet(f, S \ {v}) <= SumFunctionOnSet(f, S)
<1>1. SumFunctionOnSet(f, S \ {v}) \in Nat
  <2>1. IsFiniteSet(S \ {v})
    BY FS_Subset
  <2>. QED
    BY <2>1, SumNat
<1>2. CASE v \in S
  BY <1>1, <1>2, SumSplit
<1>3. CASE v \notin S
  <2>1. S \ {v} = S
    BY <1>3
  <2>. QED
    BY <1>1, <2>1
<1>. QED
  BY <1>2, <1>3

LEMMA ArmsUpdate ==
  ASSUME BanditOK, ArmsInv, NEW m \in Range(Candidates), Update(m)
  PROVE  ArmsInv'
<1>. DEFINE D == DOMAIN arms
            least == {a \in D : \A b \in D : arms[a] <= arms[b]}
            seen == IF m \in D THEN arms[m] ELSE 0
<1>1. IsFiniteSet(D) /\ Cardinality(D) \in Nat /\ Cardinality(D) <= MaxArms
      /\ D \subseteq Range(Candidates) /\ \A a \in D : arms[a] \in Nat
  BY ModelsAreFinite, Limits, FS_Subset, FS_CardinalityType DEF BanditOK, ArmsInv
<1>2. PICK V \in SUBSET least :
         /\ Cardinality(V) = IF Crowded(m) /\ least # {} THEN 1 ELSE 0
         /\ arms' = [a \in (D \ V) \cup {m} |-> IF a = m THEN Min({seen + 1, Window}) ELSE arms[a]]
  BY DEF Update
<1>3. IsFiniteSet(V) /\ V \subseteq D
  BY <1>1, FS_Subset
<1>4. V = {} \/ \E v \in D : V = {v}
  <2>1. Cardinality(V) = 0 => V = {}
    BY <1>3, FS_EmptySet
  <2>2. Cardinality(V) = 1 => \E v : V = {v}
    BY <1>3, FS_Singleton
  <2>. QED
    BY <1>2, <1>3, <2>1, <2>2
<1>5. D # {} => least # {}
  BY LeastArm
<1>6. DOMAIN arms' = (D \ V) \cup {m} /\ total' = total + 1
  BY <1>2 DEF Update
<1>. HIDE DEF least
<1>7. Cardinality(DOMAIN arms') <= MaxArms
  <2>1. IsFiniteSet(D \ V) /\ Cardinality(D \ V) \in Nat
        /\ Cardinality(D \ V) = Cardinality(D) - Cardinality(V)
    <3>1. D \cap V = V
      BY <1>3
    <3>2. IsFiniteSet(D \ V) /\ Cardinality(D \ V) = Cardinality(D) - Cardinality(V)
      BY <1>1, <3>1, FS_Difference
    <3>3. Cardinality(D \ V) \in Nat
      BY <3>2, FS_CardinalityType
    <3>. QED
      BY <3>2, <3>3
  <2>2. Cardinality((D \ V) \cup {m}) = IF m \in D \ V THEN Cardinality(D \ V) ELSE Cardinality(D \ V) + 1
    BY <2>1, FS_AddElement
  <2>3. CASE m \in D
    <3>1. ~Crowded(m)
      BY <2>3 DEF Crowded
    <3>2. Cardinality(V) = 0
      BY <1>2, <3>1
    <3>3. V = {}
      BY <1>3, <3>2, FS_EmptySet
    <3>4. (D \ V) \cup {m} = D
      BY <2>3, <3>3
    <3>. QED
      BY <1>1, <1>6, <3>4
  <2>4. CASE m \notin D /\ Cardinality(D) < MaxArms
    <3>1. Cardinality(V) \in 0..1
      BY <1>2
    <3>2. Cardinality(D \ V) <= Cardinality(D)
      BY <1>1, <2>1, <3>1
    <3>. QED
      BY <1>1, <1>6, <2>1, <2>2, <2>4, <3>2, Limits
  <2>5. CASE m \notin D /\ Cardinality(D) >= MaxArms
    <3>1. D # {}
      BY <2>5, Limits, FS_EmptySet
    <3>2. Crowded(m)
      BY <2>5 DEF Crowded
    <3>3. Cardinality(V) = 1
      BY <1>2, <1>5, <3>1, <3>2
    <3>. QED
      BY <1>1, <1>6, <2>1, <2>2, <3>3, Limits
  <2>. QED
    BY <1>1, <2>3, <2>4, <2>5, Limits
<1>8. DOMAIN arms' \subseteq Range(Candidates)
  BY <1>1, <1>6
<1>9. SumFunction(arms') <= total'
  <2>. DEFINE E == (D \ V) \cup {m}
              R == E \ {m}
  <2>1. E \ {m} = (D \ {m}) \ V
    OBVIOUS
  <2>2. IsFiniteSet(D \ {m}) /\ IsFiniteSet(R) /\ IsFiniteSet(E)
    BY <1>1, <2>1, FS_Difference, FS_AddElement
  <2>3. SumFunctionOnSet(arms, R) \in Nat /\ SumFunctionOnSet(arms, D \ {m}) \in Nat
    BY <1>1, <2>1, <2>2, SumNat
  <2>4. SumFunctionOnSet(arms, R) <= SumFunctionOnSet(arms, D \ {m})
    <3>1. CASE V = {}
      <4>1. R = D \ {m}
        BY <3>1, <2>1
      <4>. QED
        BY <2>3, <4>1
    <3>2. CASE \E v \in D : V = {v}
      <4>1. PICK v : R = (D \ {m}) \ {v}
        BY <2>1, <3>2
      <4>2. \A x \in D \ {m} : arms[x] \in Nat
        BY <1>1
      <4>. HIDE DEF R, D
      <4>. QED
        BY <2>2, <4>1, <4>2, SumWithout
    <3>. QED
      BY <1>4, <3>1, <3>2
  <2>5. Min({seen + 1, Window}) \in Nat /\ Min({seen + 1, Window}) <= seen + 1 /\ seen \in Nat
    <3>1. seen \in Nat
      BY <1>1
    <3>. HIDE DEF seen
    <3>. QED
      BY <3>1, Limits, MinOfTwo
  <2>6. SumFunctionOnSet(arms, D) = seen + SumFunctionOnSet(arms, D \ {m})
    <3>1. CASE m \in D
      <4>. HIDE DEF D
      <4>1. SumFunctionOnSet(arms, D) = arms[m] + SumFunctionOnSet(arms, D \ {m})
        BY <1>1, <3>1, SumSplit
      <4>. QED
        BY <3>1, <4>1 DEF D
    <3>2. CASE m \notin D
      <4>1. D \ {m} = D
        BY <3>2
      <4>. HIDE DEF D
      <4>. QED
        BY <2>3, <3>2, <4>1 DEF D
    <3>. QED
      BY <3>1, <3>2
  <2>7. SumFunctionOnSet(arms', E) = arms'[m] + SumFunctionOnSet(arms', R)
    <3>1. \A x \in E : arms'[x] \in Nat
      BY <1>1, <1>2, <2>5
    <3>2. m \in E
      OBVIOUS
    <3>. HIDE DEF E
    <3>. QED
      BY <2>2, <3>1, <3>2, SumSplit DEF R
  <2>8. SumFunctionOnSet(arms', R) = SumFunctionOnSet(arms, R)
    <3>1. \A x \in R : arms'[x] = arms[x]
      BY <1>2
    <3>. HIDE DEF R
    <3>. QED
      BY <2>2, <3>1, SumSame
  <2>9. arms'[m] <= seen + 1 /\ arms'[m] \in Nat
    BY <1>2, <2>5
  <2>10. SumFunction(arms) = SumFunctionOnSet(arms, D) /\ SumFunction(arms') = SumFunctionOnSet(arms', E)
    BY <1>6 DEF SumFunction
  <2>11. SumFunction(arms) <= total /\ total \in Nat
    BY DEF ArmsInv, BanditOK
  <2>. HIDE DEF E, R, D, seen
  <2>. QED
    BY <1>6, <2>3, <2>4, <2>5, <2>6, <2>7, <2>8, <2>9, <2>10, <2>11
<1>. QED
  BY <1>7, <1>8, <1>9 DEF ArmsInv

LEMMA ArmsStep == TypeInv /\ AuctionedInv /\ ArmsInv /\ [Next]_vars => AuctionedInv' /\ ArmsInv'
<1>. SUFFICES ASSUME TypeInv, AuctionedInv, ArmsInv, [Next]_vars PROVE AuctionedInv' /\ ArmsInv'
  OBVIOUS
<1>1. CASE UNCHANGED vars \/ Monitor
  BY <1>1 DEF vars, Monitor, StartRound, Check, clients, bandit, AuctionedInv, ArmsInv
<1>2. ASSUME NEW p \in Clients, Routes(p) \/ Attempt(p) \/ \E m \in Models : ExecuteWithFallback(p, m)
      PROVE  AuctionedInv'
  <2>1. CASE Begins(p) \/ \E m \in Models : ExecuteWithFallback(p, m)
    BY <2>1, AuctionedBegin DEF Begins, Execute, Serve, ExecuteWithFallback
  <2>2. CASE ~(Begins(p) \/ \E m \in Models : ExecuteWithFallback(p, m))
    BY <1>2, <2>2, AuctionedBalance, AuctionedAuction, AuctionedRest DEF Routes
  <2>. QED
    BY <2>1, <2>2
<1>3. ASSUME NEW p \in Clients, OnResponse(p) PROVE ArmsInv'
  <2>1. UNCHANGED bandit => ArmsInv'
    BY DEF bandit, ArmsInv
  <2>2. CASE /\ req[p].at # 0 /\ layers[req[p].at] = "auctioneer" /\ Update(req[p].model)
    <3>1. /\ pc[p] = "onResponse" /\ req[p].at \in DOMAIN layers
      BY <1>3, <2>2, LayersAre DEF OnResponse, TypeInv, RequestsOK
    <3>2. req[p].model \in Range(Candidates)
      BY <2>2, <3>1 DEF AuctionedInv, Auctioned
    <3>. QED
      BY <2>2, <3>2, ArmsUpdate DEF TypeInv
  <2>. QED
    BY <1>3, <2>1, <2>2 DEF OnResponse
<1>4. ASSUME NEW p \in Clients, Attempt(p) \/ \E m \in Models : ExecuteWithFallback(p, m)
      PROVE  ArmsInv'
  BY <1>4 DEF Attempt, ExecuteWithFallback, Begin, bandit, ArmsInv
<1>5. ASSUME NEW p \in Clients, Routes(p), ~OnResponse(p) PROVE ArmsInv'
  <2>1. UNCHANGED bandit
    BY <1>5 DEF Routes, Begins, Execute, Serve, Begin, Balance, Auction, OnRequest, Select,
       CallAnswers, CallFails
  <2>. QED
    BY <2>1 DEF bandit, ArmsInv
<1>. QED
  BY <1>1, <1>2, <1>3, <1>4, <1>5, NextCases

(* The bandit never holds more than MAX_ARMS arms, all of them candidates of *)
(* the auctioneer, nor in all more observations than it has been shown.      *)
THEOREM BanditStaysBounded == Spec => []BanditBounded
<1>1. Init => TypeInv /\ AuctionedInv /\ ArmsInv
  <2>. SUFFICES ASSUME Init PROVE AuctionedInv /\ ArmsInv
    BY InitTyped
  <2>1. AuctionedInv
    BY DEF Init, AuctionedInv, Auctioned
  <2>2. DOMAIN arms = {}
    BY DEF Init
  <2>3. SumFunction(arms) = 0 /\ Cardinality(DOMAIN arms) = 0
    BY <2>2, SumEmpty, FS_EmptySet DEF SumFunction
  <2>4. ArmsInv
    BY <2>2, <2>3, Limits DEF ArmsInv, Init
  <2>. QED
    BY <2>1, <2>4
<1>2. TypeInv /\ ArmsInv => BanditBounded
  BY Limits DEF TypeInv, BanditOK, ArmsInv, BanditBounded
<1>. QED
  BY <1>1, <1>2, TypeInvariant, ArmsStep, PTL DEF Spec
-----------------------------------------------------------------------------
(* The balancer *)

LEMMA QuotientIsOne ==
  ASSUME NEW n \in Nat, n > 0, NEW q \in Nat, NEW s \in Nat,
         NEW r \in 0..n - 1, NEW t \in 0..n - 1, n * q + r = n * s + t
  PROVE  q = s /\ r = t
<1>1. ASSUME NEW a \in Nat, NEW b \in Nat, NEW x \in 0..n - 1, NEW y \in 0..n - 1,
             n * a + x = n * b + y, a < b
      PROVE  FALSE
  <2>1. n * b >= n * (a + 1)
    BY <1>1
  <2>2. n * (a + 1) = n * a + n
    OBVIOUS
  <2>. QED
    BY <1>1, <2>1, <2>2
<1>2. q = s
  BY <1>1
<1>. QED
  BY <1>2

(* The next number's remainder. *)
LEMMA NextRemainder ==
  ASSUME NEW c \in Nat, NEW n \in Nat, n > 0
  PROVE  /\ c % n \in 0..n - 1
         /\ (c + 1) % n = IF c % n = n - 1 THEN 0 ELSE (c % n) + 1
<1>1. ASSUME NEW a \in Nat
      PROVE  a % n \in 0..n - 1 /\ a \div n \in Nat /\ a = (n * (a \div n)) + (a % n)
  OBVIOUS
<1>. DEFINE q == c \div n
            r == c % n
            s == (c + 1) \div n
            t == (c + 1) % n
<1>2. /\ r \in 0..n - 1 /\ q \in Nat /\ c = n * q + r
      /\ t \in 0..n - 1 /\ s \in Nat /\ c + 1 = n * s + t
  BY <1>1
<1>. HIDE DEF q, r, s, t
<1>0. r \in 0..n - 1
  BY <1>2
<1>3. CASE r = n - 1
  <2>1. n * (q + 1) = n * q + n
    BY <1>2
  <2>2. n * (q + 1) + 0 = n * s + t
    BY <1>2, <1>3, <2>1
  <2>3. t = 0
    BY <1>2, <2>2, QuotientIsOne
  <2>. QED
    BY <1>0, <1>3, <2>3 DEF r, t
<1>4. CASE r # n - 1
  <2>1. PICK u \in 0..n - 1 : u = r + 1
    BY <1>2, <1>4
  <2>2. n * q + u = n * s + t
    BY <1>2, <2>1
  <2>3. u = t
    BY <1>2, <2>2, QuotientIsOne
  <2>4. t = r + 1
    BY <2>1, <2>3
  <2>. QED
    BY <1>0, <1>4, <2>4 DEF r, t
<1>. QED
  BY <1>3, <1>4
(* How often the j-th of n has had its turn when the counter is at c, which  *)
(* has gone round q times.                                                   *)
Turns(c, n, q, j) == q + (IF j <= c % n THEN 1 ELSE 0)

LEMMA TurnsNext ==
  ASSUME NEW c \in Nat, NEW n \in Nat, n > 0, NEW q \in Nat
  PROVE  \E s \in Nat : \A j \in 1..n :
             Turns(c + 1, n, s, j) = Turns(c, n, q, j) + (IF j = Index(c, n) THEN 1 ELSE 0)
<1>. DEFINE r == c % n
            t == (c + 1) % n
<1>1. r \in 0..n - 1 /\ t = (IF r = n - 1 THEN 0 ELSE r + 1)
  BY NextRemainder
<1>2. \A j : Index(c, n) = r + 1 /\ Turns(c, n, q, j) = q + (IF j <= r THEN 1 ELSE 0)
  BY DEF Index, Turns
<1>3. \A s, j : Turns(c + 1, n, s, j) = s + (IF j <= t THEN 1 ELSE 0)
  BY DEF Turns
<1>. HIDE DEF r, t
<1>. DEFINE s == IF r = n - 1 THEN q + 1 ELSE q
<1>4. ASSUME NEW j \in 1..n
      PROVE  s + (IF j <= t THEN 1 ELSE 0)
                = (q + (IF j <= r THEN 1 ELSE 0)) + (IF j = r + 1 THEN 1 ELSE 0)
  BY <1>1
<1>5. s \in Nat
  OBVIOUS
<1>. HIDE DEF s
<1>6. \A j \in 1..n :
          Turns(c + 1, n, s, j) = Turns(c, n, q, j) + (IF j = Index(c, n) THEN 1 ELSE 0)
  BY <1>2, <1>3, <1>4
<1>. QED
  BY <1>5, <1>6

(* The picks made for the other models. *)
Others == [m \in Models |-> SumPicks(Models \ {m})]

Spread(p, o, c, m) ==
    \E q \in Nat : \A j \in DOMAIN Matching[m] :
        LET turns == Turns(c, Len(Matching[m]), q, j)
        IN  p[Matching[m][j]] <= turns /\ turns <= p[Matching[m][j]] + o

(* A provider is picked only at its turns, and every turn that is not a pick *)
(* of the model is one of another model.                                     *)
SpreadInv == \A m \in Models : Spread(picks[m], Others[m], counter, m)

LEMMA OthersAre ==
  ASSUME NEW m \in Models, BalancerOK
  PROVE  /\ IsFiniteSet(Models \ {m}) /\ IsFiniteSet(DOMAIN Reg)
         /\ \A n \in Models : SumFunction(picks[n]) \in Nat
         /\ Others[m] = SumFunctionOnSet([n \in Models \ {m} |-> SumFunction(picks[n])], Models \ {m})
         /\ Others[m] \in Nat
<1>1. IsFiniteSet(Models \ {m})
  BY ModelsAreFinite, FS_Difference
<1>2. IsFiniteSet(DOMAIN Reg)
  <2>. DEFINE n == Len(Reg)
  <2>1. n \in Nat /\ DOMAIN Reg = 1..n
    BY RegistryIs
  <2>. HIDE DEF n
  <2>. QED
    BY <2>1, FS_Interval
<1>3. ASSUME NEW n \in Models PROVE SumFunction(picks[n]) \in Nat
  <2>1. DOMAIN picks[n] = DOMAIN Reg /\ \A i \in DOMAIN Reg : picks[n][i] \in Nat
    BY DEF BalancerOK
  <2>. QED
    BY <1>2, <2>1, SumNat DEF SumFunction
<1>. DEFINE f == [n \in Models \ {m} |-> SumFunction(picks[n])]
<1>4. Others[m] = SumFunctionOnSet(f, Models \ {m})
  BY DEF Others, SumPicks, SumFunction
<1>5. \A n \in Models \ {m} : f[n] \in Nat
  BY <1>3
<1>6. SumFunctionOnSet(f, Models \ {m}) \in Nat
  BY <1>1, <1>5, SumNat
<1>. QED
  BY <1>1, <1>2, <1>3, <1>4, <1>6

(* A pick for m is one more among the others' of every other model. *)
LEMMA PickCounts ==
  ASSUME BalancerOK, BalancerOK', NEW m \in Models, NEW i \in DOMAIN Reg,
         picks' = [picks EXCEPT ![m][i] = @ + 1], NEW k \in Models
  PROVE  Others'[k] = Others[k] + (IF k = m THEN 0 ELSE 1)
<1>. DEFINE f == [n \in Models \ {k} |-> SumFunction(picks[n])]
            e == [n \in Models \ {k} |-> SumFunction(picks'[n])]
            M == Models \ {k}
<1>1. picks'[m] = [picks[m] EXCEPT ![i] = @ + 1] /\ \A n \in Models \ {m} : picks'[n] = picks[n]
  BY DEF BalancerOK
<1>2. SumFunction(picks'[m]) = SumFunction(picks[m]) + 1
  <2>. DEFINE g == picks[m]
              h == picks'[m]
              D == DOMAIN Reg
  <2>1. /\ DOMAIN g = D /\ DOMAIN h = D /\ IsFiniteSet(D) /\ IsFiniteSet(D \ {i})
        /\ \A x \in D : g[x] \in Nat /\ h[x] \in Nat
        /\ h[i] = g[i] + 1 /\ \A x \in D \ {i} : h[x] = g[x]
    <3>1. IsFiniteSet(D) /\ IsFiniteSet(D \ {i})
      BY OthersAre, FS_Difference
    <3>2. g \in [D -> Nat] /\ h \in [D -> Nat] /\ h = [g EXCEPT ![i] = @ + 1]
      BY <1>1 DEF BalancerOK
    <3>. HIDE DEF g, h, D
    <3>3. i \in D
      BY DEF D
    <3>. QED
      BY <3>1, <3>2, <3>3
  <2>. HIDE DEF g, h, D
  <2>2. i \in D
    BY DEF D
  <2>3. SumFunctionOnSet(g, D) = g[i] + SumFunctionOnSet(g, D \ {i})
    BY <2>1, <2>2, SumSplit
  <2>4. SumFunctionOnSet(h, D) = h[i] + SumFunctionOnSet(h, D \ {i})
    BY <2>1, <2>2, SumSplit
  <2>5. SumFunctionOnSet(h, D \ {i}) = SumFunctionOnSet(g, D \ {i})
    BY <2>1, SumSame
  <2>6. SumFunctionOnSet(g, D \ {i}) \in Nat /\ g[i] \in Nat
    BY <2>1, <2>2, SumNat
  <2>7. SumFunctionOnSet(h, D) = SumFunctionOnSet(g, D) + 1
    BY <2>1, <2>3, <2>4, <2>5, <2>6
  <2>8. SumFunction(g) = SumFunctionOnSet(g, D) /\ SumFunction(h) = SumFunctionOnSet(h, D)
    BY <2>1 DEF SumFunction
  <2>. QED
    BY <2>7, <2>8 DEF g, h
<1>3. /\ IsFiniteSet(M) /\ Others[k] = SumFunctionOnSet(f, M) /\ Others[k] \in Nat
      /\ \A n \in M : f[n] \in Nat
  BY OthersAre
<1>4. Others'[k] = SumFunctionOnSet(e, M)
  BY DEF Others, SumPicks, SumFunction
<1>5. \A n \in M : e[n] = f[n] + (IF n = m THEN 1 ELSE 0)
  BY <1>1, <1>2, <1>3
<1>. HIDE DEF f, e
<1>6. CASE k = m
  <2>1. \A n \in M : e[n] = f[n]
    BY <1>3, <1>5, <1>6
  <2>. HIDE DEF M
  <2>2. SumFunctionOnSet(e, M) = SumFunctionOnSet(f, M)
    BY <1>3, <2>1, SumSame
  <2>. QED
    BY <1>3, <1>4, <1>6, <2>2
<1>7. CASE k # m
  <2>. DEFINE R == M \ {m}
  <2>1. m \in M /\ IsFiniteSet(R)
    BY <1>3, <1>7, FS_Difference
  <2>2. \A n \in M : e[n] \in Nat
    BY <1>3, <1>5
  <2>3. \A n \in R : e[n] = f[n]
    BY <1>3, <1>5
  <2>4. e[m] = f[m] + 1 /\ f[m] \in Nat
    BY <1>3, <1>5, <2>1
  <2>. HIDE DEF M
  <2>5. SumFunctionOnSet(f, M) = f[m] + SumFunctionOnSet(f, R)
    BY <1>3, <2>1, SumSplit
  <2>6. SumFunctionOnSet(e, M) = e[m] + SumFunctionOnSet(e, R)
    BY <1>3, <2>1, <2>2, SumSplit
  <2>7. \A n \in R : f[n] \in Nat
    BY <1>3
  <2>. HIDE DEF R
  <2>8. SumFunctionOnSet(e, R) = SumFunctionOnSet(f, R) /\ SumFunctionOnSet(f, R) \in Nat
    BY <2>1, <2>3, <2>7, SumSame, SumNat
  <2>. QED
    BY <1>3, <1>4, <1>7, <2>4, <2>5, <2>6, <2>8
<1>. QED
  BY <1>6, <1>7
LEMMA SpreadBalance ==
  ASSUME TypeInv, SpreadInv, NEW p \in Clients, Balance(p)
  PROVE  SpreadInv'
<1>. DEFINE r == req[p]
            m == r.model
            matching == Matching[m]
            i == matching[Index(counter, Len(matching))]
<1>1. r \in Request /\ m \in Models /\ counter \in Nat /\ BalancerOK
  BY DEF Balance, TypeInv, RequestsOK, Request, BalancerOK
<1>2. CASE UNCHANGED balancer
  BY <1>2 DEF balancer, SpreadInv, Others, SumPicks
<1>3. CASE ~(r.provider_id # None \/ matching = <<>>)
  <2>1. counter' = counter + 1 /\ picks' = [picks EXCEPT ![m][i] = @ + 1]
    BY <1>3 DEF Balance
  <2>2. i \in DOMAIN Reg
    BY <1>1, <1>3, PickIs, SupportsIn
  <2>3. BalancerOK'
    BY BalanceTyped DEF TypeInv
  <2>4. \A k \in Models : Others'[k] = Others[k] + (IF k = m THEN 0 ELSE 1)
    <3>. HIDE DEF m, i
    <3>. QED
      BY <1>1, <2>1, <2>2, <2>3, PickCounts
  <2>5. ASSUME NEW k \in Models PROVE Spread(picks'[k], Others'[k], counter', k)
    <3>. DEFINE n == Len(Matching[k])
    <3>1. /\ n \in Nat /\ DOMAIN Matching[k] = 1..n /\ Matching[k] \in Seq(1..Len(Reg))
          /\ \A a, b \in 1..n : Matching[k][a] = Matching[k][b] => a = b
          /\ \A a \in 1..n : Matching[k][a] \in DOMAIN Reg
      BY MatchingIs, RegistryIs DEF Lists
    <3>2. PICK q \in Nat : \A j \in 1..n :
             picks[k][Matching[k][j]] <= Turns(counter, n, q, j)
             /\ Turns(counter, n, q, j) <= picks[k][Matching[k][j]] + Others[k]
      BY <3>1 DEF SpreadInv, Spread
    <3>3. CASE n = 0
      <4>1. DOMAIN Matching[k] = {}
        BY <3>1, <3>3
      <4>. QED
        BY <4>1 DEF Spread
    <3>4. CASE n > 0
      <4>1. PICK s \in Nat : \A j \in 1..n :
               Turns(counter', n, s, j)
                 = Turns(counter, n, q, j) + (IF j = Index(counter, n) THEN 1 ELSE 0)
        <5>1. n \in Nat /\ n > 0
          BY <3>1, <3>4
        <5>. HIDE DEF n
        <5>2. PICK s \in Nat : \A j \in 1..n :
                 Turns(counter + 1, n, s, j)
                   = Turns(counter, n, q, j) + (IF j = Index(counter, n) THEN 1 ELSE 0)
          BY <1>1, <5>1, TurnsNext
        <5>. QED
          BY <2>1, <5>2
      <4>2. ASSUME NEW j \in 1..n
            PROVE  /\ picks'[k][Matching[k][j]] <= Turns(counter', n, s, j)
                   /\ Turns(counter', n, s, j) <= picks'[k][Matching[k][j]] + Others'[k]
        <5>1. Turns(counter, n, q, j) \in Nat /\ picks[k][Matching[k][j]] \in Nat /\ Others[k] \in Nat
          <6>1. Turns(counter, n, q, j) \in Nat
            BY DEF Turns
          <6>2. Matching[k][j] \in DOMAIN Reg
            BY <3>1
          <6>3. picks[k][Matching[k][j]] \in Nat
            BY <1>1, <6>2 DEF BalancerOK
          <6>. QED
            BY <1>1, <6>1, <6>3, OthersAre
        <5>2. CASE k = m
          <6>1. picks'[k][Matching[k][j]] = picks[k][Matching[k][j]]
                                              + (IF Matching[k][j] = i THEN 1 ELSE 0)
            <7>1. Matching[k][j] \in DOMAIN Reg
              BY <3>1
            <7>. HIDE DEF i, m
            <7>2. picks'[k] = [picks[k] EXCEPT ![i] = @ + 1] /\ picks[k] \in [DOMAIN Reg -> Nat]
              BY <1>1, <2>1, <2>2, <5>2 DEF BalancerOK
            <7>. QED
              BY <2>2, <7>1, <7>2
          <6>2. Index(counter, n) \in 1..n /\ i = Matching[k][Index(counter, n)]
            BY <1>1, <1>3, <3>1, <5>2, PickIs
          <6>3. Matching[k][j] = i <=> j = Index(counter, n)
            BY <3>1, <6>2
          <6>4. Others'[k] = Others[k]
            BY <1>1, <2>4, <5>1, <5>2
          <6>. HIDE DEF n, i, m
          <6>. QED
            BY <3>2, <4>1, <5>1, <6>1, <6>3, <6>4
        <5>3. CASE k # m
          <6>1. picks'[k][Matching[k][j]] = picks[k][Matching[k][j]]
            BY <1>1, <2>1, <5>3 DEF BalancerOK
          <6>2. Others'[k] = Others[k] + 1
            BY <1>1, <2>4, <5>3
          <6>. HIDE DEF n, i, m
          <6>. QED
            BY <3>2, <4>1, <5>1, <6>1, <6>2
        <5>. QED
          BY <5>2, <5>3
      <4>. QED
        BY <3>1, <4>2 DEF Spread
    <3>. QED
      BY <3>1, <3>3, <3>4
  <2>. QED
    BY <2>5 DEF SpreadInv
<1>. QED
  BY <1>2, <1>3 DEF Balance

LEMMA SpreadStep == TypeInv /\ SpreadInv /\ [Next]_vars => SpreadInv'
<1>. SUFFICES ASSUME TypeInv, SpreadInv, [Next]_vars PROVE SpreadInv'
  OBVIOUS
<1>1. UNCHANGED balancer => SpreadInv'
  BY DEF balancer, SpreadInv, Others, SumPicks
<1>2. UNCHANGED vars \/ Monitor => UNCHANGED balancer
  BY DEF vars, Monitor, StartRound, Check
<1>3. \A p \in Clients : Attempt(p) \/ (\E m \in Models : ExecuteWithFallback(p, m))
                           => UNCHANGED balancer
  BY DEF Attempt, ExecuteWithFallback, Begin
<1>4. \A p \in Clients : Routes(p) /\ ~Balance(p) => UNCHANGED balancer
  BY DEF Routes, Begins, Execute, Serve, Begin, Auction, Select, CallAnswers, CallFails, OnResponse
<1>. QED
  BY <1>1, <1>2, <1>3, <1>4, SpreadBalance, NextCases

LEMMA SpreadStarts == Init => SpreadInv
<1>. SUFFICES ASSUME Init PROVE SpreadInv
  OBVIOUS
<1>1. BalancerOK
  BY InitTyped DEF TypeInv
<1>. SUFFICES ASSUME NEW m \in Models PROVE Spread(picks[m], Others[m], counter, m)
  BY DEF SpreadInv
<1>. DEFINE n == Len(Matching[m])
<1>2. n \in Nat /\ DOMAIN Matching[m] = 1..n /\ \A j \in 1..n : Matching[m][j] \in DOMAIN Reg
  BY MatchingIs, RegistryIs DEF Lists
<1>3. \A j \in 1..n : picks[m][Matching[m][j]] = 0
  BY <1>2 DEF Init
<1>4. Others[m] \in Nat
  BY <1>1, OthersAre
<1>5. \A j \in 1..n : Turns(counter, n, 0, j) = 0
  <2>. SUFFICES ASSUME NEW j \in 1..n PROVE Turns(counter, n, 0, j) = 0
    OBVIOUS
  <2>. HIDE DEF n
  <2>0. n \in Nat /\ n > 0
    BY <1>2
  <2>1. 0 % n = 0
    BY <2>0
  <2>. QED
    BY <2>1 DEF Turns, Init
<1>. HIDE DEF n
<1>6. \A j \in DOMAIN Matching[m] :
         picks[m][Matching[m][j]] <= Turns(counter, n, 0, j)
         /\ Turns(counter, n, 0, j) <= picks[m][Matching[m][j]] + Others[m]
  BY <1>2, <1>3, <1>4, <1>5
<1>. QED
  BY <1>6 DEF Spread, n

(* The balancer is fair, but for what the other models' requests turn of the *)
(* counter that all share.                                                   *)
THEOREM SpreadStaysBounded == Spec => []SpreadBounded
<1>1. TypeInv /\ SpreadInv => SpreadBounded
  <2>. SUFFICES ASSUME TypeInv, SpreadInv, NEW m \in Models,
                       NEW i \in Supports[m], NEW k \in Supports[m]
                PROVE  picks[m][i] <= picks[m][k] + 1 + SumPicks(Models \ {m})
    BY DEF SpreadBounded
  <2>. DEFINE n == Len(Matching[m])
  <2>1. n \in Nat /\ DOMAIN Matching[m] = 1..n
    BY MatchingIs
  <2>2. PICK a \in 1..n, b \in 1..n : Matching[m][a] = i /\ Matching[m][b] = k
    <3>1. i \in Supports[m] \cap (1..Len(Reg)) /\ k \in Supports[m] \cap (1..Len(Reg))
      BY SupportsIn, RegistryIs
    <3>2. \A x \in Supports[m] \cap (1..Len(Reg)) : \E a \in 1..n : Matching[m][a] = x
      BY <2>1, MatchingIs DEF Lists
    <3>. HIDE DEF n
    <3>. QED
      BY <3>1, <3>2
  <2>3. PICK q \in Nat : \A j \in 1..n :
           picks[m][Matching[m][j]] <= Turns(counter, n, q, j)
           /\ Turns(counter, n, q, j) <= picks[m][Matching[m][j]] + Others[m]
    BY <2>1 DEF SpreadInv, Spread
  <2>4. Turns(counter, n, q, a) <= q + 1 /\ q <= Turns(counter, n, q, b)
        /\ Turns(counter, n, q, a) \in Nat /\ Turns(counter, n, q, b) \in Nat
    BY DEF Turns
  <2>5. picks[m][i] \in Nat /\ picks[m][k] \in Nat
    BY SupportsIn DEF TypeInv, BalancerOK
  <2>6. Others[m] = SumPicks(Models \ {m}) /\ Others[m] \in Nat
    BY OthersAre DEF Others, TypeInv
  <2>. HIDE DEF n
  <2>7. picks[m][i] <= picks[m][k] + 1 + Others[m]
    BY <2>2, <2>3, <2>4, <2>5, <2>6
  <2>. QED
    BY <2>6, <2>7
<1>. QED
  BY <1>1, SpreadStarts, SpreadStep, TypeInvariant, PTL DEF Spec

-----------------------------------------------------------------------------
(* What the gateway lists *)

FlattensTo(g, s, k) == g = [i \in 1..k |-> IF i = 1 THEN s[i] ELSE g[i - 1] \o s[i]]

(* What stands there, the first k have. *)
Holds(t, s, E, k) == t \in Seq(E) /\ \A x \in Range(t) : \E i \in 1..k : x \in Range(s[i])

LEMMA FlattensExists ==
  ASSUME NEW n \in Nat, NEW s
  PROVE  \E g : FlattensTo(g, s, n)
<1>. DEFINE S == {k \in Nat : \E g : FlattensTo(g, s, k)}
<1>1. 0 \in S
  <2>1. FlattensTo([i \in 1..0 |-> 0], s, 0)
    BY DEF FlattensTo
  <2>. QED
    BY <2>1
<1>2. ASSUME NEW k \in Nat, k \in S PROVE k + 1 \in S
  <2>1. PICK g : FlattensTo(g, s, k)
    BY <1>2
  <2>2. PICK x : x = IF k + 1 = 1 THEN s[k + 1] ELSE g[k] \o s[k + 1]
    OBVIOUS
  <2>3. PICK h : h = [i \in 1..k + 1 |-> IF i = k + 1 THEN x ELSE g[i]]
    OBVIOUS
  <2>4. DOMAIN h = 1..k + 1 /\ h[k + 1] = x /\ \A i \in 1..k : h[i] = g[i]
    BY <2>3
  <2>5. ASSUME NEW i \in 1..k + 1
        PROVE  h[i] = IF i = 1 THEN s[i] ELSE h[i - 1] \o s[i]
    <3>1. CASE i = k + 1
      <4>1. i = 1 \/ (i - 1 \in 1..k /\ i - 1 = k)
        BY <3>1
      <4>. QED
        BY <2>2, <2>4, <3>1, <4>1
    <3>2. CASE i # k + 1
      <4>1. i \in 1..k /\ (i = 1 \/ i - 1 \in 1..k)
        BY <3>2
      <4>2. g[i] = IF i = 1 THEN s[i] ELSE g[i - 1] \o s[i]
        BY <2>1, <4>1 DEF FlattensTo
      <4>. QED
        BY <2>4, <4>1, <4>2
    <3>. QED
      BY <3>1, <3>2
  <2>6. FlattensTo(h, s, k + 1)
    BY <2>3, <2>5 DEF FlattensTo
  <2>7. k + 1 \in Nat
    OBVIOUS
  <2>. QED
    BY <2>6, <2>7
<1>. HIDE DEF S
<1>3. Nat \subseteq S
  BY <1>1, <1>2, Induction
<1>4. n \in S
  BY <1>3
<1>. QED
  BY <1>4 DEF S

(* What the sequences one after the other have, one of them has. *)
LEMMA FlattenHas ==
  ASSUME NEW E, NEW s \in Seq(Seq(E)), NEW e \in Range(FlattenSeq(s))
  PROVE  \E i \in DOMAIN s : e \in Range(s[i])
<1>1. PICK n \in Nat : n = Len(s) /\ DOMAIN s = 1..n /\ \A i \in 1..n : s[i] \in Seq(E)
  OBVIOUS
<1>2. CASE n = 0
  <2>1. FlattenSeq(s) = s /\ s = <<>>
    BY <1>1, <1>2 DEF FlattenSeq
  <2>. QED
    BY <2>1 DEF Range
<1>3. CASE n # 0
  <2>. DEFINE g == CHOOSE h : FlattensTo(h, s, Len(s))
              S == {k \in Nat : k + 1 <= n => Holds(g[k + 1], s, E, k + 1)}
  <2>1. FlattenSeq(s) = g[n]
    BY <1>1, <1>3 DEF FlattenSeq, FlattensTo
  <2>2. FlattensTo(g, s, Len(s))
    BY <1>1, FlattensExists
  <2>. HIDE DEF g
  <2>3. \A k \in 1..n : g[k] = IF k = 1 THEN s[k] ELSE g[k - 1] \o s[k]
    BY <1>1, <2>2 DEF FlattensTo
  <2>4. 0 \in S
    <3>1. g[1] = s[1] /\ s[1] \in Seq(E)
      BY <1>1, <1>3, <2>3
    <3>2. 1 \in 1..1
      OBVIOUS
    <3>3. Holds(g[1], s, E, 1)
      BY <3>1, <3>2 DEF Holds
    <3>. QED
      BY <3>3
  <2>5. ASSUME NEW k \in Nat, k \in S PROVE k + 1 \in S
    <3>0. PICK c \in Nat : c = k + 1
      OBVIOUS
    <3>. SUFFICES ASSUME c + 1 <= n PROVE Holds(g[c + 1], s, E, c + 1)
      BY <3>0
    <3>1. c + 1 \in 1..n /\ c \in 1..n /\ c + 1 # 1 /\ c + 1 - 1 = c /\ c <= n
      BY <1>1, <3>0
    <3>2. PICK a : a = g[c]
      OBVIOUS
    <3>3. PICK b : b = s[c + 1]
      OBVIOUS
    <3>4. g[c + 1] = a \o b /\ b \in Seq(E)
      <4>1. PICK d \in 1..n : d = c + 1
        BY <3>1
      <4>2. d # 1 /\ g[d - 1] = a /\ s[d] = b
        BY <3>1, <3>2, <3>3, <4>1
      <4>3. g[c + 1] = a \o b
        BY <2>3, <4>1, <4>2
      <4>. QED
        BY <1>1, <3>1, <3>3, <4>3
    <3>5. Holds(a, s, E, c)
      BY <2>5, <3>0, <3>1, <3>2
    <3>6. a \in Seq(E)
      BY <3>5 DEF Holds
    <3>7. a \o b \in Seq(E) /\ \A x \in Range(a \o b) : x \in Range(a) \/ x \in Range(b)
      <4>1. PICK la \in Nat : la = Len(a) /\ DOMAIN a = 1..la
        BY <3>6
      <4>2. PICK lb \in Nat : lb = Len(b) /\ DOMAIN b = 1..lb
        BY <3>4
      <4>3. a \o b \in Seq(E) /\ DOMAIN (a \o b) = 1..la + lb
        BY <3>4, <3>6, <4>1, <4>2
      <4>4. ASSUME NEW j \in 1..la + lb
            PROVE  (a \o b)[j] \in Range(a) \/ (a \o b)[j] \in Range(b)
        <5>1. CASE j <= la
          <6>1. j \in 1..la /\ (a \o b)[j] = a[j]
            BY <3>4, <3>6, <4>1, <4>2, <5>1
          <6>. QED
            BY <4>1, <6>1 DEF Range
        <5>2. CASE j > la
          <6>1. j - la \in 1..lb /\ (a \o b)[j] = b[j - la]
            BY <3>4, <3>6, <4>1, <4>2, <5>2
          <6>. QED
            BY <4>2, <6>1 DEF Range
        <5>3. j \in Int /\ la \in Int
          BY <4>1, <4>2, <4>4
        <5>4. j <= la \/ j > la
          BY <5>3
        <5>. QED
          BY <5>1, <5>2, <5>4
      <4>. QED
        BY <4>3, <4>4 DEF Range
    <3>8. ASSUME NEW x \in Range(g[c + 1]) PROVE \E i \in 1..c + 1 : x \in Range(s[i])
      <4>1. CASE x \in Range(a)
        <5>1. PICK i \in 1..c : x \in Range(s[i])
          BY <3>5, <4>1 DEF Holds
        <5>2. i \in 1..c + 1
          BY <3>1
        <5>. QED
          BY <5>1, <5>2
      <4>2. CASE x \in Range(b)
        <5>1. c + 1 \in 1..c + 1
          BY <3>1
        <5>. QED
          BY <3>3, <4>2, <5>1
      <4>. QED
        BY <3>4, <3>7, <3>8, <4>1, <4>2
    <3>. QED
      BY <3>4, <3>7, <3>8 DEF Holds
  <2>. HIDE DEF S
  <2>6. Nat \subseteq S
    BY <2>4, <2>5, Induction
  <2>7. n - 1 \in Nat /\ n - 1 + 1 = n
    BY <1>3
  <2>8. PICK k \in Nat : k + 1 = n
    BY <2>7
  <2>9. k \in S /\ k + 1 <= n
    BY <2>6, <2>8
  <2>10. Holds(g[n], s, E, n)
    BY <2>8, <2>9 DEF S
  <2>. QED
    BY <1>1, <2>1, <2>10 DEF Holds
<1>. QED
  BY <1>2, <1>3

(* The last of some of the first numbers. *)
LEMMA MaxIn ==
  ASSUME NEW n \in Nat, NEW S, S \subseteq 1..n, S # {}
  PROVE  Max(S) \in S
<1>1. PICK T : T = {n - x : x \in S}
  OBVIOUS
<1>0. \A x \in S : x \in Nat /\ n - x \in Nat
  <2>. SUFFICES ASSUME NEW x \in S PROVE x \in Nat /\ n - x \in Nat
    OBVIOUS
  <2>1. x \in 1..n
    OBVIOUS
  <2>. QED
    BY <2>1
<1>2. T \subseteq Nat /\ T # {}
  BY <1>0, <1>1
<1>3. PICK m \in T : \A k \in T : m <= k
  BY <1>2, LeastOf
<1>4. PICK x \in S : m = n - x
  BY <1>1, <1>3
<1>5. ASSUME NEW y \in S PROVE y <= x
  <2>1. n - x <= n - y
    BY <1>1, <1>3, <1>4
  <2>. QED
    BY <1>0, <2>1
<1>. QED
  BY <1>5 DEF Max

(* Whatever the configurations, the model that the gateway lists it serves *)
(* by a provider that has it and is preferred to no less than the one it   *)
(* lists (AppState::all_models, find_provider).                            *)
THEOREM ListedModelsAreServed ==
  ASSUME NEW I, NEW M, NEW cfgs \in Seq(ProviderConfig(I, Seq(M), Nat))
  PROVE  ListedIsServed(cfgs)
<1>1. PICK n \in Nat : n = Len(cfgs) /\ DOMAIN cfgs = 1..n
  OBVIOUS
<1>2. PICK reg : reg = Providers(cfgs)
  OBVIOUS
<1>3. PICK kept : kept = Positions(Len(cfgs), {i \in DOMAIN cfgs : Registers(cfgs[i])})
  OBVIOUS
<1>4. kept \in Seq(1..n)
  BY <1>1, <1>3, PositionsList DEF Lists
<1>5. PICK l \in Nat : l = Len(kept) /\ DOMAIN kept = 1..l /\ \A j \in 1..l : kept[j] \in 1..n
  BY <1>4
<1>6. DOMAIN reg = 1..l /\ \A j \in 1..l : reg[j] = cfgs[kept[j]]
  BY <1>2, <1>3, <1>5 DEF Providers
<1>0. \A i \in 1..n : cfgs[i].models \in Seq(M) /\ cfgs[i].priority \in Nat
  <2>. SUFFICES ASSUME NEW i \in 1..n PROVE cfgs[i].models \in Seq(M) /\ cfgs[i].priority \in Nat
    OBVIOUS
  <2>1. cfgs[i] \in ProviderConfig(I, Seq(M), Nat)
    BY <1>1
  <2>. QED
    BY <2>1 DEF ProviderConfig
<1>7. \A j \in 1..l : reg[j].models \in Seq(M)
  BY <1>0, <1>5, <1>6
<1>8. ASSUME NEW j \in 1..l PROVE Priority(cfgs, reg[j].id) \in Nat
  <2>1. PICK S : S = {i \in DOMAIN cfgs : cfgs[i].id = reg[j].id}
    OBVIOUS
  <2>2. S \subseteq 1..n /\ kept[j] \in S
    BY <1>1, <1>5, <1>6, <2>1
  <2>3. Max(S) \in 1..n
    BY <2>2, MaxIn
  <2>4. cfgs[Max(S)].priority \in Nat
    BY <1>0, <2>3
  <2>. QED
    BY <2>1, <2>4 DEF Priority
<1>. SUFFICES ASSUME NEW e \in Range(AllModels(reg))
              PROVE  LET i == FindProvider(cfgs, e[1])
                     IN  /\ i # 0 /\ e[1] \in Range(reg[i].models)
                         /\ Priority(cfgs, reg[i].id) <= Priority(cfgs, e[2])
  BY <1>2 DEF ListedIsServed
<1>9. PICK s : s = [j \in DOMAIN reg |-> [k \in DOMAIN reg[j].models |-> <<reg[j].models[k], reg[j].id>>]]
  OBVIOUS
<1>10. PICK P : P = UNION {Range(s[j]) : j \in 1..l}
  OBVIOUS
<1>11. ASSUME NEW j \in 1..l PROVE s[j] \in Seq(P)
  <2>1. PICK k \in Nat : k = Len(reg[j].models) /\ DOMAIN reg[j].models = 1..k
    BY <1>7
  <2>2. s[j] = [i \in 1..k |-> <<reg[j].models[i], reg[j].id>>]
    BY <1>6, <1>9, <2>1
  <2>3. ASSUME NEW i \in 1..k PROVE s[j][i] \in P
    <3>1. s[j][i] \in Range(s[j])
      BY <2>2 DEF Range
    <3>. QED
      BY <1>10, <3>1
  <2>. QED
    BY <2>2, <2>3
<1>12. s \in Seq(Seq(P))
  BY <1>6, <1>9, <1>11
<1>13. e \in Range(FlattenSeq(s))
  BY <1>9 DEF AllModels
<1>14. PICK j \in 1..l : e \in Range(s[j])
  BY <1>6, <1>9, <1>12, <1>13, FlattenHas
<1>15. e[1] \in Range(reg[j].models) /\ e[2] = reg[j].id
  BY <1>6, <1>9, <1>14 DEF Range
<1>16. PICK S : S = Supporting(reg, e[1])
  OBVIOUS
<1>17. S \subseteq 1..l /\ j \in S /\ \A i \in S : e[1] \in Range(reg[i].models)
  BY <1>6, <1>15, <1>16 DEF Supporting
<1>18. PICK prio : prio = [i \in 1..l |-> Priority(cfgs, reg[i].id)]
  OBVIOUS
<1>19. \A i \in 1..l : prio[i] \in Nat /\ prio[i] = Priority(cfgs, reg[i].id)
  BY <1>8, <1>18
<1>20. PICK B : B = {i \in S : \A k \in S : prio[i] <= prio[k]}
  OBVIOUS
<1>21. B # {} /\ B \subseteq Nat
  <2>1. PICK V : V = {prio[i] : i \in S}
    OBVIOUS
  <2>2. V \subseteq Nat /\ V # {}
    BY <1>17, <1>19, <2>1
  <2>3. PICK v \in V : \A w \in V : v <= w
    BY <2>2, LeastOf
  <2>4. PICK i \in S : v = prio[i]
    BY <2>1, <2>3
  <2>5. \A k \in S : prio[i] <= prio[k]
    BY <2>1, <2>3, <2>4
  <2>6. i \in B
    BY <1>20, <2>5
  <2>. QED
    BY <1>17, <1>20, <2>6
<1>22. FindProvider(cfgs, e[1]) = FirstOf(B)
  <2>1. B = {i \in S : \A k \in S : Priority(cfgs, reg[i].id) <= Priority(cfgs, reg[k].id)}
    BY <1>17, <1>19, <1>20
  <2>. QED
    BY <1>2, <1>16, <2>1 DEF FindProvider
<1>23. PICK i \in B : i = FirstOf(B)
  BY <1>21, MinIn DEF FirstOf
<1>24. i \in S /\ i \in 1..l /\ i # 0 /\ prio[i] <= prio[j]
  BY <1>17, <1>20, <1>23
<1>. QED
  BY <1>15, <1>17, <1>19, <1>22, <1>23, <1>24
=============================================================================
