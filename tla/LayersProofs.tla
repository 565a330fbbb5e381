---------------------------- MODULE LayersProofs ----------------------------
(***************************************************************************)
(* Proofs about Layers, for conversations of any length: about the         *)
(* auctioneer, for any candidates, weights and types of request; about     *)
(* what the masker finds and leaves, and what the prompt guard reads and   *)
(* compares, in texts of any length; and about the complexity gate.        *)
(***************************************************************************)
EXTENDS Layers, FiniteSetTheorems, WellFoundedInduction, TLAPS

(* A set of bounded numbers that is not empty has a least and a greatest. *)
LEMMA LeastAndGreatest ==
  ASSUME NEW B \in Nat, NEW S, S \subseteq 0..B, S # {}
  PROVE  /\ Min(S) \in S /\ \A y \in S : Min(S) <= y
         /\ Max(S) \in S /\ \A y \in S : y <= Max(S)
<1>. DEFINE less == StrictSubsetOrdering(0..B)
            below == {0..x : x \in S}
            above == {x..B : x \in S}
<1>1. IsWellFoundedOn(less, FiniteSubsetsOf(0..B))
  BY FS_StrictSubsetOrderingWellFounded
<1>2. \A x \in S : 0..x \in FiniteSubsetsOf(0..B) /\ x..B \in FiniteSubsetsOf(0..B)
  <2>. SUFFICES ASSUME NEW x \in S
                PROVE  0..x \in FiniteSubsetsOf(0..B) /\ x..B \in FiniteSubsetsOf(0..B)
    OBVIOUS
  <2>1. x \in Int /\ 0..x \subseteq 0..B /\ x..B \subseteq 0..B
    OBVIOUS
  <2>2. IsFiniteSet(0..x) /\ IsFiniteSet(x..B)
    BY <2>1, FS_Interval
  <2>. QED
    BY <2>1, <2>2 DEF FiniteSubsetsOf
<1>3. /\ below \subseteq FiniteSubsetsOf(0..B) /\ below # {}
      /\ above \subseteq FiniteSubsetsOf(0..B) /\ above # {}
  BY <1>2
<1>4. \A x, y \in S : y < x => <<0..y, 0..x>> \in less /\ <<x..B, y..B>> \in less
  <2>. SUFFICES ASSUME NEW x \in S, NEW y \in S, y < x
                PROVE  <<0..y, 0..x>> \in less /\ <<x..B, y..B>> \in less
    OBVIOUS
  <2>1. x \in 0..x /\ x \notin 0..y /\ 0..y \subseteq 0..x /\ 0..x \subseteq 0..B
    OBVIOUS
  <2>2. y \in y..B /\ y \notin x..B /\ x..B \subseteq y..B /\ y..B \subseteq 0..B
    OBVIOUS
  <2>. QED
    BY <2>1, <2>2 DEF StrictSubsetOrdering
<1>5. PICK x \in S : \A y \in S : ~(<<0..y, 0..x>> \in less)
  <2>1. PICK X \in below : \A Y \in below : ~(<<Y, X>> \in less)
    <3>. HIDE DEF less, below
    <3>. QED
      BY <1>1, <1>3, WFMin
  <2>. QED
    BY <2>1
<1>6. PICK g \in S : \A y \in S : ~(<<y..B, g..B>> \in less)
  <2>1. PICK X \in above : \A Y \in above : ~(<<Y, X>> \in less)
    <3>. HIDE DEF less, above
    <3>. QED
      BY <1>1, <1>3, WFMin
  <2>. QED
    BY <2>1
<1>7. \A y \in S : x <= y /\ y <= g
  <2>. SUFFICES ASSUME NEW y \in S PROVE x <= y /\ y <= g
    OBVIOUS
  <2>1. x \in Int /\ y \in Int /\ g \in Int
    OBVIOUS
  <2>2. ~(<<0..y, 0..x>> \in less) /\ ~(<<y..B, g..B>> \in less)
    BY <1>5, <1>6
  <2>3. ~(y < x) /\ ~(g < y)
    BY <1>4, <2>2
  <2>. QED
    BY <2>1, <2>3
<1>8. Min(S) \in S /\ \A y \in S : Min(S) <= y
  BY <1>7 DEF Min
<1>9. Max(S) \in S /\ \A y \in S : y <= Max(S)
  BY <1>7 DEF Max
<1>. QED
  BY <1>8, <1>9

(* Normalised figures are numbers. *)
LEMMA PartsAreNat ==
  ASSUME NEW B \in Nat, NEW all, all \subseteq (0..B) \cup {NotFinite}
  PROVE  /\ Unit(all) \in Nat
         /\ \A value \in all : Part(value, all) \in Nat
<1>1. CASE Flat(all)
  BY <1>1 DEF Unit, Part
<1>2. CASE ~Flat(all)
  <2>. DEFINE S == Finite(all)
  <2>1. S \subseteq 0..B
    BY DEF Finite
  <2>2. S # {}
    BY <1>2, FS_EmptySet DEF Flat
  <2>3. /\ Min(S) \in S /\ \A y \in S : Min(S) <= y
        /\ Max(S) \in S /\ \A y \in S : y <= Max(S)
    BY <2>1, <2>2, LeastAndGreatest
  <2>4. Min(S) \in Nat /\ Max(S) \in Nat /\ Min(S) <= Max(S)
    BY <2>1, <2>3
  <2>5. Unit(all) = 2 * (Max(S) - Min(S))
    BY <1>2 DEF Unit
  <2>6. Unit(all) \in Nat /\ Unit(all) \div 2 \in Nat
    BY <2>4, <2>5
  <2>7. ASSUME NEW value \in all, value # NotFinite
        PROVE  Part(value, all) \in Nat
    <3>1. value \in S
      BY <2>7 DEF Finite
    <3>2. value \in Nat /\ Min(S) <= value
      BY <3>1, <2>1, <2>3
    <3>3. Part(value, all) = 2 * (value - Min(S))
      BY <2>7, <1>2 DEF Part
    <3>. QED
      BY <3>2, <3>3, <2>4
  <2>8. Part(NotFinite, all) \in Nat
    BY <2>6 DEF Part
  <2>. QED
    BY <2>6, <2>7, <2>8
<1>. QED
  BY <1>1, <1>2

LEMMA ProductOrder ==
  ASSUME NEW K \in Nat \ {0}, NEW a \in Nat, NEW b \in Nat, K * a <= K * b
  PROVE  a <= b
<1>. SUFFICES ASSUME b + 1 <= a PROVE FALSE
  OBVIOUS
<1>1. K * (b + 1) <= K * a
  OBVIOUS
<1>2. K * (b + 1) = K * b + K
  OBVIOUS
<1>. QED
  BY <1>1, <1>2

Scored(C) ==
    C \in Seq([cost    : (0..Limit) \cup {NotFinite},
               latency : (0..Limit) \cup {NotFinite},
               quality : 0..Best])

(* Of two choices among the same candidates with the same weights, the one *)
(* for a low budget is not the costlier (select_best).                     *)
THEOREM LowBudgetIsCheaper ==
  ASSUME NEW C, Scored(C), Limit \in Nat,
         NEW w \in [cost : Nat, latency : Nat, quality : Nat],
         NEW i, IsBest(C, i, w, FALSE),
         NEW j, IsBest(C, j, w, TRUE)
  PROVE  Part(C[j].cost, Costs(C)) <= Part(C[i].cost, Costs(C))
<1>. DEFINE K == Best * Unit(Latencies(C)) * w.cost
            a(k) == Part(C[k].cost, Costs(C))
            o(k) == OtherScore(C, k, w)
            p(k) == K * a(k)
<1>1. /\ DOMAIN C \subseteq Nat
      /\ \A k \in DOMAIN C : /\ C[k].cost \in (0..Limit) \cup {NotFinite}
                             /\ C[k].latency \in (0..Limit) \cup {NotFinite}
                             /\ C[k].quality \in 0..Best
  <2>. DEFINE R == [cost    : (0..Limit) \cup {NotFinite},
                    latency : (0..Limit) \cup {NotFinite},
                    quality : 0..Best]
  <2>1. C \in Seq(R)
    BY DEF Scored
  <2>2. /\ Len(C) \in Nat /\ DOMAIN C = 1..Len(C)
        /\ \A k \in 1..Len(C) : C[k] \in R
    <3>. HIDE DEF R
    <3>. QED
      BY <2>1
  <2>3. DOMAIN C \subseteq Nat
    BY <2>2
  <2>. QED
    BY <2>2, <2>3
<1>2. i \in DOMAIN C /\ j \in DOMAIN C
  BY DEF IsBest
<1>3. /\ Unit(Costs(C)) \in Nat
      /\ \A k \in DOMAIN C : Part(C[k].cost, Costs(C)) \in Nat
  <2>1. Costs(C) \subseteq (0..Limit) \cup {NotFinite}
    BY <1>1 DEF Costs
  <2>. QED
    BY <2>1, PartsAreNat DEF Costs
<1>4. /\ Unit(Latencies(C)) \in Nat
      /\ \A k \in DOMAIN C : Part(C[k].latency, Latencies(C)) \in Nat
  <2>1. Latencies(C) \subseteq (0..Limit) \cup {NotFinite}
    BY <1>1 DEF Latencies
  <2>. QED
    BY <2>1, PartsAreNat DEF Latencies
<1>5. K \in Nat
  BY <1>4, BestIsPositive
<1>6. \A k \in DOMAIN C : o(k) \in Int
  <2>. SUFFICES ASSUME NEW k \in DOMAIN C PROVE o(k) \in Int
    OBVIOUS
  <2>1. Best - C[k].quality \in Int
    BY <1>1, BestIsPositive
  <2>2. 2 * Best * Unit(Costs(C)) * w.latency * Part(C[k].latency, Latencies(C)) \in Int
    BY <1>3, <1>4, BestIsPositive
  <2>3. 2 * Unit(Costs(C)) * Unit(Latencies(C)) * w.quality * (Best - C[k].quality) \in Int
    BY <1>3, <1>4, <2>1
  <2>. QED
    BY <2>2, <2>3 DEF OtherScore
<1>7. \A k \in DOMAIN C : p(k) \in Nat
  BY <1>3, <1>5
<1>8. \A k \in DOMAIN C : /\ Combined(C, k, w, FALSE) = 2 * p(k) + o(k)
                          /\ Combined(C, k, w, TRUE) = 3 * p(k) + o(k)
  BY DEF Combined, BudgetFactor, CostScore
<1>9. \/ Combined(C, i, w, FALSE) < Combined(C, j, w, FALSE)
      \/ Combined(C, i, w, FALSE) = Combined(C, j, w, FALSE) /\ i <= j
  BY <1>2 DEF IsBest
<1>10. \/ Combined(C, j, w, TRUE) < Combined(C, i, w, TRUE)
       \/ Combined(C, j, w, TRUE) = Combined(C, i, w, TRUE) /\ j <= i
  BY <1>2 DEF IsBest
<1>11. /\ p(i) \in Nat /\ p(j) \in Nat /\ o(i) \in Int /\ o(j) \in Int
       /\ i \in Nat /\ j \in Nat
  BY <1>1, <1>2, <1>6, <1>7
<1>12. /\ \/ 2 * p(i) + o(i) < 2 * p(j) + o(j)
          \/ 2 * p(i) + o(i) = 2 * p(j) + o(j) /\ i <= j
       /\ \/ 3 * p(j) + o(j) < 3 * p(i) + o(i)
          \/ 3 * p(j) + o(j) = 3 * p(i) + o(i) /\ j <= i
  <2>. HIDE DEF p, o
  <2>. QED
    BY <1>2, <1>8, <1>9, <1>10
<1>13. p(j) <= p(i) /\ (p(j) = 0 /\ p(i) = 0 => i = j)
  <2>. HIDE DEF p, o
  <2>. QED
    BY <1>11, <1>12
<1>14. a(i) \in Nat /\ a(j) \in Nat
  BY <1>2, <1>3
<1>15. a(j) <= a(i)
  <2>. HIDE DEF K, a
  <2>1. CASE K # 0
    BY <2>1, <1>5, <1>13, <1>14, ProductOrder
(* Where cost has no weight both choices are by the other scores alone.    *)
  <2>2. CASE K = 0
    <3>1. p(i) = 0 /\ p(j) = 0
      BY <2>2, <1>14
    <3>. QED
      BY <3>1, <1>13, <1>14
  <2>. QED
    BY <2>1, <2>2
<1>. QED
  BY <1>15

-----------------------------------------------------------------------------
(* A candidate that is chosen was selected for the context of its request. *)
ChosenIsSelected ==
    /\ (chosen # 0) = (stage = "routed")
    /\ chosen # 0 =>
         /\ context \in Contexts
         /\ chosen \in Selected(Candidates, Weights(Table, context.type),
                                context.low, context.mode)

LEMMA SelectedExists ==
  ASSUME NEW w, NEW low, NEW mode, NEW i \in Selected(Candidates, w, low, mode),
         mode \in {"cold", "explores", "scores"}
  PROVE  i \in DOMAIN Candidates
BY DEF Selected, IsBest

LEMMA ChosenInit == Init => ChosenIsSelected
BY DEF Init, ChosenIsSelected

LEMMA ChosenStep == ChosenIsSelected /\ [Next]_vars => ChosenIsSelected'
<1>. SUFFICES ASSUME ChosenIsSelected, [Next]_vars PROVE ChosenIsSelected'
  OBVIOUS
<1>1. CASE Begin \/ Write
  BY <1>1 DEF Begin, Write, ChosenIsSelected
<1>2. CASE MaskRequest
  BY <1>2 DEF MaskRequest, ChosenIsSelected
<1>3. CASE Choose
  <2>1. /\ stage' = "routed" /\ context' \in Contexts
        /\ chosen' \in Selected(Candidates, Weights(Table, context'.type),
                                context'.low, context'.mode)
    BY <1>3 DEF Choose
  <2>2. chosen' \in DOMAIN Candidates
    BY <2>1, SelectedExists DEF Contexts
  <2>3. chosen' # 0
    BY <2>2, CandidatesScored
  <2>. QED
    BY <2>1, <2>3 DEF ChosenIsSelected
<1>4. CASE Answer
  BY <1>4 DEF Answer, ChosenIsSelected
<1>5. CASE UNCHANGED vars
  BY <1>5 DEF vars, ChosenIsSelected
<1>. QED
  BY <1>1, <1>2, <1>3, <1>4, <1>5 DEF Next

LEMMA ChosenIsCheaper == ChosenIsSelected => CheaperOnLowBudget
<1>. SUFFICES ASSUME ChosenIsSelected,
                     chosen # 0, context.low, context.mode = "scores",
                     NEW i \in Selected(Candidates, Weights(Table, context.type), FALSE, "scores")
              PROVE  Part(Candidates[chosen].cost, Costs(Candidates))
                         <= Part(Candidates[i].cost, Costs(Candidates))
  BY DEF CheaperOnLowBudget
<1>. DEFINE w == Weights(Table, context.type)
<1>1. w \in [cost : Nat, latency : Nat, quality : Nat]
  BY TableWeighs DEF Weights, DefaultWeights
<1>2. context \in Contexts /\ context.low = TRUE
  BY DEF ChosenIsSelected, Contexts
<1>3. IsBest(Candidates, chosen, w, TRUE)
  BY <1>2 DEF ChosenIsSelected, Selected
<1>4. IsBest(Candidates, i, w, FALSE)
  BY DEF Selected
<1>5. Scored(Candidates) /\ Limit \in Nat
  BY CandidatesScored DEF Scored
<1>. HIDE DEF w
<1>. QED
  BY <1>1, <1>3, <1>4, <1>5, LowBudgetIsCheaper

(* In every state of every conversation, a request with little budget left *)
(* was sent to no costlier a model than with plenty (CostAuctioneer).      *)
THEOREM AlwaysCheaper == Spec => []CheaperOnLowBudget
<1>. QED
  BY ChosenInit, ChosenStep, ChosenIsCheaper, PTL DEF Spec

LEMMA LeastOf ==
  ASSUME NEW S, S \subseteq Nat, S # {}
  PROVE  \E m \in S : \A k \in S : m <= k
<1>. DEFINE less == OpToRel(<, Nat)
<1>1. IsWellFoundedOn(less, Nat)
  BY NatLessThanWellFounded
<1>2. \A a, b \in Nat : a < b => <<a, b>> \in less
  BY DEF OpToRel
<1>. HIDE DEF less
<1>3. PICK m \in S : \A k \in S : ~(<<k, m>> \in less)
  BY <1>1, WFMin
<1>4. \A k \in S : k \in Nat /\ m \in Nat /\ ~(k < m)
  BY <1>2, <1>3
<1>. QED
  BY <1>4

(* A set of numbers that has 0, and with each number the next, has them all. *)
LEMMA Induction ==
  ASSUME NEW S, 0 \in S, \A n \in Nat : n \in S => n + 1 \in S
  PROVE  Nat \subseteq S
<1>. SUFFICES ASSUME Nat \ S # {} PROVE FALSE
  OBVIOUS
<1>1. PICK m \in Nat \ S : \A k \in Nat \ S : m <= k
  BY LeastOf
<1>2. m # 0 /\ m - 1 \in Nat
  BY <1>1
<1>3. m - 1 \in S
  BY <1>1, <1>2
<1>. QED
  BY <1>1, <1>2, <1>3

-----------------------------------------------------------------------------
(* The positions of a pattern in a text, and what is found at them *)

(* What the recursion of Positions has after each of the n numbers. *)
Builds(g, n, I) ==
    g = [k \in 0..n |-> IF k = 0 THEN <<>>
                         ELSE IF k \in I THEN Append(g[k - 1], k) ELSE g[k - 1]]

(* The numbers in I up to k, in order. *)
Lists(s, k, I) ==
    /\ s \in Seq(1..k)
    /\ \A a \in DOMAIN s : s[a] \in I
    /\ \A a, b \in DOMAIN s : a < b => s[a] < s[b]
    /\ \A i \in I \cap (1..k) : \E a \in DOMAIN s : s[a] = i

LEMMA BuildsExists ==
  ASSUME NEW I
  PROVE  \A n \in Nat : \E g : Builds(g, n, I)
<1>. DEFINE S == {n \in Nat : \E g : Builds(g, n, I)}
<1>1. 0 \in S
  <2>1. Builds([k \in 0..0 |-> <<>>], 0, I)
    BY DEF Builds
  <2>. QED
    BY <2>1
<1>2. ASSUME NEW n \in Nat, n \in S PROVE n + 1 \in S
  <2>1. PICK h : Builds(h, n, I)
    BY <1>2
  <2>. DEFINE last == IF n + 1 \in I THEN Append(h[n], n + 1) ELSE h[n]
              g == [k \in 0..n + 1 |-> IF k = n + 1 THEN last ELSE h[k]]
  <2>2. \A k \in 0..n : h[k] = IF k = 0 THEN <<>>
                               ELSE IF k \in I THEN Append(h[k - 1], k) ELSE h[k - 1]
    BY <2>1 DEF Builds
  <2>3. \A k \in 0..n + 1 : g[k] = IF k = 0 THEN <<>>
                               ELSE IF k \in I THEN Append(g[k - 1], k) ELSE g[k - 1]
    BY <2>2
  <2>4. Builds(g, n + 1, I)
    BY <2>3 DEF Builds
  <2>. QED
    BY <2>4
<1>. HIDE DEF S
<1>3. Nat \subseteq S
  BY <1>1, <1>2, Induction
<1>. QED
  BY <1>3 DEF S

LEMMA ListsMore ==
  ASSUME NEW I, NEW k \in Nat, NEW s, Lists(s, k, I)
  PROVE  Lists(IF k + 1 \in I THEN Append(s, k + 1) ELSE s, k + 1, I)
<1>1. CASE k + 1 \notin I
  BY <1>1 DEF Lists
<1>2. CASE k + 1 \in I
  <2>. DEFINE t == Append(s, k + 1)
  <2>1. s \in Seq(1..k) /\ k + 1 \in 1..k + 1
    BY DEF Lists
  <2>2. /\ t \in Seq(1..k + 1) /\ DOMAIN t = 1..Len(s) + 1 /\ DOMAIN s = 1..Len(s) /\ Len(s) \in Nat
        /\ t[Len(s) + 1] = k + 1 /\ \A a \in DOMAIN s : t[a] = s[a] /\ s[a] \in 1..k
    BY <2>1
  <2>. HIDE DEF t
  <2>3. \A a \in DOMAIN t : t[a] \in I
    <3>1. \A a \in DOMAIN s : s[a] \in I
      BY DEF Lists
    <3>. QED
      BY <1>2, <2>2, <3>1
  <2>4. \A a, b \in DOMAIN t : a < b => t[a] < t[b]
    BY <2>2 DEF Lists
  <2>5. \A i \in I \cap (1..k + 1) : \E a \in DOMAIN t : t[a] = i
    <3>. SUFFICES ASSUME NEW i \in I \cap (1..k + 1) PROVE \E a \in DOMAIN t : t[a] = i
      OBVIOUS
    <3>1. CASE i = k + 1
      BY <2>2, <3>1
    <3>2. CASE i # k + 1
      <4>1. i \in I \cap (1..k)
        BY <3>2
      <4>2. PICK a \in DOMAIN s : s[a] = i
        BY <4>1 DEF Lists
      <4>. QED
        BY <2>2, <4>2
    <3>. QED
      BY <3>1, <3>2
  <2>6. Lists(t, k + 1, I)
    BY <2>2, <2>3, <2>4, <2>5 DEF Lists
  <2>. QED
    BY <1>2, <2>6 DEF t
<1>. QED
  BY <1>1, <1>2

LEMMA BuildsLists ==
  ASSUME NEW I, NEW n \in Nat, NEW g, Builds(g, n, I)
  PROVE  Lists(g[n], n, I)
<1>. DEFINE S == {k \in Nat : k <= n => Lists(g[k], k, I)}
<1>1. \A k \in 0..n : g[k] = IF k = 0 THEN <<>>
                             ELSE IF k \in I THEN Append(g[k - 1], k) ELSE g[k - 1]
  BY DEF Builds
<1>2. 0 \in S
  <2>1. g[0] = <<>>
    BY <1>1
  <2>2. Lists(<<>>, 0, I)
    BY DEF Lists
  <2>. QED
    BY <2>1, <2>2
<1>3. ASSUME NEW k \in Nat, k \in S PROVE k + 1 \in S
  <2>. SUFFICES ASSUME k + 1 <= n PROVE Lists(g[k + 1], k + 1, I)
    OBVIOUS
  <2>1. PICK s : s = g[k]
    OBVIOUS
  <2>2. Lists(s, k, I)
    BY <1>3, <2>1
  <2>3. g[k + 1] = IF k + 1 \in I THEN Append(s, k + 1) ELSE s
    BY <1>1, <2>1
  <2>. QED
    BY <2>2, <2>3, ListsMore
<1>. HIDE DEF S
<1>4. Nat \subseteq S
  BY <1>2, <1>3, Induction
<1>. QED
  BY <1>4 DEF S

(* Positions lists the numbers of I up to n in order. *)
LEMMA PositionsList ==
  ASSUME NEW n \in Nat, NEW I
  PROVE  Lists(Positions(n, I), n, I)
<1>. DEFINE g == CHOOSE h : Builds(h, n, I)
<1>1. Positions(n, I) = g[n]
  BY DEF Positions, Builds
<1>2. Builds(g, n, I)
  BY BuildsExists
<1>. HIDE DEF g
<1>. QED
  BY <1>1, <1>2, BuildsLists

(* Values in T at some of the first n numbers. *)
Gives(f, n, T) == DOMAIN f \subseteq 1..n /\ \A i \in DOMAIN f : f[i] \in T

(* A list of these values, and of all of them. *)
Gathered(s, f, T) ==
    /\ s \in Seq(T)
    /\ \A a \in DOMAIN s : \E i \in DOMAIN f : s[a] = f[i]
    /\ \A i \in DOMAIN f : \E a \in DOMAIN s : s[a] = f[i]

(* InOrder has what f has, and nothing else. *)
LEMMA InOrderIs ==
  ASSUME NEW n \in Nat, NEW f, NEW T, Gives(f, n, T)
  PROVE  Gathered(InOrder(n, f), f, T)
<1>. DEFINE D == DOMAIN f
<1>1. PICK at : at = Positions(n, D)
  OBVIOUS
<1>2. Lists(at, n, D)
  BY <1>1, PositionsList
<1>3. InOrder(n, f) = [k \in DOMAIN at |-> f[at[k]]]
  BY <1>1 DEF InOrder
<1>4. /\ at \in Seq(1..n) /\ \A a \in DOMAIN at : at[a] \in D
      /\ \A i \in D : \E a \in DOMAIN at : at[a] = i
  BY <1>2 DEF Lists, Gives
<1>5. DOMAIN at = 1..Len(at) /\ Len(at) \in Nat
  BY <1>4
<1>6. PICK u : u = InOrder(n, f)
  OBVIOUS
<1>7. u = [k \in 1..Len(at) |-> f[at[k]]] /\ \A k \in 1..Len(at) : f[at[k]] \in T
  BY <1>3, <1>4, <1>5, <1>6 DEF Gives
<1>8. u \in Seq(T) /\ DOMAIN u = 1..Len(at) /\ \A k \in 1..Len(at) : u[k] = f[at[k]]
  BY <1>5, <1>7
<1>9. \A a \in DOMAIN u : \E i \in D : u[a] = f[i]
  BY <1>4, <1>5, <1>8
<1>10. \A i \in D : \E a \in DOMAIN u : u[a] = f[i]
  BY <1>4, <1>5, <1>8
<1>. QED
  BY <1>6, <1>8, <1>9, <1>10 DEF Gathered

-----------------------------------------------------------------------------
(* What a scan of the text finds of each kind *)

Kinds == {"ssn", "phone", "email", "card"}

Spans == [kind : Kinds, start : Nat, stop : Nat]

(* What matches at a position has begun and not ended there. *)
Hits(hits, n) ==
    \A i \in DOMAIN hits :
        i \in 1..n /\ hits[i] \in Spans /\ hits[i].start <= i /\ i < hits[i].stop

(* The b-th match of s was reached at a position behind those before it. *)
Met(s, b, k, hits) ==
    \E j \in DOMAIN hits : j <= k /\ s[b] = hits[j] /\ \A a \in 1..b - 1 : s[a].stop <= j

(* A match of s holds this position. *)
Covered(s, i, hits) ==
    \E a \in DOMAIN s : \E j \in DOMAIN hits : s[a] = hits[j] /\ j <= i /\ i < hits[j].stop

(* What is known of a scan that has reached k. *)
Reached(s, k, hits) ==
    /\ s \in Seq(Spans)
    /\ \A b \in DOMAIN s : Met(s, b, k, hits)
    /\ \A i \in DOMAIN hits : i <= k => Covered(s, i, hits)

LEMMA LastEnds ==
  ASSUME NEW n \in Nat, NEW k \in Nat, NEW hits, Hits(hits, n), NEW s, Reached(s, k, hits), s # <<>>
  PROVE  /\ Last(s) \in Spans /\ \E j \in DOMAIN hits : j <= k /\ Last(s) = hits[j]
         /\ \A a \in DOMAIN s : s[a].stop <= Last(s).stop
<1>1. s \in Seq(Spans) /\ Len(s) \in Nat /\ Len(s) > 0 /\ DOMAIN s = 1..Len(s) /\ Last(s) = s[Len(s)]
  BY DEF Reached, Last
<1>2. PICK l \in Nat : l = Len(s)
  BY <1>1
<1>3. Met(s, l, k, hits) /\ l \in DOMAIN s
  BY <1>1, <1>2 DEF Reached
<1>4. PICK j \in DOMAIN hits : j <= k /\ s[l] = hits[j] /\ \A a \in 1..l - 1 : s[a].stop <= j
  BY <1>3 DEF Met
<1>5. hits[j] \in Spans /\ j < hits[j].stop /\ j \in Nat /\ hits[j].stop \in Nat
  BY DEF Hits, Spans
<1>6. \A a \in DOMAIN s : s[a].stop <= hits[j].stop
  <2>. TAKE a \in DOMAIN s
  <2>1. s[a] \in Spans /\ a \in 1..Len(s)
    BY <1>1
  <2>2. CASE a = l
    BY <1>4, <1>5, <2>2
  <2>3. CASE a # l
    <3>1. a \in 1..l - 1
      BY <1>1, <1>2, <2>3
    <3>2. s[a].stop <= j
      BY <1>4, <3>1
    <3>3. s[a].stop \in Nat
      BY <2>1 DEF Spans
    <3>. QED
      BY <1>5, <3>2, <3>3
  <2>. QED
    BY <2>2, <2>3
<1>. QED
  BY <1>1, <1>2, <1>4, <1>5, <1>6

LEMMA ReachedMore ==
  ASSUME NEW n \in Nat, NEW k \in Nat, NEW hits, Hits(hits, n), NEW s, Reached(s, k, hits),
         NEW p, p = k + 1
  PROVE  Reached(IF p \in DOMAIN hits /\ Behind(s, p) THEN Append(s, hits[p]) ELSE s, p, hits)
<1>1. s \in Seq(Spans) /\ Len(s) \in Nat /\ DOMAIN s = 1..Len(s) /\ k <= p /\ p \in Nat
  BY DEF Reached
<1>2. \A b \in DOMAIN s : Met(s, b, p, hits)
  <2>. TAKE b \in DOMAIN s
  <2>1. PICK j \in DOMAIN hits : j <= k /\ s[b] = hits[j] /\ \A a \in 1..b - 1 : s[a].stop <= j
    BY DEF Reached, Met
  <2>2. j <= p
    BY <1>1, <2>1 DEF Hits
  <2>. QED
    BY <2>1, <2>2 DEF Met
<1>3. \A i \in DOMAIN hits : i <= p => i <= k \/ i = p
  BY DEF Hits
<1>4. CASE p \in DOMAIN hits /\ Behind(s, p)
  <2>1. PICK m : m = hits[p]
    OBVIOUS
  <2>2. m \in Spans /\ p < m.stop /\ m.stop \in Nat
    BY <1>4, <2>1 DEF Hits, Spans
  <2>3. PICK t : t = Append(s, m)
    OBVIOUS
  <2>4. /\ t \in Seq(Spans) /\ Len(t) = Len(s) + 1 /\ DOMAIN t = 1..Len(s) + 1
        /\ t[Len(s) + 1] = m /\ \A a \in DOMAIN s : t[a] = s[a]
    BY <1>1, <2>2, <2>3
  <2>5. \A a \in DOMAIN s : s[a].stop <= p
    <3>. TAKE a \in DOMAIN s
    <3>1. s # <<>>
      BY <1>1
    <3>2. Last(s) \in Spans /\ s[a].stop <= Last(s).stop
      BY <3>1, LastEnds
    <3>3. Last(s).stop <= p
      BY <1>4, <3>1 DEF Behind
    <3>4. s[a] \in Spans
      BY <1>1
    <3>5. Last(s).stop \in Nat /\ s[a].stop \in Nat
      BY <3>2, <3>4 DEF Spans
    <3>. QED
      BY <1>1, <3>2, <3>3, <3>5
  <2>6. \A b \in DOMAIN t : Met(t, b, p, hits)
    <3>. TAKE b \in DOMAIN t
    <3>1. CASE b = Len(s) + 1
      <4>1. \A a \in 1..b - 1 : t[a].stop <= p
        BY <1>1, <2>4, <2>5, <3>1
      <4>. QED
        BY <1>1, <1>4, <2>1, <2>4, <3>1, <4>1 DEF Met
    <3>2. CASE b # Len(s) + 1
      <4>1. b \in DOMAIN s
        BY <1>1, <2>4, <3>2
      <4>2. PICK j \in DOMAIN hits : j <= p /\ s[b] = hits[j] /\ \A a \in 1..b - 1 : s[a].stop <= j
        BY <1>2, <4>1 DEF Met
      <4>3. \A a \in 1..b - 1 : t[a].stop <= j
        BY <1>1, <2>4, <4>1, <4>2
      <4>. QED
        BY <2>4, <4>1, <4>2, <4>3 DEF Met
    <3>. QED
      BY <3>1, <3>2
  <2>7. \A i \in DOMAIN hits : i <= p => Covered(t, i, hits)
    <3>. SUFFICES ASSUME NEW i \in DOMAIN hits, i <= p PROVE Covered(t, i, hits)
      OBVIOUS
    <3>1. CASE i = p
      <4>1. Len(s) + 1 \in DOMAIN t /\ t[Len(s) + 1] = hits[i] /\ i <= i /\ i < hits[i].stop
        BY <1>1, <2>1, <2>2, <2>4, <3>1
      <4>. QED
        BY <4>1 DEF Covered
    <3>2. CASE i # p
      <4>1. Covered(s, i, hits)
        BY <1>3, <3>2 DEF Reached
      <4>2. PICK a \in DOMAIN s : \E j \in DOMAIN hits : s[a] = hits[j] /\ j <= i /\ i < hits[j].stop
        BY <4>1 DEF Covered
      <4>3. a \in DOMAIN t /\ t[a] = s[a]
        BY <1>1, <2>4
      <4>. QED
        BY <4>2, <4>3 DEF Covered
    <3>. QED
      BY <3>1, <3>2
  <2>8. Reached(t, p, hits)
    BY <2>4, <2>6, <2>7 DEF Reached
  <2>. QED
    BY <1>4, <2>1, <2>3, <2>8
<1>5. CASE p \in DOMAIN hits /\ ~Behind(s, p)
  <2>1. s # <<>> /\ ~(Last(s).stop <= p)
    BY <1>5 DEF Behind
  <2>2. PICK j \in DOMAIN hits : j <= k /\ Last(s) = hits[j] /\ Last(s) \in Spans
    BY <2>1, LastEnds
  <2>3. j <= p /\ p < hits[j].stop
    <3>1. hits[j].stop \in Nat /\ j \in Nat
      BY <2>2 DEF Hits, Spans
    <3>. QED
      BY <1>1, <2>1, <2>2, <3>1
  <2>4. Len(s) \in DOMAIN s /\ s[Len(s)] = hits[j]
    BY <1>1, <2>1, <2>2 DEF Last
  <2>5. Covered(s, p, hits)
    BY <2>3, <2>4 DEF Covered
  <2>6. \A i \in DOMAIN hits : i <= p => Covered(s, i, hits)
    BY <1>3, <2>5 DEF Reached
  <2>. QED
    BY <1>1, <1>2, <1>5, <2>6 DEF Reached
<1>6. CASE p \notin DOMAIN hits
  <2>1. \A i \in DOMAIN hits : i <= p => Covered(s, i, hits)
    BY <1>3, <1>6 DEF Reached
  <2>. QED
    BY <1>1, <1>2, <1>6, <2>1 DEF Reached
<1>. QED
  BY <1>4, <1>5, <1>6

(* What Scan's recursion has at each of the first n positions. *)
Goes(g, n, hits) ==
    g = [i \in 0..n |->
            IF i = 0 THEN <<>>
            ELSE IF i \in DOMAIN hits /\ Behind(g[i - 1], i) THEN Append(g[i - 1], hits[i])
            ELSE g[i - 1]]

LEMMA GoesExists ==
  ASSUME NEW hits
  PROVE  \A n \in Nat : \E g : Goes(g, n, hits)
<1>. DEFINE S == {n \in Nat : \E g : Goes(g, n, hits)}
            next(s, i) == IF i \in DOMAIN hits /\ Behind(s, i) THEN Append(s, hits[i]) ELSE s
<1>. HIDE DEF next
<1>0. \A n \in Nat : \A g : Goes(g, n, hits) <=> g = [i \in 0..n |-> IF i = 0 THEN <<>> ELSE next(g[i - 1], i)]
  BY DEF Goes, next
<1>1. 0 \in S
  <2>1. Goes([k \in 0..0 |-> <<>>], 0, hits)
    BY DEF Goes
  <2>. QED
    BY <2>1
<1>2. ASSUME NEW n \in Nat, n \in S PROVE n + 1 \in S
  <2>1. PICK h : Goes(h, n, hits)
    BY <1>2
  <2>. DEFINE last == next(h[n], n + 1)
              g == [k \in 0..n + 1 |-> IF k = n + 1 THEN last ELSE h[k]]
  <2>2. \A k \in 0..n : h[k] = IF k = 0 THEN <<>> ELSE next(h[k - 1], k)
    BY <1>0, <2>1
  <2>3. \A k \in 0..n + 1 : g[k] = IF k = 0 THEN <<>> ELSE next(g[k - 1], k)
    BY <2>2
  <2>4. g = [k \in 0..n + 1 |-> IF k = 0 THEN <<>> ELSE next(g[k - 1], k)]
    BY <2>3
  <2>5. Goes(g, n + 1, hits)
    BY <1>0, <2>4
  <2>. QED
    BY <2>5
<1>. HIDE DEF S
<1>3. Nat \subseteq S
  BY <1>1, <1>2, Induction
<1>. QED
  BY <1>3 DEF S

LEMMA ScanReaches ==
  ASSUME NEW n \in Nat, NEW hits, Hits(hits, n)
  PROVE  Reached(Scan(n, hits), n, hits)
<1>1. PICK g : Goes(g, n, hits) /\ Scan(n, hits) = g[n]
  <2>. DEFINE g == CHOOSE h : Goes(h, n, hits)
  <2>1. Scan(n, hits) = g[n]
    BY DEF Scan, Goes
  <2>2. Goes(g, n, hits)
    BY GoesExists
  <2>. QED
    BY <2>1, <2>2
<1>. DEFINE S == {k \in Nat : k <= n => Reached(g[k], k, hits)}
<1>2. 0 \in S
  <2>1. g[0] = <<>>
    BY <1>1 DEF Goes
  <2>2. Reached(<<>>, 0, hits)
    <3>1. \A i \in DOMAIN hits : ~(i <= 0)
      BY DEF Hits
    <3>. QED
      BY <3>1 DEF Reached
  <2>. QED
    BY <2>1, <2>2
<1>3. ASSUME NEW k \in Nat, k \in S PROVE k + 1 \in S
  <2>. SUFFICES ASSUME k + 1 <= n PROVE Reached(g[k + 1], k + 1, hits)
    OBVIOUS
  <2>1. PICK s : s = g[k]
    OBVIOUS
  <2>2. PICK p \in Nat : p = k + 1
    OBVIOUS
  <2>3. Reached(s, k, hits) /\ p \in 0..n /\ p # 0 /\ p - 1 = k
    BY <1>3, <2>1, <2>2
  <2>4. g[p] = IF p \in DOMAIN hits /\ Behind(s, p) THEN Append(s, hits[p]) ELSE s
    BY <1>1, <2>1, <2>3 DEF Goes
  <2>. QED
    BY <2>2, <2>3, <2>4, ReachedMore
<1>. HIDE DEF S
<1>4. Nat \subseteq S
  BY <1>2, <1>3, Induction
<1>. QED
  BY <1>1, <1>4 DEF S

-----------------------------------------------------------------------------
(* Matches in a text of n characters. *)
Within(n) == {m \in Spans : 1 <= m.start /\ m.start < m.stop /\ m.stop <= n + 1}

LEMMA PatternsHave ==
  ASSUME NEW sep
  PROVE  /\ Len(Ssn) = 14 /\ DOMAIN Ssn = 1..14
         /\ Len(Mobile) = 13 /\ DOMAIN Mobile = 1..13
         /\ Len(Landline) = 11 /\ DOMAIN Landline = 1..11
         /\ Len(Card(sep)) = 19 /\ DOMAIN Card(sep) = 1..19
         /\ Len(BareCard) = 16 /\ DOMAIN BareCard = 1..16
<1>1. Len(Ssn) = 14 /\ DOMAIN Ssn = 1..14
  BY DEF Ssn
<1>2. Len(Mobile) = 13 /\ DOMAIN Mobile = 1..13
  BY DEF Mobile
<1>3. Len(Landline) = 11 /\ DOMAIN Landline = 1..11
  BY DEF Landline
<1>4. Len(Card(sep)) = 19 /\ DOMAIN Card(sep) = 1..19
  BY DEF Card
<1>5. Len(BareCard) = 16 /\ DOMAIN BareCard = 1..16
  BY DEF BareCard
<1>. QED
  BY <1>1, <1>2, <1>3, <1>4, <1>5

(* Every hit is a match of the kind, in the text. *)
Hitting(hits, n, kind) ==
    \A i \in DOMAIN hits :
        i \in 1..n /\ hits[i] \in Within(n) /\ hits[i].kind = kind
                   /\ hits[i].start <= i /\ i < hits[i].stop

LEMMA FoundHitting ==
  ASSUME NEW S, NEW text \in Seq(S), NEW n \in Nat, Len(text) = n, NEW kind \in Kinds,
         NEW pattern, NEW l \in Nat, Len(pattern) = l, l > 0,
         NEW at, at \subseteq Standing(text, pattern)
  PROVE  /\ Hitting(Found(kind, at, pattern), n, kind)
         /\ DOMAIN Found(kind, at, pattern) = at
         /\ \A i \in at : Found(kind, at, pattern)[i] = Span(kind, i, i + l)
<1>1. \A i \in at : i \in 1..n /\ i + l <= n + 1
  BY DEF Standing, At
<1>2. PICK f : f = Found(kind, at, pattern)
  OBVIOUS
<1>3. DOMAIN f = at /\ \A i \in at : f[i] = Span(kind, i, i + l)
  BY <1>2 DEF Found
<1>4. \A i \in at : /\ Span(kind, i, i + l) \in Within(n) /\ Span(kind, i, i + l).kind = kind
                    /\ Span(kind, i, i + l).start = i /\ Span(kind, i, i + l).stop = i + l
  BY <1>1 DEF Span, Within, Spans
<1>5. Hitting(f, n, kind)
  BY <1>1, <1>3, <1>4 DEF Hitting
<1>. QED
  BY <1>2, <1>3, <1>5

LEMMA EitherHitting ==
  ASSUME NEW n \in Nat, NEW kind, NEW f, Hitting(f, n, kind), NEW g, Hitting(g, n, kind)
  PROVE  Hitting(Either(f, g), n, kind) /\ DOMAIN Either(f, g) = DOMAIN f \cup DOMAIN g
<1>1. PICK h : h = Either(f, g)
  OBVIOUS
<1>2. DOMAIN h = DOMAIN f \cup DOMAIN g /\ \A i \in DOMAIN h : h[i] = IF i \in DOMAIN f THEN f[i] ELSE g[i]
  BY <1>1 DEF Either
<1>3. Hitting(h, n, kind)
  BY <1>2 DEF Hitting
<1>. QED
  BY <1>1, <1>2, <1>3

(* What a scan finds, and that it finds something at every hit. *)
LEMMA ScanIs ==
  ASSUME NEW n \in Nat, NEW kind, NEW hits, Hitting(hits, n, kind)
  PROVE  /\ Scan(n, hits) \in Seq(Within(n))
         /\ \A b \in DOMAIN Scan(n, hits) : /\ Scan(n, hits)[b].kind = kind
                                            /\ \E j \in DOMAIN hits : Scan(n, hits)[b] = hits[j]
         /\ \A i \in DOMAIN hits : Covered(Scan(n, hits), i, hits)
<1>1. Hits(hits, n)
  BY DEF Hitting, Hits, Within
<1>2. PICK s : s = Scan(n, hits) /\ Reached(s, n, hits)
  BY <1>1, ScanReaches
<1>3. s \in Seq(Spans) /\ DOMAIN s = 1..Len(s)
  BY <1>2 DEF Reached
<1>4. \A b \in DOMAIN s : \E j \in DOMAIN hits : s[b] = hits[j]
  BY <1>2 DEF Reached, Met
<1>5. \A b \in DOMAIN s : s[b] \in Within(n) /\ s[b].kind = kind
  BY <1>4 DEF Hitting
<1>6. s \in Seq(Within(n))
  BY <1>3, <1>5
<1>7. \A i \in DOMAIN hits : Covered(s, i, hits)
  BY <1>2 DEF Reached, Hitting
<1>. QED
  BY <1>2, <1>4, <1>5, <1>6, <1>7

(* The matches of one kind, in a text of n characters. *)
OfKind(s, n, kind) == s \in Seq(Within(n)) /\ \A m \in Range(s) : m.kind = kind

LEMMA SsnsAre ==
  ASSUME NEW S, NEW text \in Seq(S), NEW n \in Nat, Len(text) = n
  PROVE  /\ OfKind(Ssns(text), n, "ssn")
         /\ \A i \in Standing(text, Ssn) : Span("ssn", i, i + 14) \in Range(Ssns(text))
         /\ \A m \in Range(Ssns(text)) : \E i \in Standing(text, Ssn) : m = Span("ssn", i, i + 14)
<1>. DEFINE at == Standing(text, Ssn)
<1>1. PICK f : f = Found("ssn", at, Ssn)
  OBVIOUS
<1>2. Hitting(f, n, "ssn") /\ DOMAIN f = at /\ \A i \in at : f[i] = Span("ssn", i, i + 14)
  <2>1. PICK l \in Nat : l = 14
    OBVIOUS
  <2>2. Len(Ssn) = l /\ l > 0 /\ "ssn" \in Kinds
    BY <2>1, PatternsHave DEF Kinds
  <2>3. Hitting(f, n, "ssn") /\ DOMAIN f = at /\ \A i \in at : f[i] = Span("ssn", i, i + l)
    BY <1>1, <2>2, FoundHitting
  <2>. QED
    BY <2>1, <2>3
<1>3. at \subseteq 1..n /\ \A i \in at : f[i] \in Within(n) /\ f[i].kind = "ssn"
  BY <1>2 DEF Hitting
<1>4. PICK s : s = InOrder(n, f)
  OBVIOUS
<1>5. Ssns(text) = s
  BY <1>1, <1>4 DEF Ssns
<1>6. /\ s \in Seq(Within(n))
      /\ \A a \in DOMAIN s : \E i \in at : s[a] = f[i]
      /\ \A i \in at : \E a \in DOMAIN s : s[a] = f[i]
  <2>1. Gives(f, n, Within(n))
    BY <1>2, <1>3 DEF Gives
  <2>2. Gathered(s, f, Within(n))
    BY <1>4, <2>1, InOrderIs
  <2>. QED
    BY <1>2, <2>2 DEF Gathered
<1>. HIDE DEF at
<1>7. \A i \in at : Span("ssn", i, i + 14) \in Range(s)
  BY <1>2, <1>6 DEF Range
<1>8. \A m \in Range(s) : \E i \in at : m = f[i]
  BY <1>6 DEF Range
<1>9. OfKind(s, n, "ssn")
  BY <1>3, <1>6, <1>8 DEF OfKind
<1>. QED
  BY <1>2, <1>5, <1>7, <1>8, <1>9 DEF at

(* What a scan for two patterns, of l and of k characters, finds. *)
EitherFound(s, n, kind, atP, l, atQ, k) ==
    /\ OfKind(s, n, kind)
    /\ \A m \in Range(s) :
          \/ m.start \in atP /\ m.stop = m.start + l
          \/ m.start \in atQ /\ m.stop = m.start + k
    /\ \A i \in atP \cup atQ : \E m \in Range(s) : m.start <= i /\ i < m.stop

LEMMA EitherIs ==
  ASSUME NEW S, NEW text \in Seq(S), NEW n \in Nat, Len(text) = n, NEW kind \in Kinds,
         NEW p, NEW l \in Nat, Len(p) = l, l > 0, NEW atP, atP \subseteq Standing(text, p),
         NEW q, NEW k \in Nat, Len(q) = k, k > 0, NEW atQ, atQ \subseteq Standing(text, q),
         NEW s, s = Scan(n, Either(Found(kind, atP, p), Found(kind, atQ, q)))
  PROVE  EitherFound(s, n, kind, atP, l, atQ, k)
<1>1. PICK f, g : f = Found(kind, atP, p) /\ g = Found(kind, atQ, q)
  OBVIOUS
<1>2. /\ Hitting(f, n, kind) /\ DOMAIN f = atP /\ \A i \in atP : f[i] = Span(kind, i, i + l)
      /\ Hitting(g, n, kind) /\ DOMAIN g = atQ /\ \A i \in atQ : g[i] = Span(kind, i, i + k)
  <2>1. Hitting(f, n, kind) /\ DOMAIN f = atP /\ \A i \in atP : f[i] = Span(kind, i, i + l)
    BY <1>1, FoundHitting
  <2>2. Hitting(g, n, kind) /\ DOMAIN g = atQ /\ \A i \in atQ : g[i] = Span(kind, i, i + k)
    BY <1>1, FoundHitting
  <2>. QED
    BY <2>1, <2>2
<1>3. PICK h : h = Either(f, g)
  OBVIOUS
<1>4. /\ Hitting(h, n, kind) /\ DOMAIN h = atP \cup atQ
      /\ \A i \in DOMAIN h : h[i] = IF i \in DOMAIN f THEN f[i] ELSE g[i]
  <2>1. Hitting(h, n, kind)
    BY <1>2, <1>3, EitherHitting
  <2>. QED
    BY <1>2, <1>3, <2>1 DEF Either
<1>5. s = Scan(n, h)
  BY <1>1, <1>3
<1>6. /\ s \in Seq(Within(n))
      /\ \A b \in DOMAIN s : s[b].kind = kind /\ \E j \in DOMAIN h : s[b] = h[j]
      /\ \A i \in DOMAIN h : Covered(s, i, h)
  BY <1>4, <1>5, ScanIs
<1>7. OfKind(s, n, kind)
  BY <1>6 DEF OfKind, Range
<1>8. \A j \in DOMAIN h : \/ j \in atP /\ h[j] = Span(kind, j, j + l)
                          \/ j \in atQ /\ h[j] = Span(kind, j, j + k)
  BY <1>2, <1>4
<1>9. \A j \in DOMAIN h : h[j].start = j
  BY <1>8 DEF Span
<1>10. ASSUME NEW m \in Range(s)
       PROVE  \/ m.start \in atP /\ m.stop = m.start + l
              \/ m.start \in atQ /\ m.stop = m.start + k
  <2>1. PICK j \in DOMAIN h : m = h[j]
    BY <1>6 DEF Range
  <2>. QED
    BY <1>8, <2>1 DEF Span
<1>11. ASSUME NEW i \in atP \cup atQ
       PROVE  \E m \in Range(s) : m.start <= i /\ i < m.stop
  <2>1. PICK a \in DOMAIN s : \E j \in DOMAIN h : s[a] = h[j] /\ j <= i /\ i < h[j].stop
    BY <1>4, <1>6 DEF Covered
  <2>2. s[a].start <= i /\ i < s[a].stop
    BY <1>9, <2>1
  <2>. QED
    BY <2>2 DEF Range
<1>. QED
  BY <1>7, <1>10, <1>11 DEF EitherFound

LEMMA PhonesAre ==
  ASSUME NEW S, NEW text \in Seq(S), NEW n \in Nat, Len(text) = n
  PROVE  /\ OfKind(Phones(text), n, "phone")
         /\ \A m \in Range(Phones(text)) :
               \/ m.start \in Standing(text, Mobile) /\ m.stop = m.start + 13
               \/ m.start \in Standing(text, Landline) /\ m.stop = m.start + 11
         /\ \A i \in Standing(text, Mobile) \cup Standing(text, Landline) :
               \E m \in Range(Phones(text)) : m.start <= i /\ i < m.stop
<1>1. PICK s, p, q : s = Phones(text) /\ p = Standing(text, Mobile) /\ q = Standing(text, Landline)
  OBVIOUS
<1>2. s = Scan(n, Either(Found("phone", p, Mobile), Found("phone", q, Landline)))
  BY <1>1 DEF Phones
<1>3. /\ OfKind(s, n, "phone")
      /\ \A m \in Range(s) :
            \/ m.start \in p /\ m.stop = m.start + 13
            \/ m.start \in q /\ m.stop = m.start + 11
      /\ \A i \in p \cup q : \E m \in Range(s) : m.start <= i /\ i < m.stop
  <2>0. PICK l, k \in Nat : l = 13 /\ k = 11
    OBVIOUS
  <2>1. Len(Mobile) = l /\ Len(Landline) = k /\ "phone" \in Kinds /\ l \in Nat /\ l > 0 /\ k > 0
    BY <2>0, PatternsHave DEF Kinds
  <2>2. p \subseteq Standing(text, Mobile) /\ q \subseteq Standing(text, Landline)
    BY <1>1
  <2>3. EitherFound(s, n, "phone", p, l, q, k)
    BY <1>2, <2>1, <2>2, EitherIs
  <2>. QED
    BY <2>0, <2>3 DEF EitherFound
<1>. QED
  BY <1>1, <1>3

LEMMA SeparatedCardsAre ==
  ASSUME NEW S, NEW text \in Seq(S), NEW n \in Nat, Len(text) = n
  PROVE  /\ OfKind(SeparatedCards(text), n, "card")
         /\ \A m \in Range(SeparatedCards(text)) :
               /\ m.stop = m.start + 19
               /\ \/ m.start \in Standing(text, Card("-"))
                  \/ m.start \in StandingAlone(text, Card(" "))
         /\ \A i \in Standing(text, Card("-")) \cup StandingAlone(text, Card(" ")) :
               \E m \in Range(SeparatedCards(text)) : m.start <= i /\ i < m.stop
<1>1. PICK s, p, q : /\ s = SeparatedCards(text)
                     /\ p = Standing(text, Card("-")) /\ q = StandingAlone(text, Card(" "))
  OBVIOUS
<1>2. s = Scan(n, Either(Found("card", p, Card("-")), Found("card", q, Card(" "))))
  BY <1>1 DEF SeparatedCards
<1>3. /\ OfKind(s, n, "card")
      /\ \A m \in Range(s) :
            \/ m.start \in p /\ m.stop = m.start + 19
            \/ m.start \in q /\ m.stop = m.start + 19
      /\ \A i \in p \cup q : \E m \in Range(s) : m.start <= i /\ i < m.stop
  <2>0. PICK l \in Nat : l = 19
    OBVIOUS
  <2>1. Len(Card("-")) = l /\ Len(Card(" ")) = l /\ "card" \in Kinds /\ l > 0
    <3>1. Len(Card("-")) = l
      BY <2>0, PatternsHave
    <3>2. Len(Card(" ")) = l
      BY <2>0, PatternsHave
    <3>3. "card" \in Kinds /\ l > 0
      BY <2>0 DEF Kinds
    <3>. QED
      BY <3>1, <3>2, <3>3
  <2>2. p \subseteq Standing(text, Card("-")) /\ q \subseteq Standing(text, Card(" "))
    BY <1>1 DEF Standing, StandingAlone, Alone
  <2>3. EitherFound(s, n, "card", p, l, q, l)
    BY <1>2, <2>1, <2>2, EitherIs
  <2>. QED
    BY <2>0, <2>3 DEF EitherFound
<1>. QED
  BY <1>1, <1>3

LEMMA EmailEnds ==
  ASSUME NEW S, NEW text \in Seq(S), NEW n \in Nat, Len(text) = n, NEW i \in 1..n
  PROVE  /\ EmailFrom(text, i) \in 1..i
         /\ \A j \in EmailFrom(text, i)..(i - 1) : text[j] \in LocalPart
         /\ \A k \in 1..i : (\A j \in k..(i - 1) : text[j] \in LocalPart) => EmailFrom(text, i) <= k
         /\ EmailTo(text, i) \in (i + 1)..(n + 1)
         /\ \A j \in (i + 1)..(EmailTo(text, i) - 1) : text[j] \in Domain
         /\ \A k \in (i + 1)..(n + 1) :
               (\A j \in (i + 1)..(k - 1) : text[j] \in Domain) => k <= EmailTo(text, i)
<1>. DEFINE local(k) == \A j \in k..(i - 1) : text[j] \in LocalPart
            domain(k) == \A j \in (i + 1)..(k - 1) : text[j] \in Domain
            from == {k \in 1..i : local(k)}
            to == {k \in (i + 1)..(n + 1) : domain(k)}
<1>1. from \subseteq 0..n + 1 /\ from # {}
  <2>1. i \in 1..i /\ i..(i - 1) = {}
    OBVIOUS
  <2>2. local(i)
    BY <2>1
  <2>. HIDE DEF local
  <2>. QED
    BY <2>1, <2>2
<1>2. to \subseteq 0..n + 1 /\ to # {}
  <2>1. i + 1 \in (i + 1)..(n + 1) /\ (i + 1)..((i + 1) - 1) = {}
    OBVIOUS
  <2>2. domain(i + 1)
    BY <2>1
  <2>. HIDE DEF domain
  <2>. QED
    BY <2>1, <2>2
<1>3. EmailFrom(text, i) = Min(from) /\ EmailTo(text, i) = Max(to)
  BY DEF EmailFrom, EmailTo
<1>4. PICK f, t : f = EmailFrom(text, i) /\ t = EmailTo(text, i)
  OBVIOUS
<1>5. f \in from /\ t \in to /\ (\A k \in from : f <= k) /\ (\A k \in to : k <= t)
  <2>1. PICK B \in Nat : B = n + 1
    OBVIOUS
  <2>2. from \subseteq 0..B /\ to \subseteq 0..B
    BY <1>1, <1>2, <2>1
  <2>. HIDE DEF from, to
  <2>3. Min(from) \in from /\ \A k \in from : Min(from) <= k
    BY <1>1, <2>2, LeastAndGreatest
  <2>4. Max(to) \in to /\ \A k \in to : k <= Max(to)
    BY <1>2, <2>2, LeastAndGreatest
  <2>. QED
    BY <1>3, <1>4, <2>3, <2>4
<1>. QED
  BY <1>4, <1>5

LEMMA EmailsAre ==
  ASSUME NEW S, NEW text \in Seq(S), NEW n \in Nat, Len(text) = n
  PROVE  /\ OfKind(Emails(text), n, "email")
         /\ \A m \in Range(Emails(text)) :
               \E i \in 1..n : IsEmail(text, i) /\ m = Span("email", EmailFrom(text, i), EmailTo(text, i))
         /\ \A i \in 1..n :
               IsEmail(text, i) => Span("email", EmailFrom(text, i), EmailTo(text, i)) \in Range(Emails(text))
<1>1. PICK at : at = {i \in 1..n : IsEmail(text, i)}
  OBVIOUS
<1>2. PICK h : h = [i \in at |-> Span("email", EmailFrom(text, i), EmailTo(text, i))]
  OBVIOUS
<1>3. PICK s : s = Emails(text)
  OBVIOUS
<1>4. s = Scan(n, h)
  <2>1. DOMAIN text = 1..n
    OBVIOUS
  <2>. QED
    BY <1>1, <1>2, <1>3, <2>1 DEF Emails
<1>5. DOMAIN h = at /\ \A i \in at : h[i] = Span("email", EmailFrom(text, i), EmailTo(text, i))
  BY <1>2
<1>6. ASSUME NEW i \in at
      PROVE  /\ i \in 1..n /\ h[i] \in Within(n) /\ h[i].kind = "email"
             /\ h[i].start <= i /\ i < h[i].stop
  <2>1. PICK f, t : f = EmailFrom(text, i) /\ t = EmailTo(text, i)
    OBVIOUS
  <2>2. i \in 1..n /\ f \in 1..i /\ t \in (i + 1)..(n + 1)
    BY <1>1, <2>1, EmailEnds
  <2>3. h[i] = [kind |-> "email", start |-> f, stop |-> t]
    BY <1>5, <2>1 DEF Span
  <2>4. h[i] \in Within(n)
    BY <2>2, <2>3 DEF Within, Spans, Kinds
  <2>. QED
    BY <2>2, <2>3, <2>4
<1>7. Hitting(h, n, "email")
  BY <1>5, <1>6 DEF Hitting
<1>8. /\ s \in Seq(Within(n))
      /\ \A b \in DOMAIN s : s[b].kind = "email" /\ \E j \in DOMAIN h : s[b] = h[j]
      /\ \A i \in DOMAIN h : Covered(s, i, h)
  BY <1>4, <1>7, ScanIs
<1>9. OfKind(s, n, "email")
  BY <1>8 DEF OfKind, Range
<1>10. \A m \in Range(s) : \E i \in at : m = h[i]
  BY <1>5, <1>8 DEF Range
<1>11. ASSUME NEW i \in at PROVE h[i] \in Range(s)
  <2>1. PICK a \in DOMAIN s : \E j \in at : s[a] = h[j] /\ j <= i /\ i < h[j].stop
    BY <1>5, <1>8 DEF Covered
  <2>2. PICK j \in at : s[a] = h[j] /\ j <= i /\ i < h[j].stop
    BY <2>1
  <2>3. text[i] = "@" /\ j \in 1..n /\ i \in 1..n
    BY <1>1 DEF IsEmail
  <2>4. h[j].stop = EmailTo(text, j)
    BY <1>5 DEF Span
  <2>5. \A k \in (j + 1)..(EmailTo(text, j) - 1) : text[k] \in Domain
    BY <2>3, EmailEnds
  <2>6. "@" \notin Domain
    BY DEF Domain, Digit
  <2>7. EmailTo(text, j) \in Nat
    BY <2>3, EmailEnds
  <2>8. i = j
    BY <2>2, <2>3, <2>4, <2>5, <2>6, <2>7
  <2>. QED
    BY <2>2, <2>8 DEF Range
<1>12. \A i \in 1..n : IsEmail(text, i) => i \in at
  BY <1>1
<1>13. \A i \in at : i \in 1..n /\ IsEmail(text, i)
  BY <1>1
<1>. QED
  BY <1>3, <1>5, <1>9, <1>10, <1>11, <1>12, <1>13

(* A bare card that stands alone is found, or held by another match. *)
LEMMA BareCardsAre ==
  ASSUME NEW S, NEW text \in Seq(S), NEW n \in Nat, Len(text) = n, NEW before
  PROVE  /\ OfKind(BareCards(text, before), n, "card")
         /\ \A m \in Range(BareCards(text, before)) :
               m.start \in StandingAlone(text, BareCard) /\ m.stop = m.start + 16
         /\ \A i \in StandingAlone(text, BareCard) :
               \/ \E m \in Range(BareCards(text, before)) : m.start = i
               \/ \E o \in Range(before) : o.start <= i /\ i + 16 <= o.stop
<1>1. PICK at : at = StandingAlone(text, BareCard)
  OBVIOUS
<1>2. PICK f : f = Found("card", at, BareCard)
  OBVIOUS
<1>3. at \subseteq Standing(text, BareCard)
  BY <1>1 DEF Standing, StandingAlone, Alone
<1>4. Hitting(f, n, "card") /\ DOMAIN f = at /\ \A i \in at : f[i] = Span("card", i, i + 16)
  <2>1. PICK l \in Nat : l = 16
    OBVIOUS
  <2>2. Len(BareCard) = l /\ l > 0 /\ "card" \in Kinds
    BY <2>1, PatternsHave DEF Kinds
  <2>3. Hitting(f, n, "card") /\ DOMAIN f = at /\ \A i \in at : f[i] = Span("card", i, i + l)
    BY <1>2, <1>3, <2>2, FoundHitting
  <2>. QED
    BY <2>1, <2>3
<1>5. PICK bare : bare = Scan(n, f)
  OBVIOUS
<1>6. /\ bare \in Seq(Within(n))
      /\ \A b \in DOMAIN bare : bare[b].kind = "card" /\ \E j \in at : bare[b] = f[j]
      /\ \A i \in at : Covered(bare, i, f)
  BY <1>4, <1>5, ScanIs
<1>7. ASSUME NEW i \in at PROVE \E a \in DOMAIN bare : bare[a] = Span("card", i, i + 16)
  <2>1. PICK a \in DOMAIN bare : \E j \in at : bare[a] = f[j] /\ j <= i /\ i < f[j].stop
    BY <1>4, <1>6 DEF Covered
  <2>2. PICK j \in at : bare[a] = f[j] /\ j <= i /\ i < f[j].stop
    BY <2>1
  <2>3. f[j].stop = j + 16
    BY <1>4 DEF Span
  <2>4. Alone(text, i, BareCard) /\ At(text, j, BareCard) /\ i \in 1..n /\ j \in 1..n
    BY <1>1 DEF StandingAlone, Alone
  <2>5. ASSUME j < i PROVE FALSE
    <3>1. PICK k \in 1..16 : k = i - j
      BY <2>2, <2>3, <2>4, <2>5
    <3>2. text[j + k - 1] \in Digit
      BY <2>4, PatternsHave DEF At, BareCard
    <3>3. j + k - 1 = i - 1
      BY <2>4, <3>1
    <3>4. i # 1
      BY <2>4, <2>5
    <3>. QED
      BY <2>4, <3>2, <3>3, <3>4 DEF Alone
  <2>6. j = i
    BY <2>2, <2>4, <2>5
  <2>. QED
    BY <1>4, <2>2, <2>6
<1>8. PICK kept : kept = {k \in DOMAIN bare :
            ~\E o \in Range(before) : o.start <= bare[k].start /\ bare[k].stop <= o.stop}
  OBVIOUS
<1>9. PICK g : g = [k \in kept |-> bare[k]]
  OBVIOUS
<1>10. PICK s : s = BareCards(text, before)
  OBVIOUS
<1>11. Len(bare) \in Nat /\ DOMAIN bare = 1..Len(bare)
  BY <1>6
<1>12. s = InOrder(Len(bare), g)
  BY <1>1, <1>2, <1>5, <1>8, <1>9, <1>10 DEF BareCards
<1>13. DOMAIN g = kept /\ kept \subseteq 1..Len(bare) /\ \A k \in kept : g[k] = bare[k] /\ bare[k] \in Within(n)
  BY <1>6, <1>8, <1>9, <1>11
<1>14. /\ s \in Seq(Within(n))
       /\ \A a \in DOMAIN s : \E k \in kept : s[a] = g[k]
       /\ \A k \in kept : \E a \in DOMAIN s : s[a] = g[k]
  <2>1. PICK l \in Nat : l = Len(bare)
    BY <1>11
  <2>2. Gives(g, l, Within(n))
    BY <1>13, <2>1 DEF Gives
  <2>3. s = InOrder(l, g)
    BY <1>12, <2>1
  <2>4. Gathered(s, g, Within(n))
    BY <2>2, <2>3, InOrderIs
  <2>. QED
    BY <1>13, <2>4 DEF Gathered
<1>15. ASSUME NEW m \in Range(s)
       PROVE  m.kind = "card" /\ m.start \in at /\ m.stop = m.start + 16
  <2>1. PICK k \in kept : m = bare[k]
    BY <1>13, <1>14 DEF Range
  <2>2. PICK j \in at : m = f[j]
    BY <1>6, <1>13, <2>1
  <2>. QED
    BY <1>4, <2>2 DEF Span
<1>16. OfKind(s, n, "card")
  BY <1>14, <1>15 DEF OfKind
<1>17. ASSUME NEW i \in at
       PROVE  \/ \E m \in Range(s) : m.start = i
              \/ \E o \in Range(before) : o.start <= i /\ i + 16 <= o.stop
  <2>1. PICK a \in DOMAIN bare : bare[a] = Span("card", i, i + 16)
    BY <1>7
  <2>2. bare[a].start = i /\ bare[a].stop = i + 16
    BY <2>1 DEF Span
  <2>3. CASE a \in kept
    <3>1. PICK b \in DOMAIN s : s[b] = bare[a]
      BY <1>13, <1>14, <2>3
    <3>. QED
      BY <2>2, <3>1 DEF Range
  <2>4. CASE a \notin kept
    BY <1>8, <2>2, <2>4
  <2>. QED
    BY <2>3, <2>4
<1>. QED
  BY <1>1, <1>10, <1>15, <1>16, <1>17

LEMMA RangeThen ==
  ASSUME NEW S, NEW s \in Seq(S), NEW t \in Seq(S)
  PROVE  s \o t \in Seq(S) /\ Range(s \o t) = Range(s) \cup Range(t)
<1>1. PICK u : u = s \o t
  OBVIOUS
<1>2. /\ u \in Seq(S) /\ DOMAIN u = 1..Len(s) + Len(t) /\ Len(s) \in Nat /\ Len(t) \in Nat
      /\ \A k \in 1..Len(s) : u[k] = s[k]
      /\ \A k \in Len(s) + 1..Len(s) + Len(t) : u[k] = t[k - Len(s)]
      /\ DOMAIN s = 1..Len(s) /\ DOMAIN t = 1..Len(t)
  BY <1>1
<1>3. \A k \in DOMAIN s : s[k] \in Range(u)
  BY <1>2 DEF Range
<1>4. ASSUME NEW k \in DOMAIN t PROVE t[k] \in Range(u)
  <2>1. PICK j \in DOMAIN u : j = k + Len(s)
    BY <1>2
  <2>3. j \in Len(s) + 1..Len(s) + Len(t) /\ j - Len(s) = k
    <3>1. k \in 1..Len(t)
      BY <1>2
    <3>. QED
      BY <1>2, <2>1, <3>1
  <2>2. u[j] = t[k]
    BY <1>2, <2>3
  <2>. QED
    BY <2>2 DEF Range
<1>5. ASSUME NEW k \in DOMAIN u PROVE u[k] \in Range(s) \cup Range(t)
  <2>1. CASE k <= Len(s)
    BY <1>2, <2>1 DEF Range
  <2>2. CASE ~(k <= Len(s))
    <3>1. PICK j \in DOMAIN t : j = k - Len(s)
      BY <1>2, <2>2
    <3>2. u[k] = t[j]
      BY <1>2, <2>2, <3>1
    <3>. QED
      BY <3>2 DEF Range
  <2>. QED
    BY <2>1, <2>2
<1>6. Range(u) = Range(s) \cup Range(t)
  BY <1>3, <1>4, <1>5 DEF Range
<1>. QED
  BY <1>1, <1>2, <1>6

(* What is detected before the cards without separators. *)
Before(text) == Ssns(text) \o Phones(text) \o Emails(text) \o SeparatedCards(text)

LEMMA DetectIs ==
  ASSUME NEW S, NEW text \in Seq(S), NEW n \in Nat, Len(text) = n
  PROVE  /\ Detect(text) \in Seq(Within(n))
         /\ Range(Before(text)) = Range(Ssns(text)) \cup Range(Phones(text)) \cup Range(Emails(text))
                                      \cup Range(SeparatedCards(text))
         /\ Range(Detect(text)) = Range(Before(text)) \cup Range(BareCards(text, Before(text)))
<1>1. PICK T : T = Within(n)
  OBVIOUS
<1>2. PICK a, b, c, d, before, e :
          /\ a = Ssns(text) /\ b = Phones(text) /\ c = Emails(text) /\ d = SeparatedCards(text)
          /\ before = Before(text) /\ e = BareCards(text, before)
  OBVIOUS
<1>3. a \in Seq(T) /\ b \in Seq(T) /\ c \in Seq(T) /\ d \in Seq(T) /\ e \in Seq(T)
  BY <1>1, <1>2, SsnsAre, PhonesAre, EmailsAre, SeparatedCardsAre, BareCardsAre DEF OfKind
<1>4. PICK f, g : f = a \o b /\ g = f \o c
  OBVIOUS
<1>5. f \in Seq(T) /\ Range(f) = Range(a) \cup Range(b)
  BY <1>3, <1>4, RangeThen
<1>6. g \in Seq(T) /\ Range(g) = Range(f) \cup Range(c)
  <2>1. f \in Seq(T) /\ c \in Seq(T) /\ g = f \o c
    BY <1>3, <1>4, <1>5
  <2>. QED
    BY <2>1, RangeThen
<1>7. before = g \o d
  BY <1>2, <1>4 DEF Before
<1>8. before \in Seq(T) /\ Range(before) = Range(g) \cup Range(d)
  BY <1>3, <1>6, <1>7, RangeThen
<1>9. Detect(text) = before \o e
  BY <1>2 DEF Detect, Before
<1>10. Detect(text) \in Seq(T) /\ Range(Detect(text)) = Range(before) \cup Range(e)
  BY <1>3, <1>8, <1>9, RangeThen
<1>. QED
  BY <1>1, <1>2, <1>5, <1>6, <1>8, <1>10

-----------------------------------------------------------------------------
(* What is replaced *)

(* Matches one behind the other, and the beginning of every match in them. *)
Cuts(cut, n, matches) ==
    /\ cut \in Seq(Within(n))
    /\ \A b \in DOMAIN cut : cut[b] \in Range(matches)
    /\ \A a, b \in DOMAIN cut : a < b => cut[a].stop <= cut[b].start
    /\ \A m \in Range(matches) : \E c \in Range(cut) : c.start <= m.start /\ m.start < c.stop

LEMMA AppliedIs ==
  ASSUME NEW S, NEW text \in Seq(S), NEW n \in Nat, Len(text) = n, NEW matches \in Seq(Within(n))
  PROVE  Cuts(Applied(text, matches), n, matches)
<1>1. PICK starts : starts = {m.start : m \in Range(matches)}
  OBVIOUS
<1>2. PICK h : h = [p \in starts |-> matches[Min({k \in DOMAIN matches : matches[k].start = p})]]
  OBVIOUS
<1>3. PICK s : s = Applied(text, matches)
  OBVIOUS
<1>4. s = Scan(n, h)
  BY <1>1, <1>2, <1>3 DEF Applied
<1>5. PICK l \in Nat : l = Len(matches) /\ DOMAIN matches = 1..l /\ \A k \in 1..l : matches[k] \in Within(n)
  OBVIOUS
<1>6. \A k \in 1..l : matches[k] \in Spans /\ 1 <= matches[k].start /\ matches[k].start < matches[k].stop
                                           /\ matches[k].stop <= n + 1
  BY <1>5 DEF Within
<1>7. ASSUME NEW p \in starts
      PROVE  \E k \in 1..l : h[p] = matches[k] /\ matches[k].start = p
  <2>1. PICK at : at = {k \in DOMAIN matches : matches[k].start = p}
    OBVIOUS
  <2>2. at \subseteq 0..l /\ at # {}
    BY <1>1, <1>5, <2>1 DEF Range
  <2>3. Min(at) \in at
    BY <2>2, LeastAndGreatest
  <2>4. h[p] = matches[Min(at)]
    BY <1>2, <2>1
  <2>. QED
    BY <1>5, <2>1, <2>3, <2>4
<1>8. DOMAIN h = starts
  BY <1>2
<1>9. Hits(h, n)
  <2>. SUFFICES ASSUME NEW p \in starts
                PROVE  p \in 1..n /\ h[p] \in Spans /\ h[p].start <= p /\ p < h[p].stop
    BY <1>8 DEF Hits
  <2>1. PICK k \in 1..l : h[p] = matches[k] /\ matches[k].start = p
    BY <1>7
  <2>2. PICK m : m = matches[k]
    OBVIOUS
  <2>3. m \in Spans /\ 1 <= m.start /\ m.start < m.stop /\ m.stop <= n + 1 /\ h[p] = m /\ m.start = p
    BY <1>6, <2>1, <2>2
  <2>4. m.start \in Nat /\ m.stop \in Nat
    BY <2>3 DEF Spans
  <2>. QED
    BY <2>3, <2>4
<1>10. Reached(s, n, h)
  BY <1>4, <1>9, ScanReaches
<1>11. s \in Seq(Spans) /\ DOMAIN s = 1..Len(s) /\ Len(s) \in Nat
  BY <1>10 DEF Reached
<1>12. \A b \in DOMAIN s : \E j \in starts : s[b] = h[j] /\ \A a \in 1..b - 1 : s[a].stop <= j
  BY <1>8, <1>10 DEF Reached, Met
<1>13. \A b \in DOMAIN s : s[b] \in Within(n) /\ s[b] \in Range(matches)
  BY <1>5, <1>7, <1>12 DEF Range
<1>14. s \in Seq(Within(n))
  BY <1>11, <1>13
<1>15. ASSUME NEW a \in DOMAIN s, NEW b \in DOMAIN s, a < b
       PROVE  s[a].stop <= s[b].start
  <2>1. PICK j \in starts : s[b] = h[j] /\ \A x \in 1..b - 1 : s[x].stop <= j
    BY <1>12
  <2>2. s[b].start = j
    BY <1>7, <2>1
  <2>3. a \in 1..b - 1
    BY <1>11, <1>15
  <2>. QED
    BY <2>1, <2>2, <2>3
<1>16. ASSUME NEW m \in Range(matches)
       PROVE  \E c \in Range(s) : c.start <= m.start /\ m.start < c.stop
  <2>1. PICK p \in starts : p = m.start
    BY <1>1
  <2>2. p \in DOMAIN h /\ p <= n
    BY <1>8, <1>9, <2>1 DEF Hits
  <2>3. PICK a \in DOMAIN s : \E j \in DOMAIN h : s[a] = h[j] /\ j <= p /\ p < h[j].stop
    BY <1>10, <2>2 DEF Reached, Covered
  <2>4. PICK j \in starts : s[a] = h[j] /\ j <= p /\ p < h[j].stop
    BY <1>8, <2>3
  <2>5. h[j].start = j
    BY <1>7
  <2>6. s[a].start <= p /\ p < s[a].stop
    BY <2>4, <2>5
  <2>. QED
    BY <2>1, <2>6 DEF Range
<1>. QED
  BY <1>3, <1>13, <1>14, <1>15, <1>16 DEF Cuts

(* The text u is the n characters of s and then the m characters of t. *)
Joins(u, s, n, t, m) ==
    /\ u \in Seq(Chars) /\ Len(u) = n + m
    /\ \A k \in 1..n : u[k] = s[k]
    /\ \A k \in n + 1..n + m : u[k] = t[k - n]

LEMMA ThenIs ==
  ASSUME NEW s \in Seq(Chars), NEW t \in Seq(Chars),
         NEW n \in Nat, Len(s) = n, NEW m \in Nat, Len(t) = m
  PROVE  Joins(s \o t, s, n, t, m)
BY DEF Joins

(* The text u is what text has from a on, up to b. *)
Piece(u, text, a, b) ==
    /\ u \in Seq(Chars) /\ Len(u) = b - a
    /\ \A k \in 1..b - a : u[k] = text[a + k - 1]

LEMMA SubSeqIs ==
  ASSUME NEW text \in Seq(Chars), NEW n \in Nat, Len(text) = n,
         NEW a \in 1..n + 1, NEW b \in a..n + 1, NEW last, last = b - 1
  PROVE  Piece(SubSeq(text, a, last), text, a, b)
<1>1. a \in Nat /\ last \in Int /\ b - a \in Nat /\ last - a + 1 = b - a
  OBVIOUS
<1>2. \A k \in 1..b - a : a + k - 1 \in 1..n
  OBVIOUS
<1>3. SubSeq(text, a, last) = [k \in 1..b - a |-> text[a + k - 1]]
  BY <1>1
<1>4. \A k \in 1..b - a : text[a + k - 1] \in Chars
  BY <1>2
<1>. QED
  BY <1>1, <1>3, <1>4 DEF Piece

(* A mask begins and ends with a star, and nothing else stands alone in it. *)
StarAt(s, i) == i \in DOMAIN s /\ s[i] = "*"

(* Between two stars. *)
Amid(s, i) == StarAt(s, i - 1) /\ StarAt(s, i + 1)

IsMask(s, m) ==
    /\ s \in Seq(Chars) /\ m \in Nat /\ Len(s) = m /\ m > 0
    /\ s[1] = "*" /\ s[m] = "*"
    /\ \A i \in 1..m : s[i] = "*" \/ Amid(s, i)

LEMMA MaskIs ==
  ASSUME NEW kind \in Kinds
  PROVE  IsMask(MaskOf(kind), Len(MaskOf(kind)))
<1>0. {"*", "-", ".", "@"} \subseteq Chars
  BY DEF Chars
<1>1. CASE kind = "ssn"
  <2>1. PICK s : s = [k \in 1..14 |-> IF k = 7 THEN "-" ELSE "*"]
    OBVIOUS
  <2>2. s \in Seq(Chars) /\ Len(s) = 14 /\ s[1] = "*" /\ s[14] = "*" /\ DOMAIN s = 1..14
    BY <1>0, <2>1
  <2>3. ASSUME NEW i \in 1..14 PROVE s[i] = "*" \/ Amid(s, i)
    BY <2>1, <2>2 DEF StarAt, Amid
  <2>4. MaskOf(kind) = s
    BY <1>1, <2>1 DEF MaskOf
  <2>5. PICK m : m = Len(s)
    OBVIOUS
  <2>6. m \in Nat /\ m > 0 /\ s[m] = "*"
    BY <2>2, <2>5
  <2>7. \A i \in 1..m : s[i] = "*" \/ Amid(s, i)
    BY <2>2, <2>3, <2>5
  <2>8. IsMask(s, m)
    BY <2>2, <2>5, <2>6, <2>7 DEF IsMask
  <2>. QED
    BY <2>4, <2>5, <2>8
<1>2. CASE kind = "phone"
  <2>1. PICK s : s = [k \in 1..13 |-> IF k \in {4, 9} THEN "-" ELSE "*"]
    OBVIOUS
  <2>2. s \in Seq(Chars) /\ Len(s) = 13 /\ s[1] = "*" /\ s[13] = "*" /\ DOMAIN s = 1..13
    BY <1>0, <2>1
  <2>3. ASSUME NEW i \in 1..13 PROVE s[i] = "*" \/ Amid(s, i)
    BY <2>1, <2>2 DEF StarAt, Amid
  <2>4. MaskOf(kind) = s
    BY <1>2, <2>1 DEF MaskOf
  <2>5. PICK m : m = Len(s)
    OBVIOUS
  <2>6. m \in Nat /\ m > 0 /\ s[m] = "*"
    BY <2>2, <2>5
  <2>7. \A i \in 1..m : s[i] = "*" \/ Amid(s, i)
    BY <2>2, <2>3, <2>5
  <2>8. IsMask(s, m)
    BY <2>2, <2>5, <2>6, <2>7 DEF IsMask
  <2>. QED
    BY <2>4, <2>5, <2>8
<1>3. CASE kind = "email"
  <2>1. PICK s : s = [k \in 1..13 |-> CASE k = 5 -> "@" [] k = 10 -> "." [] OTHER -> "*"]
    OBVIOUS
  <2>2. s \in Seq(Chars) /\ Len(s) = 13 /\ s[1] = "*" /\ s[13] = "*" /\ DOMAIN s = 1..13
    BY <1>0, <2>1
  <2>3. ASSUME NEW i \in 1..13 PROVE s[i] = "*" \/ Amid(s, i)
    BY <2>1, <2>2 DEF StarAt, Amid
  <2>4. MaskOf(kind) = s
    BY <1>3, <2>1 DEF MaskOf
  <2>5. PICK m : m = Len(s)
    OBVIOUS
  <2>6. m \in Nat /\ m > 0 /\ s[m] = "*"
    BY <2>2, <2>5
  <2>7. \A i \in 1..m : s[i] = "*" \/ Amid(s, i)
    BY <2>2, <2>3, <2>5
  <2>8. IsMask(s, m)
    BY <2>2, <2>5, <2>6, <2>7 DEF IsMask
  <2>. QED
    BY <2>4, <2>5, <2>8
<1>4. CASE kind = "card"
  <2>1. PICK s : s = [k \in 1..19 |-> IF k \in {5, 10, 15} THEN "-" ELSE "*"]
    OBVIOUS
  <2>2. s \in Seq(Chars) /\ Len(s) = 19 /\ s[1] = "*" /\ s[19] = "*" /\ DOMAIN s = 1..19
    BY <1>0, <2>1
  <2>3. ASSUME NEW i \in 1..19 PROVE s[i] = "*" \/ Amid(s, i)
    BY <2>1, <2>2 DEF StarAt, Amid
  <2>4. MaskOf(kind) = s
    BY <1>4, <2>1 DEF MaskOf
  <2>5. PICK m : m = Len(s)
    OBVIOUS
  <2>6. m \in Nat /\ m > 0 /\ s[m] = "*"
    BY <2>2, <2>5
  <2>7. \A i \in 1..m : s[i] = "*" \/ Amid(s, i)
    BY <2>2, <2>3, <2>5
  <2>8. IsMask(s, m)
    BY <2>2, <2>5, <2>6, <2>7 DEF IsMask
  <2>. QED
    BY <2>4, <2>5, <2>8
<1>. QED
  BY <1>1, <1>2, <1>3, <1>4 DEF Kinds

-----------------------------------------------------------------------------
(* The masked text *)

(* What is replaced, in order, in a text of n characters. *)
Ordered(cut, n) ==
    /\ cut \in Seq(Within(n))
    /\ \A a, b \in DOMAIN cut : a < b => cut[a].stop <= cut[b].start

(* The characters from a to b of the text, which nothing replaced meets,   *)
(* stand in s, moved by o, behind a star unless they are the first.        *)
Gap(s, text, cut, n, a, b, o) ==
    /\ a \in 1..n + 1 /\ b \in a..n + 1 /\ o \in Int
    /\ \A p \in a..b - 1 : p + o \in DOMAIN s /\ s[p + o] = text[p]
    /\ (a = 1 /\ o = 0) \/ StarAt(s, a + o - 1)
    /\ \A c \in Range(cut) : c.stop <= a \/ b <= c.start

(* A star follows, or the end of both. *)
Closed(s, b, o, n) == StarAt(s, b + o) \/ (b = n + 1 /\ b + o = Len(s) + 1)

(* What is no star in the text with its first masks is the middle of a     *)
(* mask or left of the text.                                               *)
Prefixed(s, text, cut, n) ==
    \A i \in DOMAIN s :
        \/ s[i] = "*" \/ Amid(s, i)
        \/ \E a, b, o : Gap(s, text, cut, n, a, b, o) /\ a + o <= i /\ i < b + o /\ StarAt(s, b + o)

(* The text up to the k-th match, with the masks of the first k. *)
PartlyMasked(s, text, cut, n, k) ==
    /\ s \in Seq(Chars)
    /\ IF k = 0 THEN s = <<>> ELSE StarAt(s, Len(s))
    /\ Prefixed(s, text, cut, n)

(* Where the text goes on behind the k-th match. *)
From(cut, k) == IF k = 0 THEN 1 ELSE cut[k].stop

(* Where the gap begins that follows the k-th, nothing has been replaced   *)
(* yet before it, and up to the next.                                      *)
LEMMA GapIs ==
  ASSUME NEW n \in Nat, NEW cut, Ordered(cut, n), NEW K \in Nat, Len(cut) = K,
         NEW k \in 0..K
  PROVE  LET a == From(cut, k) IN
         /\ a \in 1..n + 1
         /\ k < K => /\ cut[k + 1].start \in a..n /\ cut[k + 1].kind \in Kinds
                     /\ \A c \in Range(cut) : c.stop <= a \/ cut[k + 1].start <= c.start
         /\ k = K => \A c \in Range(cut) : c.stop <= a
<1>1. DOMAIN cut = 1..K /\ \A x \in 1..K : cut[x] \in Within(n)
  BY DEF Ordered
<1>2. \A x \in 1..K : /\ cut[x].start \in Nat /\ cut[x].stop \in Nat /\ cut[x].kind \in Kinds
                      /\ 1 <= cut[x].start /\ cut[x].start < cut[x].stop /\ cut[x].stop <= n + 1
  BY <1>1 DEF Within, Spans
<1>3. \A x, y \in 1..K : x < y => cut[x].stop <= cut[y].start
  BY <1>1 DEF Ordered
<1>4. PICK a : a = From(cut, k)
  OBVIOUS
<1>5. a \in 1..n + 1 /\ \A x \in 1..K : x <= k => cut[x].stop <= a
  <2>1. CASE k = 0
    BY <1>4, <2>1 DEF From
  <2>2. CASE k # 0
    <3>1. a = cut[k].stop /\ k \in 1..K
      BY <1>4, <2>2 DEF From
    <3>2. \A x \in 1..K : x <= k => x = k \/ x < k
      OBVIOUS
    <3>3. \A x \in 1..K : x < k => cut[x].stop <= cut[k].start
      BY <1>3, <3>1
    <3>4. cut[k].start \in Nat /\ cut[k].stop \in Nat /\ cut[k].start < cut[k].stop
          /\ 1 <= cut[k].start /\ cut[k].stop <= n + 1
      BY <1>2, <3>1
    <3>5. \A x \in 1..K : x < k => cut[x].stop <= a
      BY <1>2, <3>1, <3>3, <3>4
    <3>. QED
      BY <3>1, <3>2, <3>4, <3>5
  <2>. QED
    BY <2>1, <2>2
<1>6. \A c \in Range(cut) : \E x \in 1..K : c = cut[x]
  BY <1>1 DEF Range
<1>7. ASSUME k < K
      PROVE  /\ cut[k + 1].start \in a..n /\ cut[k + 1].kind \in Kinds
             /\ \A c \in Range(cut) : c.stop <= a \/ cut[k + 1].start <= c.start
  <2>1. PICK p \in 1..K : p = k + 1
    BY <1>7
  <2>2. a <= cut[p].start
    <3>1. CASE k = 0
      BY <1>2, <1>4, <3>1 DEF From
    <3>2. CASE k # 0
      <4>1. k \in 1..K /\ k < p
        BY <2>1, <3>2
      <4>. QED
        BY <1>3, <1>4, <3>2, <4>1 DEF From
    <3>. QED
      BY <3>1, <3>2
  <2>3. cut[p].start \in a..n /\ cut[p].kind \in Kinds
    <3>1. /\ cut[p].start \in Nat /\ cut[p].stop \in Nat /\ cut[p].kind \in Kinds
          /\ cut[p].start < cut[p].stop /\ cut[p].stop <= n + 1
      BY <1>2
    <3>. QED
      BY <1>5, <2>2, <3>1
  <2>4. ASSUME NEW x \in 1..K, ~(x <= k) PROVE cut[p].start <= cut[x].start
    <3>1. CASE x = p
      BY <1>2, <3>1
    <3>2. CASE x # p
      <4>1. p < x
        BY <2>1, <2>4, <3>2
      <4>2. cut[p].stop <= cut[x].start
        BY <1>3, <4>1
      <4>3. cut[p].start \in Nat /\ cut[p].stop \in Nat /\ cut[x].start \in Nat /\ cut[p].start < cut[p].stop
        BY <1>2
      <4>. QED
        BY <4>2, <4>3
    <3>. QED
      BY <3>1, <3>2
  <2>5. \A c \in Range(cut) : c.stop <= a \/ cut[p].start <= c.start
    BY <1>5, <1>6, <2>4
  <2>. QED
    BY <2>1, <2>3, <2>5
<1>8. k = K => \A c \in Range(cut) : c.stop <= a
  BY <1>5, <1>6
<1>. QED
  BY <1>4, <1>5, <1>7, <1>8

(* Text behind what is masked so far. *)
Extends(t, s, text, a, b) ==
    /\ t \in Seq(Chars) /\ Len(s) + (b - a) <= Len(t)
    /\ \A i \in DOMAIN s : t[i] = s[i]
    /\ \A i \in Len(s) + 1..Len(s) + (b - a) : t[i] = text[a + (i - Len(s)) - 1]

LEMMA GapsStay ==
  ASSUME NEW text \in Seq(Chars), NEW n \in Nat, Len(text) = n, NEW cut,
         NEW s \in Seq(Chars), Prefixed(s, text, cut, n),
         NEW a \in Nat, NEW b \in Nat, a <= b, NEW t, Extends(t, s, text, a, b),
         NEW i \in DOMAIN s
  PROVE  \/ t[i] = "*" \/ Amid(t, i)
         \/ \E x, y, o : Gap(t, text, cut, n, x, y, o) /\ x + o <= i /\ i < y + o /\ StarAt(t, y + o)
<1>1. t[i] = s[i] /\ DOMAIN s \subseteq DOMAIN t /\ \A j \in DOMAIN s : t[j] = s[j]
  BY DEF Extends
<1>2. \A j : StarAt(s, j) => StarAt(t, j)
  BY <1>1 DEF StarAt
<1>3. CASE s[i] = "*"
  BY <1>1, <1>3
<1>4. CASE Amid(s, i)
  BY <1>2, <1>4 DEF Amid
<1>5. CASE \E x, y, o : Gap(s, text, cut, n, x, y, o) /\ x + o <= i /\ i < y + o /\ StarAt(s, y + o)
  <2>1. PICK x, y, o : Gap(s, text, cut, n, x, y, o) /\ x + o <= i /\ i < y + o /\ StarAt(s, y + o)
    BY <1>5
  <2>2. Gap(t, text, cut, n, x, y, o)
    BY <1>1, <1>2, <2>1 DEF Gap
  <2>. QED
    BY <1>2, <2>1, <2>2
<1>. QED
  BY <1>3, <1>4, <1>5 DEF Prefixed

LEMMA GapBehind ==
  ASSUME NEW text \in Seq(Chars), NEW n \in Nat, Len(text) = n,
         NEW cut, NEW k \in Nat, NEW s, PartlyMasked(s, text, cut, n, k),
         NEW a \in 1..n + 1, NEW b \in a..n + 1, k = 0 => a = 1,
         \A c \in Range(cut) : c.stop <= a \/ b <= c.start,
         NEW t, Extends(t, s, text, a, b), NEW o, o = Len(s) - a + 1
  PROVE  Gap(t, text, cut, n, a, b, o) /\ a + o = Len(s) + 1 /\ b + o = Len(s) + (b - a) + 1
<1>1. PICK l : l = Len(s)
  OBVIOUS
<1>2. l \in Nat /\ DOMAIN s = 1..l /\ a \in Nat /\ b \in Nat /\ a <= b /\ o \in Int
  BY <1>1 DEF PartlyMasked
<1>3. a + o = l + 1 /\ b + o = l + (b - a) + 1
  BY <1>1, <1>2
<1>4. t \in Seq(Chars) /\ Len(t) \in Nat /\ DOMAIN t = 1..Len(t) /\ l + (b - a) <= Len(t)
  BY <1>1 DEF Extends
<1>5. \A p \in a..b - 1 : p + o \in DOMAIN t /\ t[p + o] = text[p]
  <2>. TAKE p \in a..b - 1
  <2>1. PICK i \in Nat : i = p + o
    BY <1>1, <1>2
  <2>2. i \in l + 1..l + (b - a) /\ a + (i - l) - 1 = p
    BY <1>1, <1>2, <2>1
  <2>3. i \in DOMAIN t
    BY <1>2, <1>4, <2>2
  <2>4. t[i] = text[p]
    BY <1>1, <2>2 DEF Extends
  <2>. QED
    BY <2>1, <2>3, <2>4
<1>6. (a = 1 /\ o = 0) \/ StarAt(t, a + o - 1)
  <2>1. CASE k = 0
    <3>1. s = <<>> /\ a = 1
      BY <2>1 DEF PartlyMasked
    <3>. QED
      BY <3>1
  <2>2. CASE k # 0
    <3>1. StarAt(s, l)
      BY <1>1, <2>2 DEF PartlyMasked
    <3>2. l \in DOMAIN s /\ l \in DOMAIN t /\ t[l] = "*"
      BY <1>1, <1>2, <1>4, <3>1 DEF StarAt, Extends
    <3>3. a + o - 1 = l
      BY <1>2, <1>3
    <3>. QED
      BY <3>2, <3>3 DEF StarAt
  <2>. QED
    BY <2>1, <2>2
<1>7. Gap(t, text, cut, n, a, b, o)
  BY <1>2, <1>5, <1>6 DEF Gap
<1>. QED
  BY <1>1, <1>3, <1>7

LEMMA MaskedMore ==
  ASSUME NEW text \in Seq(Chars), NEW n \in Nat, Len(text) = n,
         NEW cut, Ordered(cut, n), NEW K \in Nat, Len(cut) = K, NEW k \in 0..K,
         NEW p \in 1..K, p = k + 1, NEW s, PartlyMasked(s, text, cut, n, k),
         NEW last, last = cut[p].start - 1
  PROVE  PartlyMasked(s \o SubSeq(text, From(cut, k), last) \o MaskOf(cut[p].kind), text, cut, n, p)
<1>1. PICK a, b, kind : a = From(cut, k) /\ b = cut[p].start /\ kind = cut[p].kind
  OBVIOUS
<1>2. /\ a \in 1..n + 1 /\ b \in a..n /\ kind \in Kinds
      /\ \A c \in Range(cut) : c.stop <= a \/ b <= c.start
  BY <1>1, GapIs
<1>3. k \in Nat /\ k < K /\ (k = 0 => a = 1)
  BY <1>1 DEF From
<1>4. PICK u, m : u = SubSeq(text, a, last) /\ m = MaskOf(kind)
  OBVIOUS
<1>5. u \in Seq(Chars) /\ Len(u) = b - a /\ \A j \in 1..b - a : u[j] = text[a + j - 1]
  <2>1. last = b - 1 /\ b \in a..n + 1
    BY <1>1, <1>2
  <2>2. Piece(u, text, a, b)
    BY <1>2, <1>4, <2>1, SubSeqIs
  <2>. QED
    BY <2>2 DEF Piece
<1>6. PICK M \in Nat : IsMask(m, M)
  BY <1>2, <1>4, MaskIs DEF IsMask
<1>7. PICK l, g \in Nat : l = Len(s) /\ g = b - a
  BY <1>2 DEF PartlyMasked
<1>8. s \in Seq(Chars) /\ DOMAIN s = 1..l
  BY <1>7 DEF PartlyMasked
<1>9. PICK v : v = s \o u
  OBVIOUS
<1>10. /\ v \in Seq(Chars) /\ Len(v) = l + g
       /\ \A i \in 1..l : v[i] = s[i]
       /\ \A i \in l + 1..l + g : v[i] = u[i - l]
  <2>1. Joins(v, s, l, u, g)
    BY <1>5, <1>7, <1>8, <1>9, ThenIs
  <2>. QED
    BY <2>1 DEF Joins
<1>11. PICK t : t = v \o m
  OBVIOUS
<1>12. PICK lg \in Nat : lg = l + g
  OBVIOUS
<1>13. m \in Seq(Chars) /\ Len(m) = M /\ M > 0 /\ m[1] = "*" /\ m[M] = "*" /\ DOMAIN m = 1..M
  BY <1>6 DEF IsMask
<1>14. /\ t \in Seq(Chars) /\ Len(t) = lg + M
       /\ \A i \in 1..lg : t[i] = v[i]
       /\ \A i \in lg + 1..lg + M : t[i] = m[i - lg]
  <2>1. Len(v) = lg /\ Len(m) = M
    BY <1>10, <1>12, <1>13
  <2>2. Joins(t, v, lg, m, M)
    BY <1>10, <1>11, <1>13, <2>1, ThenIs
  <2>. QED
    BY <2>2 DEF Joins
<1>15. DOMAIN t = 1..lg + M
  BY <1>14
<1>16. Extends(t, s, text, a, b)
  <2>1. \A i \in DOMAIN s : t[i] = s[i]
    BY <1>8, <1>10, <1>12, <1>14
  <2>2. \A i \in l + 1..l + g : t[i] = text[a + (i - l) - 1]
    <3>. TAKE i \in l + 1..l + g
    <3>1. i - l \in 1..b - a /\ i \in 1..lg
      BY <1>7, <1>12
    <3>. QED
      BY <1>5, <1>10, <1>14, <3>1
  <2>. QED
    BY <1>7, <1>12, <1>14, <2>1, <2>2 DEF Extends
<1>17. \A i \in 1..M : lg + i \in DOMAIN t /\ t[lg + i] = m[i]
  <2>. TAKE i \in 1..M
  <2>1. PICK j \in lg + 1..lg + M : j = lg + i /\ j - lg = i
    OBVIOUS
  <2>. QED
    BY <1>14, <1>15, <2>1
<1>18. \A i \in 1..M : StarAt(m, i) => StarAt(t, lg + i)
  BY <1>17 DEF StarAt
<1>19. PICK o : o = Len(s) - a + 1
  OBVIOUS
<1>20. Gap(t, text, cut, n, a, b, o) /\ a + o = l + 1 /\ b + o = lg + 1
  <2>1. a \in 1..n + 1 /\ b \in a..n + 1
    BY <1>2
  <2>2. Gap(t, text, cut, n, a, b, o) /\ a + o = Len(s) + 1 /\ b + o = Len(s) + (b - a) + 1
    BY <1>2, <1>3, <1>16, <1>19, <2>1, GapBehind
  <2>. QED
    BY <1>7, <1>12, <2>2
<1>21. StarAt(t, b + o)
  BY <1>13, <1>17, <1>20 DEF StarAt
<1>22. ASSUME NEW i \in DOMAIN t
       PROVE  \/ t[i] = "*" \/ Amid(t, i)
              \/ \E x, y, z : Gap(t, text, cut, n, x, y, z) /\ x + z <= i /\ i < y + z /\ StarAt(t, y + z)
  <2>1. CASE i \in 1..l
    <3>1. i \in DOMAIN s /\ a \in Nat /\ b \in Nat /\ a <= b /\ Prefixed(s, text, cut, n)
      BY <1>2, <1>8, <2>1 DEF PartlyMasked
    <3>. QED
      BY <1>8, <1>16, <3>1, GapsStay
  <2>2. CASE i \in l + 1..lg
    <3>1. a + o <= i /\ i < b + o
      BY <1>20, <2>2
    <3>. QED
      BY <1>20, <1>21, <3>1
  <2>3. CASE i \in lg + 1..lg + M
    <3>1. PICK j \in 1..M : j = i - lg
      BY <2>3
    <3>2. i = lg + j /\ t[i] = m[j]
      <4>1. i = lg + j
        BY <2>3, <3>1
      <4>. QED
        BY <1>17, <4>1
    <3>3. m[j] = "*" \/ Amid(m, j)
      BY <1>6 DEF IsMask
    <3>4. CASE Amid(m, j)
      <4>1. StarAt(m, j - 1) /\ StarAt(m, j + 1)
        BY <3>4 DEF Amid
      <4>2. j - 1 \in 1..M /\ j + 1 \in 1..M
        BY <1>13, <4>1 DEF StarAt
      <4>3. PICK x, y \in 1..M : x = j - 1 /\ y = j + 1
        BY <4>2
      <4>4. StarAt(t, lg + x) /\ StarAt(t, lg + y)
        BY <1>18, <4>1, <4>3
      <4>5. lg + x = i - 1 /\ lg + y = i + 1
        BY <3>2, <4>3
      <4>. QED
        BY <4>4, <4>5 DEF Amid
    <3>. QED
      BY <3>2, <3>3, <3>4
  <2>. QED
    BY <1>12, <1>15, <2>1, <2>2, <2>3
<1>23. StarAt(t, Len(t))
  <2>1. M \in 1..M /\ lg + M = Len(t)
    BY <1>13, <1>14
  <2>. QED
    BY <1>13, <1>17, <2>1 DEF StarAt
<1>24. PartlyMasked(t, text, cut, n, p)
  BY <1>14, <1>22, <1>23 DEF PartlyMasked, Prefixed
<1>. QED
  BY <1>1, <1>4, <1>9, <1>11, <1>24

(* All of the text. *)
Masked(t, text, cut, n) ==
    /\ t \in Seq(Chars)
    /\ \A i \in DOMAIN t :
          \/ t[i] = "*" \/ Amid(t, i)
          \/ \E a, b, o : Gap(t, text, cut, n, a, b, o) /\ a + o <= i /\ i < b + o /\ Closed(t, b, o, n)

LEMMA MaskedLast ==
  ASSUME NEW text \in Seq(Chars), NEW n \in Nat, Len(text) = n,
         NEW cut, Ordered(cut, n), NEW K \in Nat, Len(cut) = K,
         NEW s, PartlyMasked(s, text, cut, n, K)
  PROVE  Masked(s \o SubSeq(text, From(cut, K), n), text, cut, n)
<1>1. PICK a, b : a = From(cut, K) /\ b = n + 1
  OBVIOUS
<1>2. /\ a \in 1..n + 1 /\ b \in a..n + 1 /\ (K = 0 => a = 1)
      /\ \A c \in Range(cut) : c.stop <= a \/ b <= c.start
  <2>1. K \in 0..K
    OBVIOUS
  <2>2. a \in 1..n + 1 /\ \A c \in Range(cut) : c.stop <= a
    BY <1>1, <2>1, GapIs
  <2>. QED
    BY <1>1, <2>2 DEF From
<1>3. PICK u : u = SubSeq(text, a, n)
  OBVIOUS
<1>4. u \in Seq(Chars) /\ Len(u) = b - a /\ \A j \in 1..b - a : u[j] = text[a + j - 1]
  <2>1. n = b - 1
    BY <1>1
  <2>2. Piece(u, text, a, b)
    BY <1>2, <1>3, <2>1, SubSeqIs
  <2>. QED
    BY <2>2 DEF Piece
<1>5. PICK l, g \in Nat : l = Len(s) /\ g = b - a
  BY <1>2 DEF PartlyMasked
<1>6. s \in Seq(Chars) /\ DOMAIN s = 1..l
  BY <1>5 DEF PartlyMasked
<1>7. PICK t : t = s \o u
  OBVIOUS
<1>8. /\ t \in Seq(Chars) /\ Len(t) = l + g
      /\ \A i \in 1..l : t[i] = s[i]
      /\ \A i \in l + 1..l + g : t[i] = u[i - l]
  <2>1. Joins(t, s, l, u, g)
    BY <1>4, <1>5, <1>6, <1>7, ThenIs
  <2>. QED
    BY <2>1 DEF Joins
<1>9. Extends(t, s, text, a, b)
  <2>1. \A i \in l + 1..l + g : t[i] = text[a + (i - l) - 1]
    <3>. TAKE i \in l + 1..l + g
    <3>1. i - l \in 1..b - a
      BY <1>5
    <3>. QED
      BY <1>4, <1>8, <3>1
  <2>. QED
    BY <1>5, <1>6, <1>8, <2>1 DEF Extends
<1>10. PICK o : o = Len(s) - a + 1
  OBVIOUS
<1>11. Gap(t, text, cut, n, a, b, o) /\ a + o = Len(s) + 1 /\ b + o = Len(s) + (b - a) + 1
  BY <1>2, <1>9, <1>10, GapBehind
<1>12. Closed(t, b, o, n)
  BY <1>1, <1>5, <1>8, <1>11 DEF Closed
<1>13. ASSUME NEW i \in DOMAIN t
       PROVE  \/ t[i] = "*" \/ Amid(t, i)
              \/ \E x, y, z : Gap(t, text, cut, n, x, y, z) /\ x + z <= i /\ i < y + z /\ Closed(t, y, z, n)
  <2>1. CASE i \in 1..l
    <3>1. i \in DOMAIN s /\ a \in Nat /\ b \in Nat /\ a <= b /\ Prefixed(s, text, cut, n)
      BY <1>2, <1>6, <2>1 DEF PartlyMasked
    <3>2. \/ t[i] = "*" \/ Amid(t, i)
          \/ \E x, y, z : Gap(t, text, cut, n, x, y, z) /\ x + z <= i /\ i < y + z /\ StarAt(t, y + z)
      BY <1>6, <1>9, <3>1, GapsStay
    <3>. QED
      BY <3>2 DEF Closed
  <2>2. CASE i \in l + 1..l + g
    <3>1. a + o <= i /\ i < b + o
      BY <1>5, <1>11, <2>2
    <3>. QED
      BY <1>11, <1>12, <3>1
  <2>. QED
    BY <1>8, <2>1, <2>2
<1>14. Masked(t, text, cut, n)
  BY <1>8, <1>13 DEF Masked
<1>. QED
  BY <1>1, <1>3, <1>7, <1>14

(* What the recursion of ApplyMasks has after each mask. *)
Masks(g, text, cut) ==
    g = [k \in 0..Len(cut) |->
            IF k = 0 THEN <<>>
            ELSE g[k - 1] \o SubSeq(text, From(cut, k - 1), cut[k].start - 1) \o MaskOf(cut[k].kind)]

LEMMA MasksExists ==
  ASSUME NEW text, NEW cut, Len(cut) \in Nat
  PROVE  \E g : Masks(g, text, cut)
<1>. DEFINE next(s, k) == s \o SubSeq(text, From(cut, k - 1), cut[k].start - 1) \o MaskOf(cut[k].kind)
            does(g, n) == g = [k \in 0..n |-> IF k = 0 THEN <<>> ELSE next(g[k - 1], k)]
            S == {n \in Nat : \E g : does(g, n)}
<1>0. \A g : Masks(g, text, cut) <=> does(g, Len(cut))
  BY DEF Masks
<1>. HIDE DEF next
<1>1. 0 \in S
  <2>1. does([k \in 0..0 |-> <<>>], 0)
    OBVIOUS
  <2>. QED
    BY <2>1
<1>2. ASSUME NEW n \in Nat, n \in S PROVE n + 1 \in S
  <2>1. PICK h : does(h, n)
    BY <1>2
  <2>. DEFINE last == next(h[n], n + 1)
              g == [k \in 0..n + 1 |-> IF k = n + 1 THEN last ELSE h[k]]
  <2>2. \A k \in 0..n : h[k] = IF k = 0 THEN <<>> ELSE next(h[k - 1], k)
    BY <2>1
  <2>3. \A k \in 0..n + 1 : g[k] = IF k = 0 THEN <<>> ELSE next(g[k - 1], k)
    BY <2>2
  <2>4. g = [k \in 0..n + 1 |-> IF k = 0 THEN <<>> ELSE next(g[k - 1], k)]
    BY <2>3
  <2>5. does(g, n + 1)
    BY <2>4
  <2>. HIDE DEF g, does
  <2>. QED
    BY <2>5
<1>. HIDE DEF S
<1>3. Nat \subseteq S
  BY <1>1, <1>2, Induction
<1>4. \E g : does(g, Len(cut))
  BY <1>3 DEF S
<1>. QED
  BY <1>0, <1>4

LEMMA ApplyMasksIs ==
  ASSUME NEW text \in Seq(Chars), NEW n \in Nat, Len(text) = n, NEW matches \in Seq(Within(n))
  PROVE  Masked(ApplyMasks(text, matches), text, Applied(text, matches), n)
<1>1. PICK cut : cut = Applied(text, matches)
  OBVIOUS
<1>2. Cuts(cut, n, matches)
  BY <1>1, AppliedIs
<1>3. Ordered(cut, n)
  BY <1>2 DEF Cuts, Ordered
<1>4. PICK K \in Nat : K = Len(cut)
  BY <1>3 DEF Ordered
<1>5. PICK g : Masks(g, text, cut)
               /\ ApplyMasks(text, matches) = g[K] \o SubSeq(text, From(cut, K), n)
  <2>. DEFINE g == CHOOSE h : Masks(h, text, cut)
  <2>1. ApplyMasks(text, matches) = g[K] \o SubSeq(text, From(cut, K), n)
    BY <1>1, <1>4 DEF ApplyMasks, Masks, From
  <2>2. Masks(g, text, cut)
    BY <1>4, MasksExists
  <2>. QED
    BY <2>1, <2>2
<1>6. \A k \in 0..K :
         g[k] = IF k = 0 THEN <<>>
                ELSE g[k - 1] \o SubSeq(text, From(cut, k - 1), cut[k].start - 1) \o MaskOf(cut[k].kind)
  BY <1>4, <1>5 DEF Masks
<1>. DEFINE S == {k \in Nat : k <= K => PartlyMasked(g[k], text, cut, n, k)}
<1>7. 0 \in S
  <2>1. g[0] = <<>>
    BY <1>6
  <2>2. PartlyMasked(<<>>, text, cut, n, 0)
    BY DEF PartlyMasked, Prefixed
  <2>. QED
    BY <2>1, <2>2
<1>8. ASSUME NEW k \in Nat, k \in S PROVE k + 1 \in S
  <2>. SUFFICES ASSUME k + 1 <= K PROVE PartlyMasked(g[k + 1], text, cut, n, k + 1)
    OBVIOUS
  <2>1. PICK s : s = g[k]
    OBVIOUS
  <2>2. PICK p \in 1..K : p = k + 1
    BY <1>4
  <2>3. PartlyMasked(s, text, cut, n, k) /\ p \in 0..K /\ p # 0 /\ p - 1 = k /\ k \in 0..K
    BY <1>8, <2>1, <2>2
  <2>4. PICK last : last = cut[p].start - 1
    OBVIOUS
  <2>5. g[p] = s \o SubSeq(text, From(cut, k), last) \o MaskOf(cut[p].kind)
    BY <1>6, <2>1, <2>3, <2>4
  <2>6. PartlyMasked(s \o SubSeq(text, From(cut, k), last) \o MaskOf(cut[p].kind), text, cut, n, p)
    BY <1>3, <1>4, <2>2, <2>3, <2>4, MaskedMore
  <2>. QED
    BY <2>2, <2>5, <2>6
<1>. HIDE DEF S
<1>9. Nat \subseteq S
  BY <1>7, <1>8, Induction
<1>10. PartlyMasked(g[K], text, cut, n, K)
  BY <1>4, <1>9 DEF S
<1>11. PICK s : s = g[K]
  OBVIOUS
<1>12. Masked(s \o SubSeq(text, From(cut, K), n), text, cut, n)
  BY <1>3, <1>4, <1>10, <1>11, MaskedLast
<1>. QED
  BY <1>1, <1>5, <1>11, <1>12

LEMMA MaskTextIs ==
  ASSUME NEW text \in Seq(Chars), NEW n \in Nat, Len(text) = n
  PROVE  /\ Masked(MaskText(text), text, Applied(text, Detect(text)), n)
         /\ Cuts(Applied(text, Detect(text)), n, Detect(text))
<1>1. PICK matches : matches = Detect(text)
  OBVIOUS
<1>2. matches \in Seq(Within(n))
  BY <1>1, DetectIs
<1>3. Masked(ApplyMasks(text, matches), text, Applied(text, matches), n)
  BY <1>2, ApplyMasksIs
<1>4. Cuts(Applied(text, matches), n, matches)
  BY <1>2, AppliedIs
<1>. QED
  BY <1>1, <1>3, <1>4 DEF MaskText

-----------------------------------------------------------------------------
(* What is said *)

(* A message.  The conversation is made of such, whatever happens. *)
Told == [role : Roles, content : Seq(Chars), parts : Nat]

Conversation == messages \in Seq(Told)

LEMMA ConversationInit == Init => Conversation
BY DEF Init, Conversation

LEMMA MaskedIsText ==
  ASSUME NEW text \in Seq(Chars)
  PROVE  MaskText(text) \in Seq(Chars)
<1>1. PICK n \in Nat : n = Len(text)
  OBVIOUS
<1>. QED
  BY <1>1, MaskTextIs DEF Masked

LEMMA ConversationStep == Conversation /\ [Next]_vars => Conversation'
<1>. SUFFICES ASSUME Conversation, [Next]_vars PROVE Conversation'
  OBVIOUS
<1>0. messages \in Seq(Told)
  BY DEF Conversation
<1>1. CASE Begin
  <2>1. PICK role \in {"system", "user"} :
            messages' = Append(messages, [role |-> role, content |-> <<>>, parts |-> 0])
    BY <1>1 DEF Begin
  <2>2. [role |-> role, content |-> <<>>, parts |-> 0] \in Told
    BY DEF Roles, Told
  <2>3. messages' \in Seq(Told)
    BY <1>0, <2>1, <2>2
  <2>. QED
    BY <2>3 DEF Conversation
<1>2. CASE Write
  <2>1. PICK text \in Parts :
            messages' = [messages EXCEPT ![Len(messages)].content = @ \o text,
                                         ![Len(messages)].parts = @ + 1]
    BY <1>2 DEF Write
  <2>2. text \in Seq(Chars)
    BY PartsAreTexts
  <2>3. PICK l \in Nat : l = Len(messages)
    BY <1>0
  <2>4. l # 0 /\ DOMAIN messages = 1..l
    BY <1>0, <1>2, <2>3 DEF Write
  <2>5. PICK m : m = messages[l]
    OBVIOUS
  <2>6. m \in Told
    BY <1>0, <2>4, <2>5
  <2>7. m.content \o text \in Seq(Chars) /\ m.parts + 1 \in Nat
    BY <2>2, <2>6 DEF Told
  <2>8. PICK w : w = [m EXCEPT !.content = m.content \o text, !.parts = m.parts + 1]
    OBVIOUS
  <2>9. w \in Told
    BY <2>6, <2>7, <2>8 DEF Told
  <2>10. messages' = [messages EXCEPT ![l] = w]
    BY <2>1, <2>3, <2>4, <2>5, <2>8
  <2>11. messages' \in Seq(Told)
    BY <1>0, <2>3, <2>4, <2>9, <2>10
  <2>. QED
    BY <2>11 DEF Conversation
<1>3. CASE MaskRequest
  <2>1. CASE UNCHANGED messages
    BY <1>0, <2>1 DEF Conversation
  <2>2. CASE messages' = [i \in DOMAIN messages |-> [messages[i] EXCEPT !.content = MaskText(@)]]
    <3>1. PICK l \in Nat : l = Len(messages) /\ DOMAIN messages = 1..l
      BY <1>0
    <3>2. ASSUME NEW i \in 1..l PROVE [messages[i] EXCEPT !.content = MaskText(@)] \in Told
      <4>1. PICK m : m = messages[i]
        OBVIOUS
      <4>2. m \in Told
        BY <1>0, <3>1, <4>1
      <4>3. MaskText(m.content) \in Seq(Chars)
        BY <4>2, MaskedIsText DEF Told
      <4>4. [m EXCEPT !.content = MaskText(m.content)] \in Told
        BY <4>2, <4>3 DEF Told
      <4>. QED
        BY <4>1, <4>4
    <3>. DEFINE masked(i) == [messages[i] EXCEPT !.content = MaskText(@)]
    <3>3. messages' = [i \in 1..l |-> masked(i)] /\ \A i \in 1..l : masked(i) \in Told
      BY <2>2, <3>1, <3>2
    <3>. HIDE DEF masked
    <3>4. messages' \in Seq(Told)
      BY <3>3
    <3>. QED
      BY <3>4 DEF Conversation
  <2>. QED
    BY <1>3, <2>1, <2>2 DEF MaskRequest
<1>4. CASE Choose
  BY <1>0, <1>4 DEF Choose, Conversation
<1>5. CASE Answer
  <2>1. PICK text \in Parts :
          IF direction # "request" /\ DetectPanics(text)
            THEN UNCHANGED messages
            ELSE messages' = Append(messages,
                        [role    |-> "assistant", parts |-> 1,
                         content |-> IF direction = "request" THEN text ELSE MaskText(text)])
    BY <1>5 DEF Answer
  <2>2. PICK answer : answer = IF direction = "request" THEN text ELSE MaskText(text)
    OBVIOUS
  <2>3. answer \in Seq(Chars)
    BY <2>2, PartsAreTexts, MaskedIsText
  <2>4. [role |-> "assistant", parts |-> 1, content |-> answer] \in Told
    BY <2>3 DEF Roles, Told
  <2>5. UNCHANGED messages
        \/ messages' = Append(messages, [role |-> "assistant", parts |-> 1, content |-> answer])
    BY <2>1, <2>2
  <2>6. messages' \in Seq(Told)
    BY <1>0, <2>4, <2>5
  <2>. QED
    BY <2>6 DEF Conversation
<1>6. CASE UNCHANGED vars
  BY <1>0, <1>6 DEF vars, Conversation
<1>. QED
  BY <1>1, <1>2, <1>3, <1>4, <1>5, <1>6 DEF Next

LEMMA TypedInit == Init => TypeOK
<1>1. Init => Range(messages) = {}
  BY DEF Init, Range
<1>. QED
  BY <1>1, CandidatesScored DEF Init, TypeOK

LEMMA TypedStep ==
  Conversation' /\ ChosenIsSelected' /\ TypeOK /\ [Next]_vars => TypeOK'
<1>. SUFFICES ASSUME Conversation', ChosenIsSelected', TypeOK, [Next]_vars PROVE TypeOK'
  OBVIOUS
<1>1. \A m \in Range(messages') : m.role \in Roles
  <2>. SUFFICES ASSUME NEW i \in DOMAIN messages' PROVE messages'[i].role \in Roles
    BY DEF Range
  <2>1. messages'[i] \in Told
    BY DEF Conversation
  <2>. QED
    BY <2>1 DEF Told
<1>2. direction' = direction /\ stage' \in {"written", "masked", "routed", "panicked"}
      /\ context' \in Contexts \cup {None} /\ (chosen' = chosen \/ chosen' = 0 \/ context' \in Contexts)
  BY DEF TypeOK, Next, Begin, Write, MaskRequest, Choose, Answer, vars
<1>3. chosen' \in 0..Len(Candidates) /\ (chosen' # 0) = (stage' = "routed")
  <2>1. PICK l \in Nat : l = Len(Candidates) /\ DOMAIN Candidates = 1..l
    BY CandidatesScored
  <2>2. CASE chosen' = 0
    BY <2>1, <2>2 DEF ChosenIsSelected
  <2>3. CASE chosen' # 0
    <3>1. context' \in Contexts
          /\ chosen' \in Selected(Candidates, Weights(Table, context'.type), context'.low, context'.mode)
      BY <2>3 DEF ChosenIsSelected
    <3>2. context'.mode \in {"cold", "explores", "scores"}
      BY <3>1 DEF Contexts
    <3>3. chosen' \in DOMAIN Candidates
      BY <3>1, <3>2, SelectedExists
    <3>. QED
      BY <2>1, <2>3, <3>3 DEF ChosenIsSelected
  <2>. QED
    BY <2>2, <2>3
<1>. QED
  BY <1>1, <1>2, <1>3 DEF TypeOK

(* Whatever the client writes and the model answers, messages have known   *)
(* roles, and the model chosen is one of the candidates.                   *)
THEOREM LayersTypeCorrect == Spec => []TypeOK
<1>. QED
  BY ConversationInit, ConversationStep, ChosenInit, ChosenStep, TypedInit, TypedStep, PTL DEF Spec

LEMMA DraftIsText == Conversation => Draft \in Seq(Chars)
<1>. SUFFICES ASSUME Conversation, messages # <<>> PROVE Last(messages).content \in Seq(Chars)
  BY DEF Draft
<1>1. PICK l \in Nat : l = Len(messages) /\ DOMAIN messages = 1..l /\ l # 0
  BY DEF Conversation
<1>2. messages[l] \in Told
  BY <1>1 DEF Conversation
<1>. QED
  BY <1>1, <1>2 DEF Last, Told

-----------------------------------------------------------------------------
(* Every number is found *)

LEMMA NumbersAreFound ==
  ASSUME NEW text \in Seq(Chars)
  PROVE  LET found == Range(Detect(text))
             cut == Range(Applied(text, Detect(text)))
         IN  /\ \A i \in DOMAIN text :
                   /\ At(text, i, Ssn) => \E m \in found : m.kind = "ssn" /\ m.start = i
                   /\ (At(text, i, Mobile) \/ At(text, i, Landline)) =>
                         \E m \in found : m.kind = "phone" /\ m.start <= i /\ i < m.stop
             /\ \A m \in found : \E c \in cut : c.start <= m.start /\ m.start < c.stop
<1>1. PICK n \in Nat : n = Len(text)
  OBVIOUS
<1>2. PICK found : found = Range(Detect(text))
  OBVIOUS
<1>3. Range(Ssns(text)) \subseteq found /\ Range(Phones(text)) \subseteq found
  BY <1>1, <1>2, DetectIs
<1>4. ASSUME NEW i \in DOMAIN text, At(text, i, Ssn)
      PROVE  \E m \in found : m.kind = "ssn" /\ m.start = i
  <2>1. i \in Standing(text, Ssn)
    BY <1>4 DEF Standing
  <2>2. Span("ssn", i, i + 14) \in found
    BY <1>1, <1>3, <2>1, SsnsAre
  <2>. QED
    BY <2>2 DEF Span
<1>5. ASSUME NEW i \in DOMAIN text, At(text, i, Mobile) \/ At(text, i, Landline)
      PROVE  \E m \in found : m.kind = "phone" /\ m.start <= i /\ i < m.stop
  <2>1. i \in Standing(text, Mobile) \cup Standing(text, Landline)
    BY <1>5 DEF Standing
  <2>2. PICK m \in Range(Phones(text)) : m.start <= i /\ i < m.stop
    BY <1>1, <2>1, PhonesAre
  <2>3. m.kind = "phone"
    BY <1>1, PhonesAre DEF OfKind
  <2>. QED
    BY <1>3, <2>2, <2>3
<1>6. \A m \in found : \E c \in Range(Applied(text, Detect(text))) : c.start <= m.start /\ m.start < c.stop
  BY <1>1, <1>2, MaskTextIs DEF Cuts
<1>. QED
  BY <1>2, <1>4, <1>5, <1>6

(* Every number of a resident and every phone number of the two forms      *)
(* scanned for in what is being written is found, and the beginning of all *)
(* that is found is replaced, in texts of any length (detect, apply_masks). *)
THEOREM NumbersAreAlwaysFound == Spec => []EveryNumberFound
<1>1. Conversation => EveryNumberFound
  <2>. SUFFICES ASSUME Conversation PROVE EveryNumberFound
    OBVIOUS
  <2>1. PICK text : text = Draft
    OBVIOUS
  <2>2. text \in Seq(Chars)
    BY <2>1, DraftIsText
  <2>. QED
    BY <2>1, <2>2, NumbersAreFound DEF EveryNumberFound
<1>. QED
  BY <1>1, ConversationInit, ConversationStep, PTL DEF Spec

(* The positions from i to j of the masked text are in this gap. *)
Inside(t, text, cut, n, i, j, a, b, o) ==
    Gap(t, text, cut, n, a, b, o) /\ Closed(t, b, o, n) /\ a + o <= i /\ j < b + o

(* Two characters or more with no star between them were there before. *)
LEMMA WindowIsInside ==
  ASSUME NEW text, NEW n \in Nat, NEW cut, NEW t, Masked(t, text, cut, n),
         NEW i \in DOMAIN t, NEW j \in DOMAIN t, i < j, \A k \in i..j : t[k] # "*"
  PROVE  \E a, b, o : Inside(t, text, cut, n, i, j, a, b, o)
<1>1. t \in Seq(Chars) /\ Len(t) \in Nat /\ DOMAIN t = 1..Len(t)
  BY DEF Masked
<1>2. i \in Nat /\ j \in Nat /\ i \in i..j /\ i + 1 \in i..j
  BY <1>1
<1>3. t[i] # "*" /\ ~Amid(t, i)
  BY <1>2 DEF Amid, StarAt
<1>4. PICK a, b, o : Gap(t, text, cut, n, a, b, o) /\ a + o <= i /\ i < b + o /\ Closed(t, b, o, n)
  BY <1>3 DEF Masked
<1>5. a \in Int /\ b \in Int /\ o \in Int
  BY <1>4 DEF Gap
<1>6. j < b + o
  <2>. SUFFICES ASSUME b + o <= j PROVE FALSE
    BY <1>1, <1>5
  <2>1. b + o \in i..j
    BY <1>1, <1>2, <1>4, <1>5
  <2>2. ~StarAt(t, b + o)
    BY <2>1 DEF StarAt
  <2>3. b + o = Len(t) + 1
    BY <1>4, <2>2 DEF Closed
  <2>. QED
    BY <1>1, <2>3
<1>. QED
  BY <1>4, <1>6 DEF Inside

(* The positions from i to j of the masked text and of the text. *)
Corresponds(t, text, cut, n, i, j, a, b, o) ==
    /\ o \in Int /\ a \in 1..n + 1 /\ b \in a..n + 1
    /\ \A k \in i..j : k - o \in a..b - 1 /\ k - o \in 1..n /\ text[k - o] = t[k]
    /\ \A c \in Range(cut) : c.stop <= a \/ b <= c.start
    /\ i = 1 => i - o = 1
    /\ j = Len(t) => j - o = n

LEMMA InsideIs ==
  ASSUME NEW text \in Seq(Chars), NEW n \in Nat, Len(text) = n, NEW cut, NEW t \in Seq(Chars),
         NEW i \in DOMAIN t, NEW j \in DOMAIN t, i <= j,
         NEW a, NEW b, NEW o, Inside(t, text, cut, n, i, j, a, b, o)
  PROVE  Corresponds(t, text, cut, n, i, j, a, b, o)
<1>1. /\ a \in 1..n + 1 /\ b \in a..n + 1 /\ o \in Int
      /\ \A p \in a..b - 1 : p + o \in DOMAIN t /\ t[p + o] = text[p]
      /\ (a = 1 /\ o = 0) \/ StarAt(t, a + o - 1)
      /\ \A c \in Range(cut) : c.stop <= a \/ b <= c.start
      /\ a + o <= i /\ j < b + o
  BY DEF Inside, Gap
<1>2. i \in Nat /\ j \in Nat /\ DOMAIN t = 1..Len(t) /\ Len(t) \in Nat
  OBVIOUS
<1>3. ASSUME NEW k \in i..j PROVE k - o \in a..b - 1 /\ k - o \in 1..n /\ text[k - o] = t[k]
  <2>1. PICK p \in Int : p = k - o
    BY <1>1, <1>2
  <2>2. p \in a..b - 1 /\ p \in 1..n /\ p + o = k
    <3>1. /\ a \in Int /\ b \in Int /\ o \in Int /\ k \in Int /\ 1 <= a /\ b <= n + 1
          /\ a + o <= k /\ k < b + o
      BY <1>1, <1>2
    <3>2. p + o = k
      BY <2>1, <3>1
    <3>. QED
      BY <2>1, <3>1, <3>2
  <2>. QED
    BY <1>1, <2>1, <2>2
<1>4. ASSUME i = 1 PROVE i - o = 1
  <2>1. CASE a = 1 /\ o = 0
    BY <1>4, <2>1
  <2>2. CASE StarAt(t, a + o - 1)
    <3>1. a + o - 1 \in 1..Len(t)
      BY <1>2, <2>2 DEF StarAt
    <3>. QED
      BY <1>1, <1>2, <1>4, <3>1
  <2>. QED
    BY <1>1, <2>1, <2>2
<1>5. ASSUME j = Len(t) PROVE j - o = n
  <2>1. CASE StarAt(t, b + o)
    <3>1. b + o \in 1..Len(t)
      BY <1>2, <2>1 DEF StarAt
    <3>2. b + o <= j /\ j < b + o
      BY <1>1, <1>5, <3>1
    <3>3. b \in Int /\ o \in Int /\ j \in Int
      BY <1>1, <1>2
    <3>. QED
      BY <3>2, <3>3
  <2>2. CASE b = n + 1 /\ b + o = Len(t) + 1
    <3>1. b \in Int /\ o \in Int /\ j \in Int
      BY <1>1, <1>2
    <3>2. b + o = j + 1 /\ b = n + 1
      BY <1>5, <2>2
    <3>. QED
      BY <3>1, <3>2
  <2>3. StarAt(t, b + o) \/ (b = n + 1 /\ b + o = Len(t) + 1)
    BY DEF Inside, Closed
  <2>. QED
    BY <2>1, <2>2, <2>3
<1>. QED
  BY <1>1, <1>3, <1>4, <1>5 DEF Corresponds

(* A match of the text that holds a position of a gap, or begins there,    *)
(* begins before the gap, which is behind a star.                          *)
LEMMA BeginsBefore ==
  ASSUME NEW text \in Seq(Chars), NEW n \in Nat, Len(text) = n,
         NEW matches, NEW cut, Cuts(cut, n, matches),
         NEW a \in 1..n + 1, NEW b \in a..n + 1, \A c \in Range(cut) : c.stop <= a \/ b <= c.start,
         NEW m \in Range(matches), m.start \in Nat, NEW p \in a..b - 1, m.start <= p
  PROVE  m.start < a /\ a > 1
<1>1. PICK c \in Range(cut) : c.start <= m.start /\ m.start < c.stop
  BY DEF Cuts
<1>2. c \in Within(n)
  BY DEF Cuts, Range
<1>3. c.start \in Nat /\ c.stop \in Nat /\ 1 <= c.start /\ c.start < c.stop
  BY <1>2 DEF Within, Spans
<1>4. c.stop <= a
  BY <1>1, <1>3
<1>. QED
  BY <1>1, <1>3, <1>4

-----------------------------------------------------------------------------
(* What a second masking would find *)

(* A pattern of l characters, none of them a star. *)
IsPattern(pattern, l) ==
    l \in Nat /\ l > 1 /\ Len(pattern) = l /\ DOMAIN pattern = 1..l /\ \A k \in 1..l : "*" \notin pattern[k]

LEMMA PatternsAre ==
  /\ IsPattern(Ssn, 14) /\ IsPattern(Mobile, 13) /\ IsPattern(Landline, 11)
  /\ IsPattern(Card("-"), 19) /\ IsPattern(Card(" "), 19) /\ IsPattern(BareCard, 16)
<1>0. "*" \notin Digit
  BY DEF Digit
<1>1. IsPattern(Ssn, 14)
  BY <1>0 DEF IsPattern, Ssn
<1>2. IsPattern(Mobile, 13)
  BY <1>0 DEF IsPattern, Mobile
<1>3. IsPattern(Landline, 11)
  BY <1>0 DEF IsPattern, Landline
<1>4. IsPattern(Card("-"), 19)
  BY <1>0 DEF IsPattern, Card
<1>5. IsPattern(Card(" "), 19)
  BY <1>0 DEF IsPattern, Card
<1>6. IsPattern(BareCard, 16)
  BY <1>0 DEF IsPattern, BareCard
<1>. QED
  BY <1>1, <1>2, <1>3, <1>4, <1>5, <1>6

(* What stands in the masked text stood in the text. *)
LEMMA StandsInText ==
  ASSUME NEW text \in Seq(Chars), NEW n \in Nat, Len(text) = n,
         NEW cut, NEW t, Masked(t, text, cut, n),
         NEW pattern, NEW l, IsPattern(pattern, l), NEW i \in DOMAIN t, At(t, i, pattern)
  PROVE  \E a, b, o : /\ Inside(t, text, cut, n, i, i + l - 1, a, b, o)
                      /\ At(text, i - o, pattern)
<1>1. t \in Seq(Chars) /\ DOMAIN t = 1..Len(t) /\ Len(t) \in Nat
  BY DEF Masked
<1>2. l \in Nat /\ l > 1 /\ DOMAIN pattern = 1..l /\ Len(pattern) = l
  BY DEF IsPattern
<1>3. i + l <= Len(t) + 1 /\ \A k \in 1..l : t[i + k - 1] \in pattern[k]
  BY <1>2 DEF At
<1>4. PICK j \in DOMAIN t : j = i + l - 1
  BY <1>1, <1>2, <1>3
<1>5. i < j
  BY <1>1, <1>2, <1>4
<1>6. ASSUME NEW k \in i..j PROVE t[k] # "*"
  <2>1. PICK q \in 1..l : q = k - i + 1
    BY <1>1, <1>2, <1>4
  <2>2. t[i + q - 1] \in pattern[q] /\ i + q - 1 = k
    BY <1>1, <1>3, <2>1
  <2>. QED
    BY <2>2 DEF IsPattern
<1>7. PICK a, b, o : Inside(t, text, cut, n, i, j, a, b, o)
  BY <1>4, <1>5, <1>6, WindowIsInside
<1>8. i <= j
  BY <1>1, <1>5
<1>9. /\ o \in Int /\ \A k \in i..j : k - o \in 1..n /\ text[k - o] = t[k]
  <2>1. Corresponds(t, text, cut, n, i, j, a, b, o)
    BY <1>1, <1>7, <1>8, InsideIs
  <2>. QED
    BY <2>1 DEF Corresponds
<1>10. PICK p \in 1..n : p = i - o
  BY <1>1, <1>8, <1>9
<1>14. i \in Int /\ l \in Int /\ j \in Int /\ o \in Int /\ j = i + l - 1 /\ i < j
  BY <1>1, <1>2, <1>4, <1>5, <1>9
<1>11. p + l <= n + 1
  <2>1. j \in i..j
    BY <1>14
  <2>2. j - o \in 1..n
    BY <1>9, <2>1
  <2>. QED
    <3>1. n \in Int /\ p \in Int /\ p = i - o /\ j - o <= n
      BY <1>10, <1>14, <2>2
    <3>. QED
      BY <1>14, <3>1
<1>12. \A k \in 1..l : text[p + k - 1] \in pattern[k]
  <2>. TAKE k \in 1..l
  <2>1. PICK q \in i..j : q = i + k - 1
    BY <1>14
  <2>2. text[q - o] = t[q]
    BY <1>9, <2>1
  <2>3. q - o = p + k - 1
    BY <1>1, <1>9, <1>10, <2>1
  <2>. QED
    BY <1>3, <2>1, <2>2, <2>3
<1>13. At(text, p, pattern)
  BY <1>2, <1>11, <1>12 DEF At
<1>. QED
  BY <1>4, <1>7, <1>10, <1>13

(* No star touches the characters from i to j. *)
Untouched(t, i, j) == ~StarAt(t, i - 1) /\ ~StarAt(t, j + 1)

(* What stands alone between other characters than stars stood alone. *)
LEMMA StandsAloneInText ==
  ASSUME NEW text \in Seq(Chars), NEW n \in Nat, Len(text) = n,
         NEW cut, NEW t, Masked(t, text, cut, n),
         NEW pattern, NEW l, IsPattern(pattern, l), NEW i \in DOMAIN t, Alone(t, i, pattern),
         Untouched(t, i, i + l - 1)
  PROVE  \E a, b, o : /\ Inside(t, text, cut, n, i, i + l - 1, a, b, o)
                      /\ Alone(text, i - o, pattern)
<1>1. t \in Seq(Chars) /\ DOMAIN t = 1..Len(t) /\ Len(t) \in Nat /\ i \in Nat
  BY DEF Masked
<1>2. l \in Nat /\ l > 1 /\ DOMAIN pattern = 1..l /\ Len(pattern) = l
  BY DEF IsPattern
<1>3. At(t, i, pattern) /\ i + l <= Len(t) + 1
  BY <1>2 DEF Alone, At
<1>4. PICK a, b, o : Inside(t, text, cut, n, i, i + l - 1, a, b, o) /\ At(text, i - o, pattern)
  BY <1>3, StandsInText
<1>5. PICK j \in DOMAIN t : j = i + l - 1
  BY <1>1, <1>2, <1>3
<1>6. i <= j
  BY <1>1, <1>2, <1>5
<1>7. /\ o \in Int /\ a \in Int /\ b \in Int
      /\ i = 1 => i - o = 1
      /\ j = Len(t) => j - o = n
  <2>1. Corresponds(t, text, cut, n, i, j, a, b, o)
    BY <1>1, <1>4, <1>5, <1>6, InsideIs
  <2>. QED
    BY <2>1 DEF Corresponds
<1>8. PICK p : p = i - o
  OBVIOUS
<1>9. /\ (a = 1 /\ o = 0) \/ StarAt(t, a + o - 1)
      /\ StarAt(t, b + o) \/ (b = n + 1 /\ b + o = Len(t) + 1)
      /\ \A q \in a..b - 1 : t[q + o] = text[q]
      /\ a + o <= i /\ j < b + o
  BY <1>4, <1>5 DEF Inside, Gap, Closed
<1>10. p = 1 \/ text[p - 1] \notin Digit
  <2>1. CASE i = 1
    BY <1>7, <1>8, <2>1
  <2>2. CASE i # 1 /\ a + o <= i - 1
    <3>1. PICK q \in Int : q = p - 1
      BY <1>1, <1>7, <1>8
    <3>2. q \in a..b - 1 /\ q + o = i - 1
      <4>1. a \in Int /\ b \in Int /\ o \in Int /\ i \in Int /\ j \in Int /\ l \in Int /\ p = i - o
        BY <1>1, <1>2, <1>5, <1>7, <1>8
      <4>2. q + o = i - 1
        BY <1>8, <3>1, <4>1
      <4>3. i - 1 < b + o
        BY <1>2, <1>5, <1>9, <4>1
      <4>4. q \in Int /\ a + o <= i - 1
        BY <2>2
      <4>. QED
        BY <4>1, <4>2, <4>3, <4>4
    <3>3. t[i - 1] \notin Digit
      BY <2>2 DEF Alone
    <3>4. t[q + o] = text[q]
      BY <1>9, <3>2
    <3>5. t[i - 1] = text[p - 1]
      BY <3>1, <3>2, <3>4
    <3>. QED
      BY <3>3, <3>5
  <2>3. CASE a + o = i
    <3>1. a + o - 1 = i - 1
      BY <1>1, <1>7, <2>3
    <3>2. a = 1 /\ o = 0
      BY <1>9, <3>1 DEF Untouched
    <3>. QED
      BY <1>8, <2>3, <3>2
  <2>. QED
    BY <1>1, <1>7, <1>9, <2>1, <2>2, <2>3
<1>11. p + l > n \/ text[p + l] \notin Digit
  <2>1. CASE j = Len(t)
    BY <1>1, <1>2, <1>5, <1>7, <1>8, <2>1
  <2>2. CASE j # Len(t) /\ j + 1 < b + o
    <3>1. PICK q \in Int : q = p + l
      BY <1>1, <1>2, <1>7, <1>8
    <3>0. j \in Int /\ i + l = j + 1 /\ a + o <= i
      BY <1>1, <1>2, <1>5, <1>9
    <3>2. q + o = i + l
      <4>1. o \in Int /\ i \in Int /\ l \in Int /\ p = i - o
        BY <1>1, <1>2, <1>7, <1>8
      <4>2. q \in Int /\ q = p + l
        BY <3>1
      <4>. QED
        BY <4>1, <4>2
    <3>5. q \in a..b - 1
      <4>1. a \in Int /\ b \in Int /\ o \in Int /\ l \in Int /\ 0 < l /\ i \in Int
        BY <1>1, <1>2, <1>7
      <4>2. q \in Int /\ q + o = j + 1 /\ j + 1 < b + o
        BY <2>2, <3>0, <3>1, <3>2
      <4>3. a + o <= j + 1
        BY <3>0, <4>1
      <4>. QED
        BY <3>0, <4>1, <4>2, <4>3
    <3>3. i + l <= Len(t)
      BY <1>1, <1>2, <1>5, <2>2
    <3>4. t[i + l] \notin Digit
      BY <1>1, <1>2, <3>3 DEF Alone
    <3>. QED
      BY <1>9, <3>1, <3>2, <3>4, <3>5
  <2>3. CASE j + 1 = b + o
    <3>1. b = n + 1 /\ b + o = Len(t) + 1
      BY <1>5, <1>9, <2>3 DEF Untouched
    <3>. QED
      BY <1>1, <1>2, <1>5, <1>7, <1>8, <2>3, <3>1
  <2>. QED
    BY <1>1, <1>5, <1>7, <1>9, <2>1, <2>2, <2>3
<1>12. Alone(text, p, pattern)
  BY <1>2, <1>4, <1>8, <1>10, <1>11 DEF Alone
<1>. QED
  BY <1>4, <1>8, <1>12

(* What the matches are made of. *)
Made(text, m, C) == \A q \in m.start..m.stop - 1 : text[q] \in C

(* A pattern of characters of C. *)
Allows(pattern, l, C) == IsPattern(pattern, l) /\ \A k \in 1..l : pattern[k] \subseteq C

LEMMA PatternMade ==
  ASSUME NEW text \in Seq(Chars), NEW pattern, NEW l, NEW C, Allows(pattern, l, C),
         NEW m, m.start \in Standing(text, pattern), m.stop = m.start + l
  PROVE  Made(text, m, C)
<1>1. PICK i : i = m.start
  OBVIOUS
<1>2. i \in Nat /\ At(text, i, pattern)
  BY <1>1 DEF Standing
<1>3. l \in Nat /\ DOMAIN pattern = 1..l
  BY DEF Allows, IsPattern
<1>4. PICK e \in Nat : e = i + l
  BY <1>2, <1>3
<1>5. ASSUME NEW q \in i..e - 1 PROVE text[q] \in C
  <2>1. PICK k \in 1..l : k = q - i + 1
    BY <1>2, <1>3, <1>4
  <2>2. i + k - 1 = q
    BY <1>2, <1>3, <2>1
  <2>3. text[i + k - 1] \in pattern[k]
    BY <1>2, <1>3 DEF At
  <2>. QED
    BY <2>2, <2>3 DEF Allows
<1>6. m.start = i /\ m.stop = e
  BY <1>1, <1>4
<1>. QED
  BY <1>5, <1>6 DEF Made

LEMMA PatternsAllow ==
  /\ Allows(Ssn, 14, Digit \cup {"-"})
  /\ Allows(Mobile, 13, Digit \cup {"-"}) /\ Allows(Landline, 11, Digit \cup {"-"})
  /\ Allows(Card("-"), 19, Digit \cup {"-", " "}) /\ Allows(Card(" "), 19, Digit \cup {"-", " "})
<1>1. PICK C, D : C = Digit \cup {"-"} /\ D = Digit \cup {"-", " "}
  OBVIOUS
<1>2. "0" \in Digit /\ "1" \in Digit /\ "2" \in Digit
  BY DEF Digit
<1>3. /\ \A k \in 1..14 : Ssn[k] \subseteq C
      /\ \A k \in 1..13 : Mobile[k] \subseteq C
      /\ \A k \in 1..11 : Landline[k] \subseteq C
  BY <1>1, <1>2 DEF Ssn, Mobile, Landline
<1>4. /\ \A k \in 1..19 : Card("-")[k] \subseteq D
      /\ \A k \in 1..19 : Card(" ")[k] \subseteq D
  BY <1>1 DEF Card
<1>5. Allows(Ssn, 14, C) /\ Allows(Mobile, 13, C) /\ Allows(Landline, 11, C)
  BY <1>3, PatternsAre DEF Allows
<1>6. Allows(Card("-"), 19, D) /\ Allows(Card(" "), 19, D)
  BY <1>4, PatternsAre DEF Allows
<1>. QED
  BY <1>1, <1>5, <1>6

LEMMA PhonesMade ==
  ASSUME NEW text \in Seq(Chars), NEW m \in Range(Phones(text))
  PROVE  Made(text, m, Digit \cup {"-"})
<1>1. PICK n \in Nat : n = Len(text)
  OBVIOUS
<1>2. PICK C, k, l : C = Digit \cup {"-"} /\ k = 13 /\ l = 11
  OBVIOUS
<1>3. Allows(Mobile, k, C) /\ Allows(Landline, l, C)
  BY <1>2, PatternsAllow
<1>4. \/ m.start \in Standing(text, Mobile) /\ m.stop = m.start + k
      \/ m.start \in Standing(text, Landline) /\ m.stop = m.start + l
  BY <1>1, <1>2, PhonesAre
<1>. QED
  BY <1>2, <1>3, <1>4, PatternMade

LEMMA SeparatedCardsMade ==
  ASSUME NEW text \in Seq(Chars), NEW m \in Range(SeparatedCards(text))
  PROVE  Made(text, m, Digit \cup {"-", " "})
<1>1. PICK n \in Nat : n = Len(text)
  OBVIOUS
<1>2. PICK C, l : C = Digit \cup {"-", " "} /\ l = 19
  OBVIOUS
<1>3. Allows(Card("-"), l, C) /\ Allows(Card(" "), l, C)
  BY <1>2, PatternsAllow
<1>4. /\ m.stop = m.start + l
      /\ m.start \in Standing(text, Card("-")) \/ m.start \in Standing(text, Card(" "))
  BY <1>1, <1>2, SeparatedCardsAre DEF Standing, StandingAlone, Alone
<1>. QED
  BY <1>2, <1>3, <1>4, PatternMade

LEMMA SsnsMade ==
  ASSUME NEW text \in Seq(Chars), NEW m \in Range(Ssns(text))
  PROVE  Made(text, m, Digit \cup {"-"})
<1>1. PICK n \in Nat : n = Len(text)
  OBVIOUS
<1>2. PICK C, l : C = Digit \cup {"-"} /\ l = 14
  OBVIOUS
<1>3. Allows(Ssn, l, C)
  BY <1>2, PatternsAllow
<1>4. PICK i \in Standing(text, Ssn) : m = Span("ssn", i, i + 14)
  BY <1>1, SsnsAre
<1>5. m.start \in Standing(text, Ssn) /\ m.stop = m.start + l
  BY <1>2, <1>4 DEF Span
<1>. QED
  BY <1>2, <1>3, <1>5, PatternMade

LEMMA EmailsMade ==
  ASSUME NEW text \in Seq(Chars), NEW m \in Range(Emails(text))
  PROVE  Made(text, m, LocalPart \cup {"@"})
<1>1. PICK n \in Nat : n = Len(text)
  OBVIOUS
<1>2. PICK i \in 1..n : IsEmail(text, i) /\ m = Span("email", EmailFrom(text, i), EmailTo(text, i))
  BY <1>1, EmailsAre
<1>3. PICK f, t : f = EmailFrom(text, i) /\ t = EmailTo(text, i)
  OBVIOUS
<1>4. m.start = f /\ m.stop = t
  BY <1>2, <1>3 DEF Span
<1>5. /\ f \in 1..i /\ \A j \in f..(i - 1) : text[j] \in LocalPart
      /\ t \in (i + 1)..(n + 1) /\ \A j \in (i + 1)..(t - 1) : text[j] \in Domain
  BY <1>1, <1>3, EmailEnds
<1>6. text[i] = "@" /\ Domain \subseteq LocalPart
  BY <1>2 DEF IsEmail, Domain, LocalPart
<1>7. \A q \in f..t - 1 : q \in f..(i - 1) \/ q = i \/ q \in (i + 1)..(t - 1)
  BY <1>5
<1>8. \A q \in f..t - 1 : text[q] \in LocalPart \cup {"@"}
  BY <1>5, <1>6, <1>7
<1>. QED
  BY <1>4, <1>8 DEF Made

LEMMA BeforeMade ==
  ASSUME NEW text \in Seq(Chars), NEW m \in Range(Before(text))
  PROVE  Made(text, m, LocalPart \cup {"@", " "})
<1>1. PICK n \in Nat : n = Len(text)
  OBVIOUS
<1>2. m \in Range(Ssns(text)) \cup Range(Phones(text)) \cup Range(Emails(text)) \cup Range(SeparatedCards(text))
  BY <1>1, DetectIs
<1>3. Digit \cup {"-"} \subseteq LocalPart
  BY DEF LocalPart
<1>4. ASSUME NEW C, C \subseteq LocalPart \cup {"@", " "}, Made(text, m, C)
      PROVE  Made(text, m, LocalPart \cup {"@", " "})
  BY <1>4 DEF Made
<1>5. CASE m \in Range(Ssns(text))
  BY <1>3, <1>4, <1>5, SsnsMade
<1>6. CASE m \in Range(Phones(text))
  BY <1>3, <1>4, <1>6, PhonesMade
<1>7. CASE m \in Range(Emails(text))
  BY <1>4, <1>7, EmailsMade
<1>8. CASE m \in Range(SeparatedCards(text))
  <2>1. Digit \cup {"-", " "} \subseteq LocalPart \cup {"@", " "}
    BY <1>3
  <2>. QED
    BY <1>4, <1>8, <2>1, SeparatedCardsMade
<1>. QED
  BY <1>2, <1>5, <1>6, <1>7, <1>8

(* Behind a star, with nothing but characters of C between. *)
BehindStar(t, i, C) ==
    \E j \in 1..(i - 1) : t[j] = "*" /\ \A k \in (j + 1)..(i - 1) : t[k] \in C

(* What is left over of a match that was found in the text. *)
LEMMA LeftOver ==
  ASSUME NEW text \in Seq(Chars), NEW n \in Nat, Len(text) = n,
         NEW matches \in Seq(Within(n)), NEW cut, Cuts(cut, n, matches),
         NEW t, Masked(t, text, cut, n), NEW i \in DOMAIN t, NEW j \in DOMAIN t, i <= j,
         NEW a, NEW b, NEW o, Inside(t, text, cut, n, i, j, a, b, o),
         NEW m \in Range(matches), m.start <= i - o, i - o <= m.stop, NEW C, Made(text, m, C)
  PROVE  m.start < i - o /\ BehindStar(t, i, C)
<1>1. t \in Seq(Chars) /\ DOMAIN t = 1..Len(t) /\ Len(t) \in Nat
  BY DEF Masked
<1>2. Corresponds(t, text, cut, n, i, j, a, b, o)
  BY <1>1, InsideIs
<1>3. /\ o \in Int /\ a \in 1..n + 1 /\ b \in a..n + 1
      /\ \A c \in Range(cut) : c.stop <= a \/ b <= c.start
  BY <1>2 DEF Corresponds
<1>4. /\ \A p \in a..b - 1 : p + o \in DOMAIN t /\ t[p + o] = text[p]
      /\ (a = 1 /\ o = 0) \/ StarAt(t, a + o - 1)
      /\ a + o <= i /\ j < b + o
  BY DEF Inside, Gap
<1>5. PICK p \in Int : p = i - o
  BY <1>1, <1>3
<1>6. p \in a..b - 1
  BY <1>1, <1>3, <1>4, <1>5
<1>7. m.start \in Nat /\ m.stop \in Nat
  BY DEF Range, Within, Spans
<1>8. m.start < a /\ a > 1
  BY <1>3, <1>5, <1>6, <1>7, BeginsBefore
<1>9. PICK s : s = a + o - 1
  OBVIOUS
<1>10. StarAt(t, s)
  BY <1>4, <1>8, <1>9
<1>11. s \in 1..(i - 1) /\ t[s] = "*"
  BY <1>1, <1>3, <1>4, <1>9, <1>10 DEF StarAt
<1>12. ASSUME NEW k \in (s + 1)..(i - 1) PROVE t[k] \in C
  <2>1. PICK q \in Int : q = k - o
    BY <1>1, <1>3, <1>9
  <2>2. q \in a..b - 1 /\ q + o = k /\ q < p
    <3>1. /\ a \in Int /\ b \in Int /\ o \in Int /\ i \in Int /\ k \in Int
          /\ p = i - o /\ p <= b - 1 /\ a + o <= k /\ k < i
      <4>1. a \in Int /\ b \in Int /\ o \in Int /\ i \in Int /\ s \in Int
        BY <1>1, <1>3, <1>11
      <4>2. k \in Int /\ s + 1 <= k /\ k < i
        BY <4>1
      <4>3. p = i - o /\ p <= b - 1
        BY <1>5, <1>6, <4>1
      <4>4. a + o <= k
        BY <1>9, <4>1, <4>2
      <4>. QED
        BY <4>1, <4>2, <4>3, <4>4
    <3>2. q + o = k
      BY <2>1, <3>1
    <3>3. q \in Int /\ q = k - o
      BY <2>1
    <3>. QED
      BY <3>1, <3>2, <3>3
  <2>3. q \in m.start..m.stop - 1
    BY <1>3, <1>5, <1>6, <1>7, <1>8, <2>2
  <2>4. text[q] \in C
    BY <2>3 DEF Made
  <2>. QED
    BY <1>4, <2>2, <2>4
<1>13. BehindStar(t, i, C)
  BY <1>11, <1>12 DEF BehindStar
<1>. QED
  BY <1>3, <1>5, <1>6, <1>7, <1>8, <1>13

(* The masked text t, and what was found and replaced in the text. *)
Masking(text, n, matches, cut, t) ==
    /\ text \in Seq(Chars) /\ n \in Nat /\ Len(text) = n
    /\ matches = Detect(text) /\ matches \in Seq(Within(n))
    /\ Cuts(cut, n, matches) /\ Masked(t, text, cut, n)

(* Of a match that holds the position p of the text, or ends there, there  *)
(* is something left over before the position i of the masked text.        *)
LeavesOver(text, matches, t, i, p) ==
    \A m \in Range(matches) :
        m.start <= p /\ p <= m.stop =>
            m.start < p /\ \A C : Made(text, m, C) => BehindStar(t, i, C)

LEMMA InsideLeavesOver ==
  ASSUME NEW text, NEW n, NEW matches, NEW cut, NEW t, Masking(text, n, matches, cut, t),
         NEW i \in DOMAIN t, NEW j \in DOMAIN t, i <= j,
         NEW a, NEW b, NEW o, Inside(t, text, cut, n, i, j, a, b, o), NEW p, p = i - o
  PROVE  LeavesOver(text, matches, t, i, p)
<1>. SUFFICES ASSUME NEW m \in Range(matches), m.start <= p, p <= m.stop
              PROVE  m.start < p /\ \A C : Made(text, m, C) => BehindStar(t, i, C)
  BY DEF LeavesOver
<1>1. /\ text \in Seq(Chars) /\ n \in Nat /\ Len(text) = n /\ matches \in Seq(Within(n))
      /\ Cuts(cut, n, matches) /\ Masked(t, text, cut, n)
  BY DEF Masking
<1>2. ASSUME NEW C, Made(text, m, C) PROVE m.start < p /\ BehindStar(t, i, C)
  BY <1>1, <1>2, LeftOver
<1>3. PICK C : C = Chars
  OBVIOUS
<1>4. Made(text, m, C)
  <2>1. m \in Within(n)
    BY <1>1 DEF Range
  <2>2. m.start \in Nat /\ m.stop \in Nat /\ 1 <= m.start /\ m.stop <= n + 1
    BY <2>1 DEF Within, Spans
  <2>3. \A q \in 1..n : text[q] \in Chars
    BY <1>1
  <2>. QED
    BY <1>1, <1>3, <2>2, <2>3 DEF Made
<1>. QED
  BY <1>2, <1>4

LEMMA StoodThere ==
  ASSUME NEW text, NEW n, NEW matches, NEW cut, NEW t, Masking(text, n, matches, cut, t),
         NEW pattern, NEW l, IsPattern(pattern, l), NEW i \in DOMAIN t, At(t, i, pattern)
  PROVE  \E p \in Standing(text, pattern) : LeavesOver(text, matches, t, i, p)
<1>1. text \in Seq(Chars) /\ n \in Nat /\ Len(text) = n /\ Masked(t, text, cut, n)
  BY DEF Masking
<1>2. PICK a, b, o : Inside(t, text, cut, n, i, i + l - 1, a, b, o) /\ At(text, i - o, pattern)
  BY <1>1, StandsInText
<1>3. t \in Seq(Chars) /\ DOMAIN t = 1..Len(t) /\ Len(t) \in Nat /\ i \in Nat
  BY <1>1 DEF Masked
<1>4. l \in Nat /\ l > 1 /\ i + l <= Len(t) + 1
  BY DEF IsPattern, At
<1>5. PICK j \in DOMAIN t : j = i + l - 1
  BY <1>3, <1>4
<1>6. i <= j
  BY <1>3, <1>4, <1>5
<1>7. Corresponds(t, text, cut, n, i, j, a, b, o)
  BY <1>1, <1>2, <1>3, <1>5, <1>6, InsideIs
<1>8. PICK p \in 1..n : p = i - o
  BY <1>3, <1>6, <1>7 DEF Corresponds
<1>9. p \in Standing(text, pattern)
  BY <1>1, <1>2, <1>8 DEF Standing
<1>10. LeavesOver(text, matches, t, i, p)
  BY <1>2, <1>5, <1>6, <1>8, InsideLeavesOver
<1>. QED
  BY <1>9, <1>10

LEMMA StoodAlone ==
  ASSUME NEW text, NEW n, NEW matches, NEW cut, NEW t, Masking(text, n, matches, cut, t),
         NEW pattern, NEW l, IsPattern(pattern, l), NEW i \in DOMAIN t, Alone(t, i, pattern),
         Untouched(t, i, i + l - 1)
  PROVE  \E p \in StandingAlone(text, pattern) : LeavesOver(text, matches, t, i, p)
<1>1. text \in Seq(Chars) /\ n \in Nat /\ Len(text) = n /\ Masked(t, text, cut, n)
  BY DEF Masking
<1>2. PICK a, b, o : Inside(t, text, cut, n, i, i + l - 1, a, b, o) /\ Alone(text, i - o, pattern)
  BY <1>1, StandsAloneInText
<1>3. t \in Seq(Chars) /\ DOMAIN t = 1..Len(t) /\ Len(t) \in Nat /\ i \in Nat
  BY <1>1 DEF Masked
<1>4. l \in Nat /\ l > 1 /\ i + l <= Len(t) + 1
  BY DEF IsPattern, Alone, At
<1>5. PICK j \in DOMAIN t : j = i + l - 1
  BY <1>3, <1>4
<1>6. i <= j
  BY <1>3, <1>4, <1>5
<1>7. Corresponds(t, text, cut, n, i, j, a, b, o)
  BY <1>1, <1>2, <1>3, <1>5, <1>6, InsideIs
<1>8. PICK p \in 1..n : p = i - o
  BY <1>3, <1>6, <1>7 DEF Corresponds
<1>9. p \in StandingAlone(text, pattern)
  BY <1>1, <1>2, <1>8 DEF StandingAlone
<1>10. LeavesOver(text, matches, t, i, p)
  BY <1>2, <1>5, <1>6, <1>8, InsideLeavesOver
<1>. QED
  BY <1>9, <1>10

-----------------------------------------------------------------------------
(* What MaskedTextIsClean says of what a second masking would find. *)
Clean(t, f) ==
    /\ f.kind # "ssn"
    /\ \/ f.stop <= Len(t) /\ t[f.stop] = "*"
       \/ BehindStar(t, f.start, Left(f.kind))

LEMMA BehindAnyOf ==
  ASSUME NEW t, NEW i, NEW C, NEW D, C \subseteq D, BehindStar(t, i, C)
  PROVE  BehindStar(t, i, D)
BY DEF BehindStar

LEMMA StarBefore ==
  ASSUME NEW t \in Seq(Chars), NEW i \in Nat, StarAt(t, i - 1), NEW C
  PROVE  BehindStar(t, i, C)
<1>1. PICK s \in 1..(i - 1) : s = i - 1 /\ t[s] = "*"
  BY DEF StarAt
<1>2. (s + 1)..(i - 1) = {}
  BY <1>1
<1>. QED
  BY <1>1, <1>2 DEF BehindStar

LEMMA MatchesLie ==
  ASSUME NEW text, NEW n, NEW matches, NEW cut, NEW t, Masking(text, n, matches, cut, t),
         NEW m \in Range(matches)
  PROVE  m.start \in Nat /\ m.stop \in Nat /\ m.start < m.stop /\ m.stop <= n + 1
<1>1. matches \in Seq(Within(n))
  BY DEF Masking
<1>2. m \in Within(n)
  BY <1>1 DEF Range
<1>. QED
  BY <1>2 DEF Within, Spans

LEMMA Sooner ==
  ASSUME NEW p \in Nat, NEW q \in Nat, p < q
  PROVE  p <= q
OBVIOUS

LEMMA PatternsStand ==
  ASSUME NEW text \in Seq(Chars), NEW pattern
  PROVE  /\ Standing(text, pattern) \subseteq Nat /\ Standing(text, pattern) \subseteq DOMAIN text
         /\ StandingAlone(text, pattern) \subseteq Nat /\ StandingAlone(text, pattern) \subseteq DOMAIN text
BY DEF Standing, StandingAlone

LEMMA SsnsAreGone ==
  ASSUME NEW text, NEW n, NEW matches, NEW cut, NEW t, Masking(text, n, matches, cut, t),
         NEW i \in DOMAIN t, At(t, i, Ssn)
  PROVE  FALSE
<1>1. text \in Seq(Chars) /\ n \in Nat /\ Len(text) = n /\ matches = Detect(text)
  BY DEF Masking
<1>2. PICK l : l = 14
  OBVIOUS
<1>3. IsPattern(Ssn, l)
  BY <1>2, PatternsAre
<1>4. PICK p \in Standing(text, Ssn) : LeavesOver(text, matches, t, i, p)
  BY <1>3, StoodThere
<1>5. p \in Nat
  BY <1>1, <1>4 DEF Standing
<1>6. PICK m : m = Span("ssn", p, p + 14)
  OBVIOUS
<1>7. m \in Range(matches)
  BY <1>1, <1>4, <1>6, SsnsAre, DetectIs
<1>8. m.start = p /\ m.stop = p + 14
  BY <1>6 DEF Span
<1>. QED
  BY <1>4, <1>5, <1>7, <1>8 DEF LeavesOver

LEMMA PhonesAreClean ==
  ASSUME NEW text, NEW n, NEW matches, NEW cut, NEW t, Masking(text, n, matches, cut, t),
         NEW f \in Range(Phones(t))
  PROVE  Clean(t, f)
<1>1. text \in Seq(Chars) /\ n \in Nat /\ Len(text) = n /\ matches = Detect(text) /\ t \in Seq(Chars)
  BY DEF Masking, Masked
<1>2. PICK k, l, h : k = 13 /\ l = 11 /\ h = Len(t)
  OBVIOUS
<1>0. k \in Nat /\ l \in Nat /\ h \in Nat
  BY <1>1, <1>2
<1>3. IsPattern(Mobile, k) /\ IsPattern(Landline, l)
  BY <1>2, PatternsAre
<1>4. PICK i : i = f.start
  OBVIOUS
<1>5. f.kind = "phone" /\ (i \in Standing(t, Mobile) \/ i \in Standing(t, Landline))
  BY <1>1, <1>2, <1>4, PhonesAre DEF OfKind
<1>6. PICK p \in Standing(text, Mobile) \cup Standing(text, Landline) : LeavesOver(text, matches, t, i, p)
  <2>1. CASE i \in Standing(t, Mobile)
    <3>1. i \in DOMAIN t /\ At(t, i, Mobile)
      BY <2>1 DEF Standing
    <3>. QED
      BY <1>3, <3>1, StoodThere
  <2>2. CASE i \in Standing(t, Landline)
    <3>1. i \in DOMAIN t /\ At(t, i, Landline)
      BY <2>2 DEF Standing
    <3>. QED
      BY <1>3, <3>1, StoodThere
  <2>. QED
    BY <1>5, <2>1, <2>2
<1>7. PICK m \in Range(Phones(text)) : m.start <= p /\ p < m.stop
  BY <1>1, <1>6, PhonesAre
<1>8. m \in Range(matches) /\ Made(text, m, Digit \cup {"-"})
  BY <1>1, <1>7, DetectIs, PhonesMade
<1>9. p <= m.stop
  <2>1. m.stop \in Nat
    BY <1>8, MatchesLie
  <2>2. p \in Nat
    BY <1>1, <1>6, PatternsStand
  <2>. QED
    BY <1>7, <2>1, <2>2
<1>10. BehindStar(t, i, Digit \cup {"-"})
  BY <1>6, <1>7, <1>8, <1>9 DEF LeavesOver
<1>. QED
  BY <1>4, <1>5, <1>10 DEF Clean, Left

LEMMA SeparatedCardsAreClean ==
  ASSUME NEW text, NEW n, NEW matches, NEW cut, NEW t, Masking(text, n, matches, cut, t),
         NEW f \in Range(SeparatedCards(t))
  PROVE  Clean(t, f)
<1>1. text \in Seq(Chars) /\ n \in Nat /\ Len(text) = n /\ matches = Detect(text) /\ t \in Seq(Chars)
  BY DEF Masking, Masked
<1>2. PICK l, h : l = 19 /\ h = Len(t)
  OBVIOUS
<1>0. l \in Nat /\ h \in Nat
  BY <1>1, <1>2
<1>3. IsPattern(Card("-"), l) /\ IsPattern(Card(" "), l)
  BY <1>2, PatternsAre
<1>4. PICK i : i = f.start
  OBVIOUS
<1>5. /\ f.kind = "card" /\ f.stop = i + l
      /\ i \in Standing(t, Card("-")) \/ i \in StandingAlone(t, Card(" "))
  BY <1>0, <1>1, <1>2, <1>4, SeparatedCardsAre DEF OfKind
<1>6. i \in DOMAIN t /\ i \in Nat
  BY <1>1, <1>5, PatternsStand
<1>7. CASE StarAt(t, i + l)
  <2>1. PICK e : e = i + l
    OBVIOUS
  <2>2. e \in DOMAIN t /\ t[e] = "*"
    BY <1>7, <2>1 DEF StarAt
  <2>3. e <= Len(t)
    BY <1>1, <2>2
  <2>4. f.stop = e /\ f.kind # "ssn"
    BY <1>5, <2>1
  <2>. QED
    BY <2>2, <2>3, <2>4 DEF Clean
<1>8. CASE StarAt(t, i - 1)
  BY <1>1, <1>4, <1>5, <1>6, <1>8, StarBefore DEF Clean
<1>9. CASE ~StarAt(t, i + l) /\ ~StarAt(t, i - 1)
  <2>1. Untouched(t, i, i + l - 1)
    BY <1>2, <1>6, <1>9 DEF Untouched
  <2>2. PICK p \in Standing(text, Card("-")) \cup StandingAlone(text, Card(" ")) :
            LeavesOver(text, matches, t, i, p)
    <3>1. CASE i \in Standing(t, Card("-"))
      <4>1. At(t, i, Card("-"))
        BY <3>1 DEF Standing
      <4>. QED
        BY <1>3, <1>6, <4>1, StoodThere
    <3>2. CASE i \in StandingAlone(t, Card(" "))
      <4>1. Alone(t, i, Card(" "))
        BY <3>2 DEF StandingAlone
      <4>. QED
        BY <1>3, <1>6, <2>1, <4>1, StoodAlone
    <3>. QED
      BY <1>5, <3>1, <3>2
  <2>3. PICK m \in Range(SeparatedCards(text)) : m.start <= p /\ p < m.stop
    BY <1>1, <2>2, SeparatedCardsAre
  <2>4. m \in Range(matches) /\ Made(text, m, Digit \cup {"-", " "})
    BY <1>1, <2>3, DetectIs, SeparatedCardsMade
  <2>5. p <= m.stop
    <3>1. m.stop \in Nat
      BY <2>4, MatchesLie
    <3>2. p \in Nat
      BY <1>1, <2>2, PatternsStand
    <3>3. p < m.stop
      BY <2>3
    <3>. QED
      BY <3>1, <3>2, <3>3, Sooner
  <2>6. BehindStar(t, i, Digit \cup {"-", " "})
    BY <2>2, <2>3, <2>4, <2>5 DEF LeavesOver
  <2>7. Digit \cup {"-", " "} \subseteq LocalPart \cup {"@", " "}
    BY DEF LocalPart
  <2>8. BehindStar(t, i, LocalPart \cup {"@", " "})
    BY <2>6, <2>7, BehindAnyOf
  <2>. QED
    BY <1>4, <1>5, <2>8 DEF Clean, Left
<1>. QED
  BY <1>7, <1>8, <1>9

LEMMA BareCardsAreClean ==
  ASSUME NEW text, NEW n, NEW matches, NEW cut, NEW t, Masking(text, n, matches, cut, t),
         NEW before, NEW f \in Range(BareCards(t, before))
  PROVE  Clean(t, f)
<1>1. text \in Seq(Chars) /\ n \in Nat /\ Len(text) = n /\ matches = Detect(text) /\ t \in Seq(Chars)
  BY DEF Masking, Masked
<1>2. PICK l, h \in Nat : l = 16 /\ h = Len(t)
  BY <1>1
<1>3. IsPattern(BareCard, l)
  BY <1>2, PatternsAre
<1>4. PICK i : i = f.start
  OBVIOUS
<1>5. f.kind = "card" /\ f.stop = i + l /\ i \in StandingAlone(t, BareCard)
  BY <1>1, <1>2, <1>4, BareCardsAre DEF OfKind
<1>6. i \in DOMAIN t /\ i \in Nat /\ Alone(t, i, BareCard)
  BY <1>1, <1>5 DEF StandingAlone
<1>7. CASE StarAt(t, i + l)
  BY <1>1, <1>2, <1>5, <1>6, <1>7 DEF StarAt, Clean
<1>8. CASE StarAt(t, i - 1)
  BY <1>1, <1>4, <1>5, <1>6, <1>8, StarBefore DEF Clean
<1>9. CASE ~StarAt(t, i + l) /\ ~StarAt(t, i - 1)
  <2>1. Untouched(t, i, i + l - 1)
    BY <1>2, <1>6, <1>9 DEF Untouched
  <2>2. PICK p \in StandingAlone(text, BareCard) : LeavesOver(text, matches, t, i, p)
    BY <1>3, <1>6, <2>1, StoodAlone
  <2>3. p \in Nat
    BY <1>1, <2>2, PatternsStand
  <2>4. ASSUME NEW m \in Range(BareCards(text, Before(text))), m.start = p PROVE FALSE
    <3>1. m \in Range(matches)
      BY <1>1, DetectIs
    <3>2. p <= m.stop
      BY <2>3, <2>4, <3>1, MatchesLie
    <3>. QED
      BY <2>2, <2>3, <2>4, <3>1, <3>2 DEF LeavesOver
  <2>5. PICK q \in Range(Before(text)) : q.start <= p /\ p + 16 <= q.stop
    BY <1>1, <2>2, <2>4, BareCardsAre
  <2>6. q \in Range(matches) /\ Made(text, q, LocalPart \cup {"@", " "})
    BY <1>1, <2>5, DetectIs, BeforeMade
  <2>7. p <= q.stop
    <3>1. q.stop \in Nat
      BY <2>6, MatchesLie
    <3>. QED
      BY <2>3, <2>5, <3>1
  <2>8. BehindStar(t, i, LocalPart \cup {"@", " "})
    BY <2>2, <2>5, <2>6, <2>7 DEF LeavesOver
  <2>. QED
    BY <1>4, <1>5, <2>8 DEF Clean, Left
<1>. QED
  BY <1>7, <1>8, <1>9

(* What is around an untouched part of the masked text was around it. *)
Around(t, text, n, i, j, o) ==
    /\ i = 1 \/ (i - 1 - o \in 1..n /\ text[i - 1 - o] = t[i - 1])
    /\ j = Len(t) \/ (j + 1 - o \in 1..n /\ text[j + 1 - o] = t[j + 1])

LEMMA AroundIs ==
  ASSUME NEW text \in Seq(Chars), NEW n \in Nat, Len(text) = n, NEW cut, NEW t \in Seq(Chars),
         NEW i \in DOMAIN t, NEW j \in DOMAIN t, i <= j, Untouched(t, i, j),
         NEW a, NEW b, NEW o, Inside(t, text, cut, n, i, j, a, b, o)
  PROVE  Around(t, text, n, i, j, o)
<1>1. /\ a \in 1..n + 1 /\ b \in a..n + 1 /\ o \in Int
      /\ \A q \in a..b - 1 : q + o \in DOMAIN t /\ t[q + o] = text[q]
      /\ (a = 1 /\ o = 0) \/ StarAt(t, a + o - 1)
      /\ StarAt(t, b + o) \/ (b = n + 1 /\ b + o = Len(t) + 1)
      /\ a + o <= i /\ j < b + o
  BY DEF Inside, Gap, Closed
<1>2. i \in Nat /\ j \in Nat /\ DOMAIN t = 1..Len(t) /\ Len(t) \in Nat
  OBVIOUS
<1>0. a \in Int /\ b \in Int /\ 1 <= a /\ b <= n + 1 /\ a + o <= i /\ j < b + o /\ o \in Int
  BY <1>1
<1>3. ASSUME i # 1 PROVE i - 1 - o \in 1..n /\ text[i - 1 - o] = t[i - 1]
  <2>1. a + o # i
    <3>. SUFFICES ASSUME a + o = i PROVE FALSE
      OBVIOUS
    <3>1. a + o - 1 = i - 1
      BY <1>1, <1>2
    <3>2. a = 1 /\ o = 0
      BY <1>1, <3>1 DEF Untouched
    <3>. QED
      BY <1>3, <3>2
  <2>2. PICK q \in Int : q = i - 1 - o
    BY <1>1, <1>2
  <2>3. q \in a..b - 1 /\ q \in 1..n /\ q + o = i - 1
    BY <1>0, <1>2, <2>1, <2>2
  <2>. QED
    BY <1>1, <2>2, <2>3
<1>4. ASSUME j # Len(t) PROVE j + 1 - o \in 1..n /\ text[j + 1 - o] = t[j + 1]
  <2>1. b + o # j + 1
    <3>. SUFFICES ASSUME b + o = j + 1 PROVE FALSE
      OBVIOUS
    <3>1. b + o = Len(t) + 1
      BY <1>1 DEF Untouched
    <3>. QED
      BY <1>2, <1>4, <3>1
  <2>2. PICK q \in Int : q = j + 1 - o
    BY <1>1, <1>2
  <2>3. q \in a..b - 1 /\ q \in 1..n /\ q + o = j + 1
    BY <1>0, <1>2, <2>1, <2>2
  <2>. QED
    BY <1>1, <2>2, <2>3
<1>. QED
  BY <1>3, <1>4 DEF Around

(* Positions from from to last of the masked text, of length h, were there. *)
Copied(t, h, text, n, from, last, o) ==
    /\ o \in Int /\ \A k \in from..last : k - o \in 1..n /\ text[k - o] = t[k]
    /\ Around(t, text, n, from, last, o)
    /\ from = 1 => from - o = 1
    /\ last = h => last - o = n

(* The ends of the address around an @. *)
Address(t, i, from, to) == IsEmail(t, i) /\ from = EmailFrom(t, i) /\ to = EmailTo(t, i)

(* The address around an @ is the same where all of it was. *)
LEMMA SameAddress ==
  ASSUME NEW text \in Seq(Chars), NEW n \in Nat, Len(text) = n,
         NEW t \in Seq(Chars), NEW h \in Nat, Len(t) = h, NEW i \in 1..h,
         NEW from, NEW to, Address(t, i, from, to), NEW last, last = to - 1,
         NEW o \in Int, Copied(t, h, text, n, from, last, o), NEW p, p = i - o
  PROVE  p \in 1..n /\ IsEmail(text, p) /\ EmailFrom(text, p) = from - o
<1>1. /\ from \in 1..i /\ \A j \in from..(i - 1) : t[j] \in LocalPart
      /\ \A k \in 1..i : (\A j \in k..(i - 1) : t[j] \in LocalPart) => from <= k
      /\ to \in (i + 1)..(h + 1) /\ \A j \in (i + 1)..(to - 1) : t[j] \in Domain
      /\ \A k \in (i + 1)..(h + 1) : (\A j \in (i + 1)..(k - 1) : t[j] \in Domain) => k <= to
  BY EmailEnds DEF Address
<1>2. /\ t[i] = "@" /\ from < i
      /\ \E dot \in (i + 1)..(to - 3) : t[dot] = "." /\ \A j \in (dot + 1)..(to - 1) : t[j] = "a"
  BY DEF IsEmail, Address
<1>3. /\ from \in Nat /\ to \in Nat /\ last \in Nat /\ i \in Nat
      /\ last = to - 1 /\ i <= last /\ from <= i /\ i + 1 <= to /\ to <= h + 1
  BY <1>1
<1>12. \A k \in from..last : k - o \in 1..n /\ text[k - o] = t[k]
  BY DEF Copied
<1>4. p \in 1..n /\ p \in Int /\ text[p] = "@" /\ p + o = i
  <2>1. i \in from..last
    BY <1>3
  <2>. QED
    BY <1>2, <1>3, <1>12, <2>1
<1>13. p \in Int /\ o \in Int /\ n \in Int /\ p + o = i /\ to \in Int /\ last \in Int /\ i \in Int
  BY <1>3, <1>4
<1>14. /\ from \in Int /\ h \in Int /\ last + 1 = to /\ 1 <= from /\ from <= i /\ i <= last
       /\ to <= h + 1 /\ 1 <= p /\ p <= n
  BY <1>1, <1>3, <1>4
<1>5. PICK F, T : F = EmailFrom(text, p) /\ T = EmailTo(text, p)
  OBVIOUS
<1>6. /\ F \in 1..p /\ \A j \in F..(p - 1) : text[j] \in LocalPart
      /\ \A k \in 1..p : (\A j \in k..(p - 1) : text[j] \in LocalPart) => F <= k
      /\ T \in (p + 1)..(n + 1) /\ \A j \in (p + 1)..(T - 1) : text[j] \in Domain
      /\ \A k \in (p + 1)..(n + 1) : (\A j \in (p + 1)..(k - 1) : text[j] \in Domain) => k <= T
  BY <1>4, <1>5, EmailEnds
<1>0. F \in Nat /\ T \in Nat /\ F <= p /\ T <= n + 1 /\ p + 1 <= T
  BY <1>4, <1>6
<1>7. F = from - o
  <2>1. PICK g \in 1..p : g = from - o
    <3>1. from \in from..last
      BY <1>3
    <3>2. from - o \in 1..n
      BY <1>12, <3>1
    <3>. QED
      BY <1>3, <1>4, <3>2
  <2>2. ASSUME NEW j \in g..(p - 1) PROVE text[j] \in LocalPart
    <3>1. PICK k \in from..(i - 1) : k = j + o
      BY <1>1, <1>3, <1>4, <2>1
    <3>2. k \in from..last /\ k - o = j
      BY <1>3, <1>4, <2>1, <3>1
    <3>3. text[k - o] = t[k] /\ t[k] \in LocalPart
      BY <1>1, <1>12, <3>1, <3>2
    <3>. QED
      BY <3>2, <3>3
  <2>3. F <= g
    BY <1>6, <2>2
  <2>4. ~(F < g)
    <3>. SUFFICES ASSUME F < g PROVE FALSE
      OBVIOUS
    <3>10. Around(t, text, n, from, last, o)
      BY DEF Copied
    <3>1. from # 1
      <4>1. ASSUME from = 1 PROVE g = 1
        BY <2>1, <4>1 DEF Copied
      <4>. QED
        BY <1>0, <1>6, <4>1
    <3>2. text[from - 1 - o] = t[from - 1]
      BY <3>1, <3>10 DEF Around
    <3>3. PICK q \in F..(p - 1) : q = g - 1
      BY <1>0, <1>13, <2>1
    <3>4. q = from - 1 - o
      BY <1>13, <1>14, <2>1, <3>3
    <3>5. t[from - 1] \in LocalPart
      <4>1. text[q] \in LocalPart
        BY <1>6, <3>3
      <4>. QED
        BY <3>2, <3>4, <4>1
    <3>6. PICK k \in 1..i : k = from - 1
      BY <1>13, <1>14, <3>1
    <3>7. \A j \in k..(i - 1) : j = k \/ j \in from..(i - 1)
      BY <1>13, <1>14, <3>6
    <3>8. \A j \in k..(i - 1) : t[j] \in LocalPart
      BY <1>1, <3>5, <3>6, <3>7
    <3>9. from <= k
      BY <1>1, <3>8
    <3>. QED
      BY <1>13, <1>14, <3>6, <3>9
  <2>. QED
    BY <1>0, <2>1, <2>3, <2>4
<1>8. T = to - o
  <2>1. PICK g \in Int : g = to - o
    BY <1>3
  <2>0. g + o = to
    BY <1>13, <2>1
  <2>2. last - o \in 1..n
    <3>1. last \in from..last
      BY <1>3
    <3>. QED
      BY <1>12, <3>1
  <2>3. g \in (p + 1)..(n + 1)
    <3>1. last - o <= n
      BY <1>3, <2>2
    <3>2. g + o = to
      BY <1>13, <2>1
    <3>3. p + 1 <= g
      BY <1>3, <1>13, <3>2
    <3>5. g \in Int /\ p \in Int /\ n \in Int
      BY <1>13, <2>1
    <3>4. g <= n + 1
      <4>1. last = to - 1 /\ last \in Int /\ to \in Int /\ o \in Int
        BY <1>3, <1>13
      <4>2. last - o = g - 1
        BY <3>2, <3>5, <4>1
      <4>. QED
        BY <3>1, <3>5, <4>1, <4>2
    <3>. QED
      BY <3>3, <3>4, <3>5
  <2>4. ASSUME NEW j \in (p + 1)..(g - 1) PROVE text[j] \in Domain
    <3>0. j \in Int /\ p + 1 <= j /\ j <= g - 1
      BY <1>4, <2>1
    <3>1. PICK k \in (i + 1)..(to - 1) : k = j + o
      BY <1>13, <2>0, <3>0
    <3>2. k \in from..last /\ k - o = j
      BY <1>3, <3>0, <3>1
    <3>3. text[k - o] = t[k] /\ t[k] \in Domain
      BY <1>1, <1>12, <3>1, <3>2
    <3>. QED
      BY <3>2, <3>3
  <2>5. g <= T
    BY <1>6, <2>3, <2>4
  <2>6. ~(g < T)
    <3>. SUFFICES ASSUME g < T PROVE FALSE
      OBVIOUS
    <3>0. ASSUME last = h PROVE FALSE
      <4>1. last - o = n
        BY <3>0 DEF Copied
      <4>. QED
        <5>1. g = n + 1
          BY <1>13, <1>14, <2>0, <2>1, <4>1
        <5>. QED
          BY <1>0, <1>13, <5>1
    <3>1. last # h
      BY <3>0
    <3>10. Around(t, text, n, from, last, o)
      BY DEF Copied
    <3>2. text[last + 1 - o] = t[last + 1]
      BY <1>3, <3>1, <3>10 DEF Around
    <3>3. PICK q \in (p + 1)..(T - 1) : q = g
      BY <1>6, <2>1, <2>3
    <3>4. q = last + 1 - o /\ to = last + 1
      BY <1>13, <1>14, <2>0, <2>1, <3>3
    <3>5. t[to] \in Domain
      <4>1. text[q] \in Domain
        BY <1>6, <3>3
      <4>. QED
        BY <3>2, <3>4, <4>1
    <3>6. PICK k \in (i + 1)..(h + 1) : k = to + 1
      BY <1>13, <1>14, <3>1
    <3>7. \A j \in (i + 1)..(k - 1) : j = to \/ j \in (i + 1)..(to - 1)
      <4>1. k - 1 = to
        BY <1>13, <3>6
      <4>. QED
        BY <1>13, <4>1
    <3>8. \A j \in (i + 1)..(k - 1) : t[j] \in Domain
      BY <1>1, <3>5, <3>7
    <3>9. k <= to
      BY <1>1, <3>8
    <3>. QED
      BY <1>3, <3>6, <3>9
  <2>. QED
    BY <1>0, <2>1, <2>5, <2>6
<1>9. F < p
  <2>1. from < i
    BY <1>2
  <2>. QED
    BY <1>7, <1>13, <1>14, <2>1
<1>10. \E dot \in (p + 1)..(T - 3) : text[dot] = "." /\ \A j \in (dot + 1)..(T - 1) : text[j] = "a"
  <2>1. PICK d \in (i + 1)..(to - 3) : t[d] = "." /\ \A j \in (d + 1)..(to - 1) : t[j] = "a"
    BY <1>2
  <2>2. d \in Int /\ d \in from..last /\ i < d
    <3>1. d \in Int /\ i + 1 <= d /\ d <= to - 3
      BY <1>13, <2>1
    <3>. QED
      BY <1>13, <1>14, <3>1
  <2>3. PICK e \in Int : e = d - o
    BY <2>2
  <2>0. d <= to - 3 /\ i + 1 <= d
    BY <1>3, <2>1
  <2>7. e + o = d /\ T + o = to /\ T \in Int /\ d \in Int
    BY <1>0, <1>8, <1>13, <2>2, <2>3
  <2>4. e \in (p + 1)..(T - 3)
    BY <1>13, <2>0, <2>7
  <2>5. text[e] = "."
    BY <1>12, <2>1, <2>2, <2>3
  <2>6. ASSUME NEW j \in (e + 1)..(T - 1) PROVE text[j] = "a"
    <3>0. j \in Int /\ e + 1 <= j /\ j <= T - 1
      BY <1>0, <2>3
    <3>1. PICK k \in (d + 1)..(to - 1) : k = j + o
      BY <1>13, <2>7, <3>0
    <3>2. k \in from..last /\ k - o = j
      BY <1>3, <2>0, <2>2, <3>0, <3>1
    <3>3. text[k - o] = t[k] /\ t[k] = "a"
      BY <1>12, <2>1, <3>1, <3>2
    <3>. QED
      BY <3>2, <3>3
  <2>. QED
    BY <2>4, <2>5, <2>6
<1>11. IsEmail(text, p)
  BY <1>4, <1>5, <1>9, <1>10 DEF IsEmail
<1>. QED
  BY <1>4, <1>5, <1>7, <1>11

LEMMA EmailsAreClean ==
  ASSUME NEW text, NEW n, NEW matches, NEW cut, NEW t, Masking(text, n, matches, cut, t),
         NEW f \in Range(Emails(t))
  PROVE  Clean(t, f)
<1>1. /\ text \in Seq(Chars) /\ n \in Nat /\ Len(text) = n /\ matches = Detect(text)
      /\ Masked(t, text, cut, n) /\ t \in Seq(Chars)
  BY DEF Masking, Masked
<1>2. PICK h \in Nat : h = Len(t) /\ DOMAIN t = 1..h
  BY <1>1
<1>3. PICK i \in 1..h : IsEmail(t, i) /\ f = Span("email", EmailFrom(t, i), EmailTo(t, i))
  BY <1>1, <1>2, EmailsAre
<1>4. PICK from, to : from = EmailFrom(t, i) /\ to = EmailTo(t, i)
  OBVIOUS
<1>5. f.kind = "email" /\ f.start = from /\ f.stop = to
  BY <1>3, <1>4 DEF Span
<1>6. /\ from \in 1..i /\ \A j \in from..(i - 1) : t[j] \in LocalPart
      /\ to \in (i + 1)..(h + 1) /\ \A j \in (i + 1)..(to - 1) : t[j] \in Domain
  BY <1>1, <1>2, <1>4, EmailEnds
<1>7. t[i] = "@" /\ from < i
  BY <1>3, <1>4 DEF IsEmail
<1>8. PICK last \in 1..h : last = to - 1 /\ from < last /\ i <= last
  BY <1>2, <1>6, <1>7
<1>9. from \in Nat /\ from \in DOMAIN t /\ to \in Nat /\ last \in DOMAIN t /\ to = last + 1
  BY <1>2, <1>6, <1>8
<1>10. CASE StarAt(t, to)
  <2>1. to <= Len(t) /\ t[to] = "*"
    BY <1>1, <1>9, <1>10 DEF StarAt
  <2>2. f.kind # "ssn"
    BY <1>5
  <2>. QED
    BY <1>5, <2>1, <2>2 DEF Clean
<1>11. CASE StarAt(t, from - 1)
  <2>1. BehindStar(t, from, Left(f.kind))
    BY <1>1, <1>9, <1>11, StarBefore
  <2>2. f.kind # "ssn"
    BY <1>5
  <2>. QED
    BY <1>5, <2>1, <2>2 DEF Clean
<1>12. ASSUME ~StarAt(t, to), ~StarAt(t, from - 1) PROVE FALSE
  <2>1. Untouched(t, from, last)
    BY <1>9, <1>12 DEF Untouched
  <2>2. \A k \in from..last : t[k] # "*"
    <3>1. "*" \notin LocalPart /\ "*" \notin Domain
      BY DEF LocalPart, Domain, Digit
    <3>2. \A k \in from..last : k \in from..(i - 1) \/ k = i \/ k \in (i + 1)..(to - 1)
      BY <1>6, <1>8, <1>9
    <3>. QED
      BY <1>6, <1>7, <3>1, <3>2
  <2>3. PICK a, b, o : Inside(t, text, cut, n, from, last, a, b, o)
    BY <1>1, <1>8, <1>9, <2>2, WindowIsInside
  <2>4. from <= last
    BY <1>6, <1>8, <1>9
  <2>5. /\ o \in Int
        /\ \A k \in from..last : k - o \in 1..n /\ text[k - o] = t[k]
        /\ from = 1 => from - o = 1
        /\ last = h => last - o = n
    <3>1. Corresponds(t, text, cut, n, from, last, a, b, o)
      BY <1>1, <1>9, <2>3, <2>4, InsideIs
    <3>. QED
      BY <1>2, <3>1 DEF Corresponds
  <2>6. Around(t, text, n, from, last, o)
    BY <1>1, <1>9, <2>1, <2>3, <2>4, AroundIs
  <2>7. PICK p : p = i - o
    OBVIOUS
  <2>15. Copied(t, h, text, n, from, last, o)
    BY <2>5, <2>6 DEF Copied
  <2>8. p \in 1..n /\ IsEmail(text, p) /\ EmailFrom(text, p) = from - o
    <3>1. Address(t, i, from, to)
      BY <1>3, <1>4 DEF Address
    <3>2. last = to - 1
      BY <1>8
    <3>. QED
      BY <1>1, <1>2, <2>5, <2>7, <2>15, <3>1, <3>2, SameAddress
  <2>9. PICK m : m = Span("email", EmailFrom(text, p), EmailTo(text, p))
    OBVIOUS
  <2>10. PICK q \in Nat : q = from - o
    BY <1>9, <2>4, <2>5
  <2>11. m \in Range(matches)
    BY <1>1, <2>8, <2>9, EmailsAre, DetectIs
  <2>12. m.start = q
    BY <2>8, <2>9, <2>10 DEF Span
  <2>13. q <= m.stop
    BY <2>11, <2>12, MatchesLie
  <2>14. LeavesOver(text, matches, t, from, q)
    BY <1>9, <2>3, <2>4, <2>10, InsideLeavesOver
  <2>. QED
    BY <2>11, <2>12, <2>13, <2>14 DEF LeavesOver
<1>. QED
  BY <1>10, <1>11, <1>12

-----------------------------------------------------------------------------
(* All that is masked is clean *)

LEMMA MaskedIsClean ==
  ASSUME NEW text \in Seq(Chars), NEW f \in Range(Detect(MaskText(text)))
  PROVE  Clean(MaskText(text), f)
<1>1. PICK n \in Nat : n = Len(text)
  OBVIOUS
<1>2. PICK matches, cut, t : matches = Detect(text) /\ cut = Applied(text, matches) /\ t = MaskText(text)
  OBVIOUS
<1>3. Masking(text, n, matches, cut, t)
  BY <1>1, <1>2, MaskTextIs, DetectIs DEF Masking
<1>4. PICK h \in Nat : h = Len(t)
  BY <1>3 DEF Masking, Masked
<1>5. t \in Seq(Chars) /\ f \in Range(Detect(t))
  BY <1>2, <1>3 DEF Masking, Masked
<1>6. \/ f \in Range(Ssns(t)) \/ f \in Range(Phones(t)) \/ f \in Range(Emails(t))
      \/ f \in Range(SeparatedCards(t)) \/ f \in Range(BareCards(t, Before(t)))
  BY <1>4, <1>5, DetectIs
<1>7. f \notin Range(Ssns(t))
  <2>. SUFFICES ASSUME f \in Range(Ssns(t)) PROVE FALSE
    OBVIOUS
  <2>1. PICK i \in Standing(t, Ssn) : TRUE
    BY <1>4, <1>5, SsnsAre
  <2>2. i \in DOMAIN t /\ At(t, i, Ssn)
    BY DEF Standing
  <2>. QED
    BY <1>3, <2>2, SsnsAreGone
<1>8. Clean(t, f)
  BY <1>3, <1>6, <1>7, PhonesAreClean, EmailsAreClean, SeparatedCardsAreClean, BareCardsAreClean
<1>. QED
  BY <1>2, <1>8

(* After a request was masked, all its messages are. *)
MaskedSaid ==
    (stage = "masked" /\ direction # "response") =>
        \A m \in Range(messages) : \E text \in Seq(Chars) : m.content = MaskText(text)

LEMMA MaskedSaidStep == Conversation /\ MaskedSaid /\ [Next]_vars => MaskedSaid'
<1>. SUFFICES ASSUME Conversation, MaskedSaid, [Next]_vars,
                     stage' = "masked", direction' # "response"
              PROVE  \A m \in Range(messages') : \E text \in Seq(Chars) : m.content = MaskText(text)
  BY DEF MaskedSaid
<1>1. CASE Begin
  BY <1>1 DEF Begin
<1>2. CASE Write
  BY <1>2 DEF Write
<1>3. CASE MaskRequest
  <2>1. messages' = [i \in DOMAIN messages |-> [messages[i] EXCEPT !.content = MaskText(@)]]
    BY <1>3 DEF MaskRequest
  <2>. SUFFICES ASSUME NEW m \in Range(messages')
                PROVE  \E text \in Seq(Chars) : m.content = MaskText(text)
    OBVIOUS
  <2>2. PICK i \in DOMAIN messages : m = [messages[i] EXCEPT !.content = MaskText(@)]
    BY <2>1 DEF Range
  <2>3. PICK w : w = messages[i]
    OBVIOUS
  <2>4. w \in Told
    BY <2>3 DEF Conversation
  <2>5. m.content = MaskText(w.content) /\ w.content \in Seq(Chars)
    BY <2>2, <2>3, <2>4 DEF Told
  <2>. QED
    BY <2>5
<1>4. CASE Choose
  BY <1>4 DEF Choose
<1>5. CASE Answer
  BY <1>5 DEF Answer
<1>6. CASE UNCHANGED vars
  BY <1>6 DEF vars, MaskedSaid
<1>. QED
  BY <1>1, <1>2, <1>3, <1>4, <1>5, <1>6 DEF Next

(* In a masked request a second masking would find no number of a          *)
(* resident, and nothing that is not before a mask, or behind one and what *)
(* was left over of a match (detect, apply_masks).                         *)
THEOREM MaskedTextIsAlwaysClean == Spec => []MaskedTextIsClean
<1>1. Init => MaskedSaid
  BY DEF Init, MaskedSaid
<1>2. MaskedSaid => MaskedTextIsClean
  <2>. SUFFICES ASSUME MaskedSaid, stage = "masked", direction # "response",
                       NEW m \in Range(messages), NEW f \in Range(Detect(m.content))
                PROVE  /\ f.kind # "ssn"
                       /\ \/ f.stop <= Len(m.content) /\ m.content[f.stop] = "*"
                          \/ \E j \in 1..(f.start - 1) :
                                /\ m.content[j] = "*"
                                /\ \A k \in (j + 1)..(f.start - 1) : m.content[k] \in Left(f.kind)
    BY DEF MaskedTextIsClean
  <2>1. PICK text \in Seq(Chars) : m.content = MaskText(text)
    BY DEF MaskedSaid
  <2>2. Clean(m.content, f)
    BY <2>1, MaskedIsClean
  <2>. QED
    BY <2>2 DEF Clean, BehindStar
<1>. QED
  BY <1>1, <1>2, ConversationInit, ConversationStep, MaskedSaidStep, PTL DEF Spec

-----------------------------------------------------------------------------
(* The complexity gate *)

(* What a message weighs in the estimate of the gate. *)
Weight(m) == Tokens(m.content) * (IF m.role = "system" THEN SystemWeight ELSE 2)

LEMMA TokensGrow ==
  ASSUME NEW a \in Seq(Chars), NEW b \in Seq(Chars), Len(a) <= Len(b)
  PROVE  Tokens(a) \in Nat /\ Tokens(b) \in Nat /\ Tokens(a) <= Tokens(b)
<1>1. ASSUME NEW text \in Seq(Chars)
      PROVE  Tokens(text) \in {1, Len(text) \div 4} /\ 1 <= Tokens(text) /\ Len(text) \div 4 <= Tokens(text)
  <2>1. PICK q \in Nat : q = Len(text) \div 4
    OBVIOUS
  <2>2. PICK S : S = {1, q}
    OBVIOUS
  <2>3. S \subseteq 0..(q + 1) /\ S # {} /\ q + 1 \in Nat
    BY <2>1, <2>2
  <2>4. Max(S) \in S /\ \A y \in S : y <= Max(S)
    BY <2>3, LeastAndGreatest
  <2>. QED
    BY <2>1, <2>2, <2>4 DEF Tokens
<1>2. PICK x, y \in Nat : x = Len(a) /\ y = Len(b) /\ x <= y
  OBVIOUS
<1>3. x \div 4 \in Nat /\ y \div 4 \in Nat /\ x \div 4 <= y \div 4
  BY <1>2
<1>. QED
  BY <1>1, <1>2, <1>3

LEMMA WeightGrows ==
  ASSUME NEW m \in Told, NEW w \in Told, w.role = m.role, Len(m.content) <= Len(w.content)
  PROVE  Weight(m) \in Nat /\ Weight(w) \in Nat /\ Weight(m) <= Weight(w)
<1>1. PICK x, y : x = Tokens(m.content) /\ y = Tokens(w.content)
  OBVIOUS
<1>2. x \in Nat /\ y \in Nat /\ x <= y
  BY <1>1, TokensGrow DEF Told
<1>3. PICK c \in Nat : c = IF m.role = "system" THEN SystemWeight ELSE 2
  BY GateBoundsAreNat
<1>4. x * c \in Nat /\ y * c \in Nat /\ x * c <= y * c
  BY <1>2, <1>3
<1>. QED
  BY <1>1, <1>3, <1>4 DEF Weight

(* What the recursion of EstimatedTokens has after each message. *)
Weighs(g, s) == g = [n \in 0..Len(s) |-> IF n = 0 THEN 0 ELSE g[n - 1] + Weight(s[n])]

LEMMA WeighsExists ==
  ASSUME NEW s, Len(s) \in Nat
  PROVE  \E g : Weighs(g, s)
<1>. DEFINE next(x, k) == x + Weight(s[k])
            does(g, n) == g = [k \in 0..n |-> IF k = 0 THEN 0 ELSE next(g[k - 1], k)]
            S == {n \in Nat : \E g : does(g, n)}
<1>0. \A g : Weighs(g, s) <=> does(g, Len(s))
  BY DEF Weighs
<1>. HIDE DEF next
<1>1. 0 \in S
  <2>1. does([k \in 0..0 |-> 0], 0)
    OBVIOUS
  <2>. QED
    BY <2>1
<1>2. ASSUME NEW n \in Nat, n \in S PROVE n + 1 \in S
  <2>1. PICK h : does(h, n)
    BY <1>2
  <2>. DEFINE last == next(h[n], n + 1)
              g == [k \in 0..n + 1 |-> IF k = n + 1 THEN last ELSE h[k]]
  <2>2. \A k \in 0..n : h[k] = IF k = 0 THEN 0 ELSE next(h[k - 1], k)
    BY <2>1
  <2>3. \A k \in 0..n + 1 : g[k] = IF k = 0 THEN 0 ELSE next(g[k - 1], k)
    BY <2>2
  <2>4. g = [k \in 0..n + 1 |-> IF k = 0 THEN 0 ELSE next(g[k - 1], k)]
    BY <2>3
  <2>5. does(g, n + 1)
    BY <2>4
  <2>. HIDE DEF g, does
  <2>. QED
    BY <2>5
<1>. HIDE DEF S
<1>3. Nat \subseteq S
  BY <1>1, <1>2, Induction
<1>4. \E g : does(g, Len(s))
  BY <1>3 DEF S
<1>. QED
  BY <1>0, <1>4

LEMMA EstimatedIs ==
  ASSUME NEW s, Len(s) \in Nat
  PROVE  \E g : Weighs(g, s) /\ EstimatedTokens(s) = (g[Len(s)] * LengthWeight(Len(s))) \div 20
<1>. DEFINE g == CHOOSE h : Weighs(h, s)
<1>1. EstimatedTokens(s) = (g[Len(s)] * LengthWeight(Len(s))) \div 20
  BY DEF EstimatedTokens, Weighs, Weight
<1>2. Weighs(g, s)
  BY WeighsExists
<1>. QED
  BY <1>1, <1>2

(* More is said: no message says less, and there may be another. *)
Longer(s, t) ==
    /\ s \in Seq(Told) /\ t \in Seq(Told)
    /\ Len(t) = Len(s) \/ Len(t) = Len(s) + 1
    /\ \A n \in 1..Len(s) : t[n].role = s[n].role /\ Len(s[n].content) <= Len(t[n].content)

LEMMA SumGrows ==
  ASSUME NEW s, NEW t, Longer(s, t), NEW g, Weighs(g, s), NEW h, Weighs(h, t)
  PROVE  g[Len(s)] \in Nat /\ h[Len(t)] \in Nat /\ g[Len(s)] <= h[Len(t)]
<1>1. PICK l, k \in Nat : l = Len(s) /\ k = Len(t) /\ (k = l \/ k = l + 1)
  BY DEF Longer
<1>2. \A n \in 1..k : t[n] \in Told
  BY <1>1 DEF Longer
<1>3. \A n \in 1..l : Weight(s[n]) \in Nat /\ Weight(t[n]) \in Nat /\ Weight(s[n]) <= Weight(t[n])
  <2>. TAKE n \in 1..l
  <2>1. s[n] \in Told /\ t[n] \in Told
    BY <1>1, <1>2 DEF Longer
  <2>2. t[n].role = s[n].role /\ Len(s[n].content) <= Len(t[n].content)
    BY <1>1 DEF Longer
  <2>. QED
    BY <2>1, <2>2, WeightGrows
<1>4. /\ \A n \in 0..l : g[n] = IF n = 0 THEN 0 ELSE g[n - 1] + Weight(s[n])
      /\ \A n \in 0..k : h[n] = IF n = 0 THEN 0 ELSE h[n - 1] + Weight(t[n])
  BY <1>1 DEF Weighs
<1>. DEFINE S == {n \in Nat : n <= l => g[n] \in Nat /\ h[n] \in Nat /\ g[n] <= h[n]}
<1>5. 0 \in S
  <2>1. g[0] = 0 /\ h[0] = 0
    BY <1>1, <1>4
  <2>. QED
    BY <2>1
<1>6. ASSUME NEW n \in Nat, n \in S PROVE n + 1 \in S
  <2>. SUFFICES ASSUME n + 1 <= l
                PROVE  g[n + 1] \in Nat /\ h[n + 1] \in Nat /\ g[n + 1] <= h[n + 1]
    OBVIOUS
  <2>1. g[n] \in Nat /\ h[n] \in Nat /\ g[n] <= h[n]
    BY <1>6, <1>1
  <2>2. PICK p \in 1..l : p = n + 1
    BY <1>1
  <2>3. g[p] = g[n] + Weight(s[p]) /\ h[p] = h[n] + Weight(t[p])
    BY <1>1, <1>4, <2>2
  <2>4. Weight(s[p]) \in Nat /\ Weight(t[p]) \in Nat /\ Weight(s[p]) <= Weight(t[p])
    BY <1>3
  <2>. QED
    BY <2>1, <2>2, <2>3, <2>4
<1>. HIDE DEF S
<1>7. Nat \subseteq S
  BY <1>5, <1>6, Induction
<1>8. g[l] \in Nat /\ h[l] \in Nat /\ g[l] <= h[l]
  BY <1>1, <1>7 DEF S
<1>9. CASE k = l
  BY <1>1, <1>8, <1>9
<1>10. CASE k = l + 1
  <2>1. k \in 1..k /\ k \in 0..k /\ k # 0 /\ k - 1 = l
    BY <1>1, <1>10
  <2>2. Weight(t[k]) \in Nat
    BY <1>2, <2>1, WeightGrows DEF Told
  <2>3. h[k] = h[l] + Weight(t[k])
    BY <1>4, <2>1
  <2>. QED
    BY <1>1, <1>8, <2>2, <2>3
<1>. QED
  BY <1>1, <1>9, <1>10

LEMMA EstimateGrows ==
  ASSUME NEW s, NEW t, Longer(s, t)
  PROVE  EstimatedTokens(s) \in Nat /\ EstimatedTokens(t) \in Nat /\ EstimatedTokens(s) <= EstimatedTokens(t)
<1>1. PICK l, k \in Nat : l = Len(s) /\ k = Len(t) /\ l <= k
  BY DEF Longer
<1>2. PICK g : Weighs(g, s) /\ EstimatedTokens(s) = (g[Len(s)] * LengthWeight(Len(s))) \div 20
  BY <1>1, EstimatedIs
<1>3. PICK h : Weighs(h, t) /\ EstimatedTokens(t) = (h[Len(t)] * LengthWeight(Len(t))) \div 20
  BY <1>1, EstimatedIs
<1>4. PICK x, y : x = g[Len(s)] /\ y = h[Len(t)]
  OBVIOUS
<1>5. x \in Nat /\ y \in Nat /\ x <= y
  BY <1>2, <1>3, <1>4, SumGrows
<1>6. PICK v, w : v = LengthWeight(l) /\ w = LengthWeight(k)
  OBVIOUS
<1>7. v \in {10, 11, 13} /\ w \in {10, 11, 13} /\ v <= w
  BY <1>1, <1>6, GateBoundsAreNat DEF LengthWeight
<1>8. x * v \in Nat /\ y * w \in Nat /\ x * v <= y * w
  BY <1>5, <1>7
<1>9. PICK p, q \in Nat : p = x * v /\ q = y * w /\ p <= q
  BY <1>8
<1>10. p \div 20 \in Nat /\ q \div 20 \in Nat /\ p \div 20 <= q \div 20
  BY <1>9
<1>. QED
  BY <1>1, <1>2, <1>3, <1>4, <1>6, <1>9, <1>10

LEMMA RanksAre == Rank("simple") = 1 /\ Rank("medium") = 2 /\ Rank("complex") = 3
<1>1. DOMAIN Levels = 1..3 /\ Levels[1] = "simple" /\ Levels[2] = "medium" /\ Levels[3] = "complex"
  BY DEF Levels
<1>2. \A k \in 1..3 : k = 1 \/ k = 2 \/ k = 3
  OBVIOUS
<1>3. Rank("simple") = 1
  BY <1>1, <1>2 DEF Rank
<1>4. Rank("medium") = 2
  BY <1>1, <1>2 DEF Rank
<1>5. Rank("complex") = 3
  BY <1>1, <1>2 DEF Rank
<1>. QED
  BY <1>3, <1>4, <1>5

LEMMA RankGrows ==
  ASSUME NEW s, NEW t, Longer(s, t)
  PROVE  Rank(Classify(t, FALSE)) >= Rank(Classify(s, FALSE))
<1>1. PICK x, y : x = EstimatedTokens(s) /\ y = EstimatedTokens(t)
  OBVIOUS
<1>2. x \in Nat /\ y \in Nat /\ x <= y
  BY <1>1, EstimateGrows
<1>3. SimpleMax \in Nat /\ ComplexMin \in Nat
  BY GateBoundsAreNat
<1>4. /\ Rank(Classify(s, FALSE)) = IF x <= SimpleMax THEN 1 ELSE IF x >= ComplexMin THEN 3 ELSE 2
      /\ Rank(Classify(t, FALSE)) = IF y <= SimpleMax THEN 1 ELSE IF y >= ComplexMin THEN 3 ELSE 2
  <2>1. ASSUME NEW u, NEW z \in Nat, z = EstimatedTokens(u)
        PROVE  Rank(Classify(u, FALSE)) = IF z <= SimpleMax THEN 1 ELSE IF z >= ComplexMin THEN 3 ELSE 2
    <3>1. CASE z <= SimpleMax
      <4>1. Classify(u, FALSE) = "simple"
        BY <2>1, <3>1 DEF Classify
      <4>. QED
        BY <3>1, <4>1, RanksAre
    <3>2. CASE ~(z <= SimpleMax) /\ z >= ComplexMin
      <4>1. Classify(u, FALSE) = "complex"
        BY <2>1, <3>2 DEF Classify
      <4>. QED
        BY <3>2, <4>1, RanksAre
    <3>3. CASE ~(z <= SimpleMax) /\ ~(z >= ComplexMin)
      <4>1. Classify(u, FALSE) = "medium"
        BY <2>1, <3>3 DEF Classify
      <4>. QED
        BY <3>3, <4>1, RanksAre
    <3>. QED
      BY <3>1, <3>2, <3>3
  <2>. QED
    BY <1>1, <1>2, <2>1
<1>5. PICK p, q : p = Rank(Classify(s, FALSE)) /\ q = Rank(Classify(t, FALSE))
  OBVIOUS
<1>6. /\ p = IF x <= SimpleMax THEN 1 ELSE IF x >= ComplexMin THEN 3 ELSE 2
      /\ q = IF y <= SimpleMax THEN 1 ELSE IF y >= ComplexMin THEN 3 ELSE 2
  BY <1>4, <1>5
<1>7. q >= p
  BY <1>2, <1>3, <1>6
<1>. QED
  BY <1>5, <1>7

LEMMA SaidMore ==
  ASSUME Conversation, Begin \/ Write
  PROVE  Longer(messages, messages')
<1>1. PICK s, t : s = messages /\ t = messages'
  OBVIOUS
<1>2. s \in Seq(Told) /\ t \in Seq(Told)
  BY <1>1, ConversationStep DEF Conversation, Next
<1>3. PICK l \in Nat : l = Len(s) /\ DOMAIN s = 1..l
  BY <1>2
<1>4. CASE Begin
  <2>1. PICK m : t = Append(s, m)
    BY <1>1, <1>4 DEF Begin
  <2>2. Len(t) = l + 1 /\ \A n \in 1..l : t[n] = s[n]
    BY <1>2, <1>3, <2>1
  <2>3. \A n \in 1..l : Len(s[n].content) \in Nat
    BY <1>2, <1>3 DEF Told
  <2>. QED
    BY <1>1, <1>2, <1>3, <2>2, <2>3 DEF Longer
<1>5. CASE Write
  <2>1. PICK text \in Parts :
            t = [s EXCEPT ![Len(s)].content = @ \o text, ![Len(s)].parts = @ + 1]
    BY <1>1, <1>5 DEF Write
  <2>0. text \in Seq(Chars)
    BY <2>1, PartsAreTexts
  <2>2. text \in Seq(Chars) /\ l # 0
    <3>1. s # <<>>
      BY <1>1, <1>5 DEF Write
    <3>. QED
      BY <1>2, <1>3, <2>0, <3>1
  <2>3. PICK m, w : m = s[l] /\ w = [m EXCEPT !.content = m.content \o text, !.parts = m.parts + 1]
    OBVIOUS
  <2>4. t = [s EXCEPT ![l] = w]
    BY <1>3, <2>1, <2>3
  <2>5. m \in Told
    BY <1>2, <1>3, <2>2, <2>3
  <2>6. w.role = m.role /\ w.content = m.content \o text
    BY <2>3, <2>5 DEF Told
  <2>7. Len(m.content) <= Len(w.content)
    <3>1. PICK c : c = m.content
      OBVIOUS
    <3>2. c \in Seq(Chars)
      BY <2>5, <3>1 DEF Told
    <3>3. Len(c) <= Len(c \o text)
      BY <2>2, <3>2
    <3>. QED
      BY <2>6, <3>1, <3>3
  <2>8. Len(t) = l /\ \A n \in 1..l : t[n] = IF n = l THEN w ELSE s[n]
    BY <1>2, <1>3, <2>2, <2>4
  <2>9. \A n \in 1..l : Len(s[n].content) \in Nat
    BY <1>2, <1>3 DEF Told
  <2>10. ASSUME NEW n \in 1..l
         PROVE  t[n].role = s[n].role /\ Len(s[n].content) <= Len(t[n].content)
    <3>1. CASE n = l
      BY <2>3, <2>6, <2>7, <2>8, <3>1
    <3>2. CASE n # l
      <4>1. t[n] = s[n] /\ Len(s[n].content) \in Nat
        BY <2>8, <2>9, <3>2
      <4>. QED
        BY <4>1
    <3>. QED
      BY <3>1, <3>2
  <2>. QED
    BY <1>1, <1>2, <1>3, <2>8, <2>10 DEF Longer
<1>. QED
  BY <1>4, <1>5

(* No message that is begun, and nothing that is written, in conversations *)
(* of any length, makes a request simpler (classify).                      *)
THEOREM MoreIsNeverSimpler == Spec => GateMonotone
<1>1. Conversation /\ [Next]_vars =>
          [(Begin \/ Write) => Rank(Classify(messages', FALSE)) >= Rank(Classify(messages, FALSE))]_vars
  BY SaidMore, RankGrows
<1>. QED
  BY <1>1, ConversationInit, ConversationStep, PTL DEF Spec, GateMonotone

-----------------------------------------------------------------------------
(* What the prompt guard reads *)

(* What is read of a text, before its end is cut. *)
Reads(g, u) == g = [k \in 0..Len(u) |-> IF k = 0 THEN <<>> ELSE Read(g[k - 1], u[k])]

(* What is read of all of u. *)
IsRead(u, s) == \E g : Reads(g, u) /\ s = g[Len(u)]

(* With its end cut. *)
Trimmed(s) == IF s # <<>> /\ Last(s) = Blank THEN Front(s) ELSE s

LEMMA ReadsExists ==
  ASSUME NEW u, Len(u) \in Nat
  PROVE  \E g : Reads(g, u)
<1>. DEFINE next(s, k) == Read(s, u[k])
            does(g, n) == g = [k \in 0..n |-> IF k = 0 THEN <<>> ELSE next(g[k - 1], k)]
            S == {n \in Nat : \E g : does(g, n)}
<1>0. \A g : Reads(g, u) <=> does(g, Len(u))
  BY DEF Reads
<1>. HIDE DEF next
<1>1. 0 \in S
  <2>1. does([k \in 0..0 |-> <<>>], 0)
    OBVIOUS
  <2>. QED
    BY <2>1
<1>2. ASSUME NEW n \in Nat, n \in S PROVE n + 1 \in S
  <2>1. PICK h : does(h, n)
    BY <1>2
  <2>. DEFINE last == next(h[n], n + 1)
              g == [k \in 0..n + 1 |-> IF k = n + 1 THEN last ELSE h[k]]
  <2>2. \A k \in 0..n : h[k] = IF k = 0 THEN <<>> ELSE next(h[k - 1], k)
    BY <2>1
  <2>3. \A k \in 0..n + 1 : g[k] = IF k = 0 THEN <<>> ELSE next(g[k - 1], k)
    BY <2>2
  <2>4. g = [k \in 0..n + 1 |-> IF k = 0 THEN <<>> ELSE next(g[k - 1], k)]
    BY <2>3
  <2>5. does(g, n + 1)
    BY <2>4
  <2>. HIDE DEF g, does
  <2>. QED
    BY <2>5
<1>. HIDE DEF S
<1>3. Nat \subseteq S
  BY <1>1, <1>2, Induction
<1>4. \E g : does(g, Len(u))
  BY <1>3 DEF S
<1>. QED
  BY <1>0, <1>4

LEMMA ReadOnce ==
  ASSUME NEW u, Len(u) \in Nat, NEW s, IsRead(u, s), NEW r, IsRead(u, r)
  PROVE  s = r
<1>1. PICK n \in Nat : n = Len(u)
  OBVIOUS
<1>2. PICK g : Reads(g, u) /\ s = g[Len(u)]
  BY DEF IsRead
<1>3. PICK h : Reads(h, u) /\ r = h[Len(u)]
  BY DEF IsRead
<1>4. /\ \A k \in 0..n : g[k] = IF k = 0 THEN <<>> ELSE Read(g[k - 1], u[k])
      /\ \A k \in 0..n : h[k] = IF k = 0 THEN <<>> ELSE Read(h[k - 1], u[k])
  BY <1>1, <1>2, <1>3 DEF Reads
<1>. DEFINE S == {k \in Nat : k <= n => g[k] = h[k]}
<1>5. 0 \in S
  BY <1>4
<1>6. ASSUME NEW k \in Nat, k \in S PROVE k + 1 \in S
  <2>. SUFFICES ASSUME k + 1 <= n PROVE g[k + 1] = h[k + 1]
    OBVIOUS
  <2>1. PICK p \in 0..n : p = k + 1 /\ p # 0 /\ p - 1 = k
    BY <1>1
  <2>2. g[k] = h[k]
    BY <1>1, <1>6
  <2>3. g[p] = Read(g[k], u[p]) /\ h[p] = Read(h[k], u[p])
    BY <1>4, <2>1
  <2>. QED
    BY <2>1, <2>2, <2>3
<1>. HIDE DEF S
<1>7. Nat \subseteq S
  BY <1>5, <1>6, Induction
<1>8. g[n] = h[n]
  BY <1>1, <1>7 DEF S
<1>. QED
  BY <1>1, <1>2, <1>3, <1>8

LEMMA NothingRead == IsRead(<<>>, <<>>)
<1>1. PICK g : g = [k \in 0..0 |-> <<>>]
  OBVIOUS
<1>2. g = [k \in 0..0 |-> IF k = 0 THEN <<>> ELSE Read(g[k - 1], <<>>[k])]
  BY <1>1
<1>3. Len(<<>>) = 0 /\ g[0] = <<>>
  BY <1>1
<1>4. Reads(g, <<>>)
  BY <1>2, <1>3 DEF Reads
<1>. QED
  BY <1>3, <1>4 DEF IsRead

LEMMA ReadMore ==
  ASSUME NEW S, NEW u \in Seq(S), NEW s, IsRead(u, s), NEW c \in S
  PROVE  IsRead(Append(u, c), Read(s, c))
<1>1. PICK n \in Nat : n = Len(u)
  OBVIOUS
<1>2. PICK g : Reads(g, u) /\ s = g[Len(u)]
  BY DEF IsRead
<1>3. PICK w : w = Append(u, c)
  OBVIOUS
<1>4. Len(w) = n + 1 /\ w[n + 1] = c /\ \A k \in 1..n : w[k] = u[k]
  BY <1>1, <1>3
<1>5. g = [k \in 0..n |-> IF k = 0 THEN <<>> ELSE Read(g[k - 1], u[k])]
  BY <1>1, <1>2 DEF Reads
<1>6. \A k \in 0..n : g[k] = IF k = 0 THEN <<>> ELSE Read(g[k - 1], u[k])
  BY <1>5
<1>7. PICK last : last = Read(s, c)
  OBVIOUS
<1>8. PICK h : h = [k \in 0..n + 1 |-> IF k = n + 1 THEN last ELSE g[k]]
  OBVIOUS
<1>9. \A k \in 0..n + 1 : h[k] = IF k = 0 THEN <<>> ELSE Read(h[k - 1], w[k])
  <2>. TAKE k \in 0..n + 1
  <2>1. CASE k = n + 1
    <3>1. h[k] = last /\ h[k - 1] = g[n] /\ k # 0 /\ w[k] = c
      BY <1>4, <1>8, <2>1
    <3>. QED
      BY <1>1, <1>2, <1>7, <3>1
  <2>2. CASE k # n + 1
    <3>1. k \in 0..n /\ h[k] = g[k]
      BY <1>8, <2>2
    <3>2. CASE k = 0
      BY <1>6, <3>1, <3>2
    <3>3. CASE k # 0
      <4>1. h[k - 1] = g[k - 1] /\ w[k] = u[k]
        BY <1>4, <1>8, <3>1, <3>3
      <4>2. g[k] = Read(g[k - 1], u[k])
        BY <1>6, <3>1, <3>3
      <4>. QED
        BY <3>1, <3>3, <4>1, <4>2
    <3>. QED
      BY <3>2, <3>3
  <2>. QED
    BY <2>1, <2>2
<1>10. h = [k \in 0..n + 1 |-> h[k]]
  BY <1>8
<1>11. h = [k \in 0..n + 1 |-> IF k = 0 THEN <<>> ELSE Read(h[k - 1], w[k])]
  BY <1>9, <1>10
<1>12. Reads(h, w) /\ h[Len(w)] = last
  BY <1>4, <1>8, <1>11 DEF Reads
<1>. QED
  BY <1>3, <1>7, <1>12 DEF IsRead

LEMMA NormalizedIs ==
  ASSUME NEW u, Len(u) \in Nat, NEW s, IsRead(u, s)
  PROVE  Normalized(u) = Trimmed(s)
<1>. DEFINE g == CHOOSE h : Reads(h, u)
<1>1. Normalized(u) = Trimmed(g[Len(u)])
  BY DEF Normalized, Reads, Trimmed
<1>2. Reads(g, u)
  BY ReadsExists
<1>3. IsRead(u, g[Len(u)])
  BY <1>2 DEF IsRead
<1>4. g[Len(u)] = s
  BY <1>3, ReadOnce
<1>. QED
  BY <1>1, <1>4

LEMMA IsReadExists ==
  ASSUME NEW u, Len(u) \in Nat
  PROVE  \E s : IsRead(u, s)
BY ReadsExists DEF IsRead

-----------------------------------------------------------------------------
(* Nothing is left to be cut, but for white space at the end. *)
Neat(s, S) ==
    /\ s \in Seq(S) /\ \A k \in DOMAIN s : s[k] # "z"
    /\ s # <<>> => s[1] # Blank
    /\ \A k \in DOMAIN s : s[k] = Blank => k + 1 \notin DOMAIN s \/ s[k + 1] # Blank

LEMMA ReadIsNeat ==
  ASSUME NEW C, NEW s, Neat(s, C), NEW c \in C
  PROVE  Neat(Read(s, c), C)
<1>1. CASE c = "z" \/ (c = Blank /\ (s = <<>> \/ Last(s) = Blank))
  BY <1>1 DEF Read
<1>2. CASE c # "z" /\ ~(c = Blank /\ (s = <<>> \/ Last(s) = Blank))
  <2>1. PICK l \in Nat : l = Len(s)
    BY DEF Neat
  <2>2. PICK t : t = Append(s, c)
    OBVIOUS
  <2>3. s \in Seq(C) /\ DOMAIN s = 1..l
    BY <2>1 DEF Neat
  <2>4. t \in Seq(C) /\ DOMAIN t = 1..l + 1 /\ t[l + 1] = c /\ \A k \in 1..l : t[k] = s[k]
    BY <2>1, <2>2, <2>3
  <2>5. \A k \in DOMAIN t : t[k] # "z"
    BY <1>2, <2>3, <2>4 DEF Neat
  <2>6. t[1] # Blank
    <3>1. CASE l = 0
      <4>1. s = <<>>
        BY <2>1, <2>3, <3>1
      <4>. QED
        BY <1>2, <2>4, <3>1, <4>1
    <3>2. CASE l # 0
      <4>1. s # <<>> /\ 1 \in 1..l
        BY <2>1, <3>2
      <4>. QED
        BY <2>4, <4>1 DEF Neat
    <3>. QED
      BY <3>1, <3>2
  <2>7. ASSUME NEW k \in DOMAIN t, t[k] = Blank, k + 1 \in DOMAIN t PROVE t[k + 1] # Blank
    <3>1. k \in 1..l /\ s[k] = Blank
      BY <2>4, <2>7
    <3>2. CASE k = l
      <4>1. s # <<>> /\ Last(s) = Blank
        BY <2>1, <2>3, <3>1, <3>2 DEF Last
      <4>. QED
        BY <1>2, <2>4, <3>2, <4>1
    <3>3. CASE k # l
      <4>1. k + 1 \in 1..l
        BY <2>1, <3>1, <3>3
      <4>2. s[k + 1] # Blank
        BY <2>3, <3>1, <4>1 DEF Neat
      <4>. QED
        BY <2>4, <4>1, <4>2
    <3>. QED
      BY <3>2, <3>3
  <2>8. Neat(t, C)
    BY <2>4, <2>5, <2>6, <2>7 DEF Neat
  <2>9. Read(s, c) = t
    BY <1>2, <2>2 DEF Read
  <2>. QED
    BY <2>8, <2>9
<1>. QED
  BY <1>1, <1>2

(* What a prefix of a text is read as: where a longer text ends. *)
LEMMA TextIsNeat ==
  ASSUME NEW C, NEW u \in Seq(C), NEW s, IsRead(u, s)
  PROVE  Neat(s, C)
<1>1. PICK n \in Nat : n = Len(u)
  OBVIOUS
<1>2. PICK g : Reads(g, u) /\ s = g[Len(u)]
  BY DEF IsRead
<1>3. \A k \in 0..n : g[k] = IF k = 0 THEN <<>> ELSE Read(g[k - 1], u[k])
  BY <1>1, <1>2 DEF Reads
<1>. DEFINE S == {k \in Nat : k <= n => Neat(g[k], C)}
<1>4. 0 \in S
  <2>1. g[0] = <<>>
    BY <1>3
  <2>2. Neat(<<>>, C)
    BY DEF Neat
  <2>. QED
    BY <2>1, <2>2
<1>5. ASSUME NEW k \in Nat, k \in S PROVE k + 1 \in S
  <2>. SUFFICES ASSUME k + 1 <= n PROVE Neat(g[k + 1], C)
    OBVIOUS
  <2>1. PICK p \in 1..n : p = k + 1 /\ p - 1 = k
    BY <1>1
  <2>2. PICK r : r = g[k]
    OBVIOUS
  <2>3. Neat(r, C)
    BY <1>1, <1>5, <2>2
  <2>4. g[p] = Read(r, u[p]) /\ u[p] \in C
    BY <1>1, <1>3, <2>1, <2>2
  <2>. QED
    BY <2>1, <2>3, <2>4, ReadIsNeat
<1>. HIDE DEF S
<1>6. Nat \subseteq S
  BY <1>4, <1>5, Induction
<1>. QED
  BY <1>1, <1>2, <1>6 DEF S

(* What is neat is read as it is. *)
LEMMA NeatIsRead ==
  ASSUME NEW C, NEW u, Neat(u, C)
  PROVE  IsRead(u, u)
<1>1. PICK n \in Nat : n = Len(u) /\ DOMAIN u = 1..n
  BY DEF Neat
<1>0. u \in Seq(C)
  BY DEF Neat
<1>2. PICK g : g = [k \in 0..n |-> [i \in 1..k |-> u[i]]]
  OBVIOUS
<1>3. \A k \in 0..n : g[k] = IF k = 0 THEN <<>> ELSE Read(g[k - 1], u[k])
  <2>. TAKE k \in 0..n
  <2>1. CASE k = 0
    BY <1>2, <2>1
  <2>2. CASE k # 0
    <3>1. PICK s : s = [i \in 1..k - 1 |-> u[i]]
      OBVIOUS
    <3>2. g[k - 1] = s /\ g[k] = [i \in 1..k |-> u[i]]
      BY <1>2, <2>2, <3>1
    <3>3. k \in 1..n /\ u[k] \in C /\ \A i \in 1..k - 1 : u[i] \in C
      BY <1>0, <1>1, <2>2
    <3>4. s \in Seq(C) /\ Len(s) = k - 1 /\ DOMAIN s = 1..k - 1
      BY <2>2, <3>1, <3>3
    <3>5. Append(s, u[k]) = g[k]
      BY <2>2, <3>1, <3>2, <3>3, <3>4
    <3>6. u[k] # "z"
      BY <1>1, <3>3 DEF Neat
    <3>7. ASSUME u[k] = Blank PROVE s # <<>> /\ Last(s) # Blank
      <4>1. k # 1
        BY <1>1, <3>3, <3>7 DEF Neat
      <4>2. PICK j \in 1..n : j = k - 1 /\ j + 1 = k
        BY <2>2, <4>1
      <4>3. u[j] # Blank
        BY <1>1, <3>3, <3>7, <4>2 DEF Neat
      <4>4. Len(s) = j /\ s[j] = u[j]
        BY <3>1, <3>4, <4>2
      <4>. QED
        BY <3>4, <4>2, <4>3, <4>4 DEF Last
    <3>8. Read(s, u[k]) = Append(s, u[k])
      BY <3>6, <3>7 DEF Read
    <3>. QED
      BY <2>2, <3>2, <3>5, <3>8
  <2>. QED
    BY <2>1, <2>2
<1>4. g = [k \in 0..n |-> g[k]]
  BY <1>2
<1>5. g = [k \in 0..n |-> IF k = 0 THEN <<>> ELSE Read(g[k - 1], u[k])]
  BY <1>3, <1>4
<1>6. g[n] = u
  BY <1>0, <1>1, <1>2
<1>. QED
  BY <1>1, <1>5, <1>6 DEF IsRead, Reads

LEMMA TrimmedIsNeat ==
  ASSUME NEW C, NEW s, Neat(s, C)
  PROVE  Neat(Trimmed(s), C) /\ Trimmed(Trimmed(s)) = Trimmed(s)
<1>1. CASE ~(s # <<>> /\ Last(s) = Blank)
  BY <1>1 DEF Trimmed
<1>2. CASE s # <<>> /\ Last(s) = Blank
  <2>1. PICK l \in Nat : l = Len(s) /\ DOMAIN s = 1..l /\ s \in Seq(C)
    BY DEF Neat
  <2>2. l # 0 /\ s[l] = Blank
    BY <1>2, <2>1 DEF Last
  <2>3. PICK t : t = Front(s)
    OBVIOUS
  <2>4. t \in Seq(C) /\ Len(t) = l - 1 /\ DOMAIN t = 1..l - 1 /\ \A k \in 1..l - 1 : t[k] = s[k]
    BY <2>1, <2>2, <2>3 DEF Front
  <2>5. Neat(t, C)
    <3>1. t # <<>> => t[1] # Blank
      <4>. SUFFICES ASSUME t # <<>> PROVE t[1] # Blank
        OBVIOUS
      <4>1. 1 \in 1..l - 1
        BY <2>1, <2>4
      <4>. QED
        BY <1>2, <2>4, <4>1 DEF Neat
    <3>2. \A k \in DOMAIN t : t[k] # "z"
      BY <2>1, <2>4 DEF Neat
    <3>3. \A k \in DOMAIN t : t[k] = Blank => k + 1 \notin DOMAIN t \/ t[k + 1] # Blank
      <4>. SUFFICES ASSUME NEW k \in DOMAIN t, t[k] = Blank, k + 1 \in DOMAIN t PROVE t[k + 1] # Blank
        OBVIOUS
      <4>1. k \in 1..l /\ k + 1 \in 1..l /\ s[k] = Blank /\ t[k + 1] = s[k + 1]
        BY <2>1, <2>4
      <4>. QED
        BY <2>1, <4>1 DEF Neat
    <3>. QED
      BY <2>4, <3>1, <3>2, <3>3 DEF Neat
  <2>6. ~(t # <<>> /\ Last(t) = Blank)
    <3>. SUFFICES ASSUME t # <<>>, Last(t) = Blank PROVE FALSE
      OBVIOUS
    <3>1. PICK k \in 1..l - 1 : k = l - 1 /\ k + 1 = l
      BY <2>1, <2>4
    <3>2. s[k] = Blank
      BY <2>4, <3>1 DEF Last
    <3>3. k \in DOMAIN s /\ k + 1 \in DOMAIN s /\ s[k + 1] = Blank
      BY <2>1, <2>2, <3>1
    <3>. QED
      BY <3>2, <3>3 DEF Neat
  <2>7. Trimmed(s) = t
    BY <1>2, <2>3 DEF Trimmed
  <2>. QED
    BY <2>5, <2>6, <2>7 DEF Trimmed
<1>. QED
  BY <1>1, <1>2

LEMMA NormalizedTwice ==
  ASSUME NEW C, NEW u \in Seq(C)
  PROVE  Normalized(Normalized(u)) = Normalized(u)
<1>1. PICK s : IsRead(u, s)
  BY IsReadExists
<1>2. Neat(s, C) /\ Normalized(u) = Trimmed(s)
  BY <1>1, TextIsNeat, NormalizedIs
<1>3. PICK t : t = Trimmed(s)
  OBVIOUS
<1>4. Neat(t, C) /\ Trimmed(t) = t
  BY <1>2, <1>3, TrimmedIsNeat
<1>5. IsRead(t, t) /\ Len(t) \in Nat
  BY <1>4, NeatIsRead DEF Neat
<1>6. Normalized(t) = t
  BY <1>4, <1>5, NormalizedIs
<1>. QED
  BY <1>2, <1>3, <1>6

(* How a character is stretched, and what the recursion of Stretched has   *)
(* after each.                                                             *)
Stretch(c) == IF c = Blank THEN <<Blank, "z", Blank>> ELSE <<c, "z">>

(* What the recursion of Stretched has after each character. *)
Stretches(w, u) == w = [k \in 0..Len(u) |-> IF k = 0 THEN <<>> ELSE w[k - 1] \o Stretch(u[k])]

LEMMA StretchesExists ==
  ASSUME NEW u, Len(u) \in Nat
  PROVE  \E w : Stretches(w, u)
<1>. DEFINE next(s, k) == s \o Stretch(u[k])
            does(g, n) == g = [k \in 0..n |-> IF k = 0 THEN <<>> ELSE next(g[k - 1], k)]
            S == {n \in Nat : \E g : does(g, n)}
<1>0. \A g : Stretches(g, u) <=> does(g, Len(u))
  BY DEF Stretches
<1>. HIDE DEF next
<1>1. 0 \in S
  <2>1. does([k \in 0..0 |-> <<>>], 0)
    OBVIOUS
  <2>. QED
    BY <2>1
<1>2. ASSUME NEW n \in Nat, n \in S PROVE n + 1 \in S
  <2>1. PICK h : does(h, n)
    BY <1>2
  <2>. DEFINE last == next(h[n], n + 1)
              g == [k \in 0..n + 1 |-> IF k = n + 1 THEN last ELSE h[k]]
  <2>2. \A k \in 0..n : h[k] = IF k = 0 THEN <<>> ELSE next(h[k - 1], k)
    BY <2>1
  <2>3. \A k \in 0..n + 1 : g[k] = IF k = 0 THEN <<>> ELSE next(g[k - 1], k)
    BY <2>2
  <2>4. g = [k \in 0..n + 1 |-> IF k = 0 THEN <<>> ELSE next(g[k - 1], k)]
    BY <2>3
  <2>5. does(g, n + 1)
    BY <2>4
  <2>. HIDE DEF g, does
  <2>. QED
    BY <2>5
<1>. HIDE DEF S
<1>3. Nat \subseteq S
  BY <1>1, <1>2, Induction
<1>4. \E g : does(g, Len(u))
  BY <1>3 DEF S
<1>. QED
  BY <1>0, <1>4

(* A character that is stretched is read as it was. *)
LEMMA StretchIsRead ==
  ASSUME NEW C, Blank \in C, "z" \in C, NEW w \in Seq(C), NEW s \in Seq(C), IsRead(w, s), NEW c \in C
  PROVE  w \o Stretch(c) \in Seq(C) /\ IsRead(w \o Stretch(c), Read(s, c)) /\ Read(s, c) \in Seq(C)
<1>1. PICK z : z = "z"
  OBVIOUS
<1>2. Blank # z
  BY <1>1 DEF Blank
<1>3. \A r : Read(r, z) = r
  BY <1>1 DEF Read
<1>4. PICK r : r = Read(s, c)
  OBVIOUS
<1>5. PICK u : u = Append(w, c)
  OBVIOUS
<1>6. u \in Seq(C) /\ IsRead(u, r)
  BY <1>4, <1>5, ReadMore
<1>7. PICK v : v = Append(u, z)
  OBVIOUS
<1>8. z \in C /\ v \in Seq(C)
  BY <1>1, <1>6, <1>7
<1>9. IsRead(v, r)
  BY <1>3, <1>6, <1>7, <1>8, ReadMore
<1>10. r \in Seq(C)
  BY <1>4 DEF Read
<1>11. CASE c # Blank
  <2>1. w \o Stretch(c) = v
    BY <1>1, <1>5, <1>7, <1>8, <1>11 DEF Stretch
  <2>. QED
    BY <1>4, <1>8, <1>9, <1>10, <2>1
<1>12. CASE c = Blank
  <2>1. Read(r, Blank) = r
    <3>1. CASE s = <<>> \/ Last(s) = Blank
      BY <1>4, <1>12, <3>1 DEF Read
    <3>2. CASE ~(s = <<>> \/ Last(s) = Blank)
      <4>1. r = Append(s, Blank)
        BY <1>1, <1>2, <1>4, <1>12, <3>2 DEF Read
      <4>2. Last(r) = Blank
        BY <4>1 DEF Last
      <4>. QED
        BY <4>2 DEF Read
    <3>. QED
      BY <3>1, <3>2
  <2>2. IsRead(Append(v, Blank), r) /\ Append(v, Blank) \in Seq(C)
    BY <1>8, <1>9, <2>1, ReadMore
  <2>3. w \o Stretch(c) = Append(v, Blank)
    BY <1>1, <1>5, <1>7, <1>8, <1>12 DEF Stretch
  <2>. QED
    BY <1>4, <1>10, <2>2, <2>3
<1>. QED
  BY <1>11, <1>12

LEMMA StretchedIsRead ==
  ASSUME NEW u \in Seq(Chars), NEW s, IsRead(u, s)
  PROVE  Len(Stretched(u)) \in Nat /\ IsRead(Stretched(u), s)
<1>1. PICK n \in Nat : n = Len(u)
  OBVIOUS
<1>2. PICK C : C = Chars \cup {"z", Blank}
  OBVIOUS
<1>3. Blank \in C /\ "z" \in C /\ Chars \subseteq C
  BY <1>2
<1>4. PICK g : Reads(g, u) /\ s = g[Len(u)]
  BY DEF IsRead
<1>5. PICK w : Stretches(w, u) /\ Stretched(u) = w[n]
  <2>. DEFINE w == CHOOSE h : Stretches(h, u)
  <2>1. Stretched(u) = w[n]
    BY <1>1 DEF Stretched, Stretches, Stretch
  <2>2. Stretches(w, u)
    BY <1>1, StretchesExists
  <2>. QED
    BY <2>1, <2>2
<1>6. /\ \A k \in 0..n : g[k] = IF k = 0 THEN <<>> ELSE Read(g[k - 1], u[k])
      /\ \A k \in 0..n : w[k] = IF k = 0 THEN <<>> ELSE w[k - 1] \o Stretch(u[k])
  BY <1>1, <1>4, <1>5 DEF Reads, Stretches
<1>. DEFINE S == {k \in Nat : k <= n => w[k] \in Seq(C) /\ g[k] \in Seq(C) /\ IsRead(w[k], g[k])}
<1>7. 0 \in S
  <2>1. w[0] = <<>> /\ g[0] = <<>>
    BY <1>6
  <2>2. PICK e : e = <<>>
    OBVIOUS
  <2>3. e \in Seq(C) /\ IsRead(e, e)
    BY <2>2, NothingRead
  <2>4. w[0] \in Seq(C) /\ g[0] \in Seq(C) /\ IsRead(w[0], g[0])
    BY <2>1, <2>2, <2>3
  <2>. QED
    BY <2>4
<1>8. ASSUME NEW k \in Nat, k \in S PROVE k + 1 \in S
  <2>. SUFFICES ASSUME k + 1 <= n
                PROVE  w[k + 1] \in Seq(C) /\ g[k + 1] \in Seq(C) /\ IsRead(w[k + 1], g[k + 1])
    OBVIOUS
  <2>1. PICK p \in 1..n : p = k + 1 /\ p - 1 = k
    BY <1>1
  <2>2. PICK x, y, c : x = w[k] /\ y = g[k] /\ c = u[p]
    OBVIOUS
  <2>3. x \in Seq(C) /\ y \in Seq(C) /\ IsRead(x, y)
    BY <1>1, <1>8, <2>2
  <2>4. c \in C
    <3>1. u[p] \in Chars
      BY <1>1
    <3>. QED
      BY <1>3, <2>2, <3>1
  <2>5. w[p] = x \o Stretch(c) /\ g[p] = Read(y, c)
    <3>1. p \in 0..n /\ p # 0
      BY <1>1
    <3>2. w[p] = w[k] \o Stretch(u[p]) /\ g[p] = Read(g[k], u[p])
      BY <1>6, <2>1, <3>1
    <3>. QED
      BY <2>2, <3>2
  <2>. QED
    BY <1>3, <2>1, <2>3, <2>4, <2>5, StretchIsRead
<1>. HIDE DEF S
<1>9. Nat \subseteq S
  BY <1>7, <1>8, Induction
<1>10. PICK x : x = w[n]
  OBVIOUS
<1>11. x \in Seq(C) /\ IsRead(x, s)
  BY <1>1, <1>4, <1>9, <1>10 DEF S
<1>12. Len(x) \in Nat
  BY <1>11
<1>. QED
  BY <1>5, <1>10, <1>11, <1>12

LEMMA LayoutIs ==
  ASSUME NEW u \in Seq(Chars)
  PROVE  Normalized(Stretched(u)) = Normalized(u)
<1>1. PICK s : IsRead(u, s)
  BY IsReadExists
<1>2. PICK v : v = Stretched(u)
  OBVIOUS
<1>3. Len(v) \in Nat /\ IsRead(v, s)
  BY <1>1, <1>2, StretchedIsRead
<1>4. Normalized(v) = Trimmed(s) /\ Normalized(u) = Trimmed(s)
  BY <1>1, <1>3, NormalizedIs
<1>. QED
  BY <1>2, <1>4

(* However a text is spaced, and whatever characters of no width are put   *)
(* between the others, the guard reads the same, and what it read it would *)
(* read again as it is (normalize_for_detection).                          *)
THEOREM LayoutIsIgnored == Spec => []LayoutIgnored
<1>1. Conversation => LayoutIgnored
  <2>. SUFFICES ASSUME Conversation PROVE LayoutIgnored
    OBVIOUS
  <2>1. PICK u \in Seq(Chars) : u = Draft
    BY DraftIsText
  <2>2. PICK v : v = Stretched(u)
    OBVIOUS
  <2>3. Normalized(v) = Normalized(u) /\ Normalized(Normalized(u)) = Normalized(u)
    BY <2>1, <2>2, LayoutIs, NormalizedTwice
  <2>4. \A text : Suspicious(<<[role |-> "user", content |-> text]>>)
                      = \E p \in Patterns : Includes(Normalized(text), p)
    <3>. TAKE text
    <3>1. PICK m : m = [role |-> "user", content |-> text]
      OBVIOUS
    <3>2. m.role = "user" /\ m.content = text
      BY <3>1
    <3>3. Range(<<m>>) = {m}
      BY DEF Range
    <3>4. Suspicious(<<m>>) = \E p \in Patterns : Includes(Normalized(text), p)
      BY <3>2, <3>3 DEF Suspicious
    <3>. QED
      BY <3>1, <3>4
  <2>5. Suspicious(<<[role |-> "user", content |-> v]>>) = Suspicious(<<[role |-> "user", content |-> u]>>)
    BY <2>3, <2>4
  <2>. QED
    BY <2>1, <2>2, <2>3, <2>5 DEF LayoutIgnored
<1>. QED
  BY <1>1, ConversationInit, ConversationStep, PTL DEF Spec

-----------------------------------------------------------------------------
(* What the prompt guard compares *)

(* What the recursion of Words has after each character. *)
Splits(g, u) == g = [k \in 0..Len(u) |-> IF k = 0 THEN << <<>> >> ELSE Split(g[k - 1], u[k])]

(* The words of u, the last one not yet ended. *)
IsSplit(u, s) == \E g : Splits(g, u) /\ s = g[Len(u)]

(* With the last one ended. *)
Ended(s) == IF Last(s) = <<>> THEN Front(s) ELSE s

LEMMA SplitsExists ==
  ASSUME NEW u, Len(u) \in Nat
  PROVE  \E g : Splits(g, u)
<1>. DEFINE next(s, k) == Split(s, u[k])
            first == << <<>> >>
            does(g, n) == g = [k \in 0..n |-> IF k = 0 THEN first ELSE next(g[k - 1], k)]
            S == {n \in Nat : \E g : does(g, n)}
<1>0. \A g : Splits(g, u) <=> does(g, Len(u))
  BY DEF Splits
<1>. HIDE DEF next, first
<1>1. 0 \in S
  <2>1. does([k \in 0..0 |-> first], 0)
    OBVIOUS
  <2>. QED
    BY <2>1
<1>2. ASSUME NEW n \in Nat, n \in S PROVE n + 1 \in S
  <2>1. PICK h : does(h, n)
    BY <1>2
  <2>. DEFINE last == next(h[n], n + 1)
              g == [k \in 0..n + 1 |-> IF k = n + 1 THEN last ELSE h[k]]
  <2>2. \A k \in 0..n : h[k] = IF k = 0 THEN first ELSE next(h[k - 1], k)
    BY <2>1
  <2>3. \A k \in 0..n + 1 : g[k] = IF k = 0 THEN first ELSE next(g[k - 1], k)
    BY <2>2
  <2>4. g = [k \in 0..n + 1 |-> IF k = 0 THEN first ELSE next(g[k - 1], k)]
    BY <2>3
  <2>5. does(g, n + 1)
    BY <2>4
  <2>. HIDE DEF g, does
  <2>. QED
    BY <2>5
<1>. HIDE DEF S
<1>3. Nat \subseteq S
  BY <1>1, <1>2, Induction
<1>4. \E g : does(g, Len(u))
  BY <1>3 DEF S
<1>. QED
  BY <1>0, <1>4

LEMMA SplitOnce ==
  ASSUME NEW u, Len(u) \in Nat, NEW s, IsSplit(u, s), NEW r, IsSplit(u, r)
  PROVE  s = r
<1>1. PICK n \in Nat : n = Len(u)
  OBVIOUS
<1>2. PICK g : Splits(g, u) /\ s = g[Len(u)]
  BY DEF IsSplit
<1>3. PICK h : Splits(h, u) /\ r = h[Len(u)]
  BY DEF IsSplit
<1>4. /\ \A k \in 0..n : g[k] = IF k = 0 THEN << <<>> >> ELSE Split(g[k - 1], u[k])
      /\ \A k \in 0..n : h[k] = IF k = 0 THEN << <<>> >> ELSE Split(h[k - 1], u[k])
  BY <1>1, <1>2, <1>3 DEF Splits
<1>. DEFINE S == {k \in Nat : k <= n => g[k] = h[k]}
<1>5. 0 \in S
  BY <1>4
<1>6. ASSUME NEW k \in Nat, k \in S PROVE k + 1 \in S
  <2>. SUFFICES ASSUME k + 1 <= n PROVE g[k + 1] = h[k + 1]
    OBVIOUS
  <2>1. PICK p \in 0..n : p = k + 1 /\ p # 0 /\ p - 1 = k
    BY <1>1
  <2>2. g[k] = h[k]
    BY <1>1, <1>6
  <2>3. g[p] = Split(g[k], u[p]) /\ h[p] = Split(h[k], u[p])
    BY <1>4, <2>1
  <2>. QED
    BY <2>1, <2>2, <2>3
<1>. HIDE DEF S
<1>7. Nat \subseteq S
  BY <1>5, <1>6, Induction
<1>8. g[n] = h[n]
  BY <1>1, <1>7 DEF S
<1>. QED
  BY <1>1, <1>2, <1>3, <1>8

LEMMA NothingSplit == IsSplit(<<>>, << <<>> >>)
<1>1. PICK f : f = << <<>> >>
  OBVIOUS
<1>2. PICK g : g = [k \in 0..0 |-> f]
  OBVIOUS
<1>3. g = [k \in 0..0 |-> IF k = 0 THEN f ELSE Split(g[k - 1], <<>>[k])]
  BY <1>2
<1>4. Len(<<>>) = 0 /\ g[0] = f
  BY <1>2
<1>5. Splits(g, <<>>)
  BY <1>1, <1>3, <1>4 DEF Splits
<1>. QED
  BY <1>1, <1>4, <1>5 DEF IsSplit

LEMMA SplitMore ==
  ASSUME NEW S, NEW u \in Seq(S), NEW s, IsSplit(u, s), NEW c \in S
  PROVE  IsSplit(Append(u, c), Split(s, c))
<1>0. PICK f : f = << <<>> >>
  OBVIOUS
<1>1. PICK n \in Nat : n = Len(u)
  OBVIOUS
<1>2. PICK g : Splits(g, u) /\ s = g[Len(u)]
  BY DEF IsSplit
<1>3. PICK w : w = Append(u, c)
  OBVIOUS
<1>4. Len(w) = n + 1 /\ w[n + 1] = c /\ \A k \in 1..n : w[k] = u[k]
  BY <1>1, <1>3
<1>5. g = [k \in 0..n |-> IF k = 0 THEN f ELSE Split(g[k - 1], u[k])]
  BY <1>0, <1>1, <1>2 DEF Splits
<1>6. \A k \in 0..n : g[k] = IF k = 0 THEN f ELSE Split(g[k - 1], u[k])
  BY <1>5
<1>7. PICK last : last = Split(s, c)
  OBVIOUS
<1>8. PICK h : h = [k \in 0..n + 1 |-> IF k = n + 1 THEN last ELSE g[k]]
  OBVIOUS
<1>9. \A k \in 0..n + 1 : h[k] = IF k = 0 THEN f ELSE Split(h[k - 1], w[k])
  <2>. TAKE k \in 0..n + 1
  <2>1. CASE k = n + 1
    <3>1. h[k] = last /\ h[k - 1] = g[n] /\ k # 0 /\ w[k] = c
      BY <1>4, <1>8, <2>1
    <3>. QED
      BY <1>1, <1>2, <1>7, <3>1
  <2>2. CASE k # n + 1
    <3>1. k \in 0..n /\ h[k] = g[k]
      BY <1>8, <2>2
    <3>2. CASE k = 0
      BY <1>6, <3>1, <3>2
    <3>3. CASE k # 0
      <4>1. h[k - 1] = g[k - 1] /\ w[k] = u[k]
        BY <1>4, <1>8, <3>1, <3>3
      <4>2. g[k] = Split(g[k - 1], u[k])
        BY <1>6, <3>1, <3>3
      <4>. QED
        BY <3>1, <3>3, <4>1, <4>2
    <3>. QED
      BY <3>2, <3>3
  <2>. QED
    BY <2>1, <2>2
<1>10. h = [k \in 0..n + 1 |-> h[k]]
  BY <1>8
<1>11. h = [k \in 0..n + 1 |-> IF k = 0 THEN f ELSE Split(h[k - 1], w[k])]
  BY <1>9, <1>10
<1>12. Splits(h, w) /\ h[Len(w)] = last
  BY <1>0, <1>4, <1>8, <1>11 DEF Splits
<1>. QED
  BY <1>3, <1>7, <1>12 DEF IsSplit

LEMMA WordsIs ==
  ASSUME NEW u, Len(u) \in Nat, NEW s, IsSplit(u, s)
  PROVE  Words(u) = Ended(s)
<1>. DEFINE g == CHOOSE h : Splits(h, u)
<1>1. Words(u) = Ended(g[Len(u)])
  BY DEF Words, Splits, Ended
<1>2. Splits(g, u)
  BY SplitsExists
<1>3. IsSplit(u, g[Len(u)])
  BY <1>2 DEF IsSplit
<1>4. g[Len(u)] = s
  BY <1>3, SplitOnce
<1>. QED
  BY <1>1, <1>4

LEMMA IsSplitExists ==
  ASSUME NEW u, Len(u) \in Nat
  PROVE  \E s : IsSplit(u, s)
BY SplitsExists DEF IsSplit

-----------------------------------------------------------------------------
LEMMA SameSeq ==
  ASSUME NEW S, NEW s \in Seq(S), NEW t \in Seq(S), NEW l \in Nat, Len(s) = l, Len(t) = l,
         \A k \in 1..l : s[k] = t[k]
  PROVE  s = t
OBVIOUS

(* Words of characters of C, of which only the last may have none. *)
Open(s, C) ==
    /\ s \in Seq(Seq(C)) /\ Len(s) > 0
    /\ \A k \in 1..Len(s) - 1 : s[k] # <<>>

LEMMA SplitIs ==
  ASSUME NEW C, Blank \notin C, NEW s, Open(s, C), NEW l \in Nat, Len(s) = l,
         NEW c \in C \cup {Blank}, NEW t, t = Split(s, c)
  PROVE  /\ Open(t, C)
         /\ c # Blank => Len(t) = l /\ t[l] = Append(s[l], c) /\ \A k \in 1..l - 1 : t[k] = s[k]
         /\ c = Blank /\ s[l] = <<>> => t = s
         /\ c = Blank /\ s[l] # <<>> => t = Append(s, <<>>)
<1>1. s \in Seq(Seq(C)) /\ l > 0 /\ DOMAIN s = 1..l /\ Last(s) = s[l] /\ s[l] \in Seq(C)
  BY DEF Open, Last
<1>2. CASE c # Blank
  <2>1. PICK w : w = Append(s[l], c)
    OBVIOUS
  <2>2. w \in Seq(C)
    BY <1>1, <1>2, <2>1
  <2>3. t = [s EXCEPT ![l] = w]
    BY <1>2, <2>1 DEF Split
  <2>4. t \in Seq(Seq(C)) /\ Len(t) = l /\ t[l] = w /\ \A k \in 1..l - 1 : t[k] = s[k]
    BY <1>1, <2>2, <2>3
  <2>5. Open(t, C)
    BY <1>1, <2>4 DEF Open
  <2>. QED
    BY <1>2, <2>1, <2>4, <2>5
<1>3. CASE c = Blank /\ s[l] = <<>>
  BY <1>1, <1>3 DEF Split
<1>4. CASE c = Blank /\ s[l] # <<>>
  <2>1. PICK e : e = <<>>
    OBVIOUS
  <2>2. t = Append(s, e)
    BY <1>1, <1>4, <2>1 DEF Split
  <2>3. e \in Seq(C)
    BY <2>1
  <2>4. t \in Seq(Seq(C)) /\ Len(t) = l + 1 /\ \A k \in 1..l : t[k] = s[k]
    BY <1>1, <2>2, <2>3
  <2>5. \A k \in 1..l : s[k] # <<>>
    BY <1>1, <1>4 DEF Open
  <2>6. Open(t, C)
    BY <1>1, <2>4, <2>5 DEF Open
  <2>. QED
    BY <1>4, <2>1, <2>2, <2>6
<1>. QED
  BY <1>2, <1>3, <1>4

LEMMA TextIsOpen ==
  ASSUME NEW C, Blank \notin C, NEW u \in Seq(C \cup {Blank}), NEW g, Splits(g, u), NEW n \in Nat, n = Len(u)
  PROVE  \A k \in 0..n : Open(g[k], C)
<1>1. PICK f : f = << <<>> >>
  OBVIOUS
<1>2. \A k \in 0..n : g[k] = IF k = 0 THEN f ELSE Split(g[k - 1], u[k])
  BY <1>1 DEF Splits
<1>. DEFINE S == {k \in Nat : k <= n => Open(g[k], C)}
<1>3. 0 \in S
  <2>1. PICK e : e = <<>>
    OBVIOUS
  <2>2. f = <<e>> /\ e \in Seq(C)
    BY <1>1, <2>1
  <2>3. f \in Seq(Seq(C)) /\ Len(f) = 1
    BY <2>2
  <2>4. Open(f, C)
    BY <2>3 DEF Open
  <2>5. g[0] = f
    BY <1>2
  <2>. QED
    BY <2>4, <2>5
<1>4. ASSUME NEW k \in Nat, k \in S PROVE k + 1 \in S
  <2>. SUFFICES ASSUME k + 1 <= n PROVE Open(g[k + 1], C)
    OBVIOUS
  <2>1. PICK p \in 0..n : p = k + 1 /\ p # 0 /\ p - 1 = k /\ p \in 1..n
    OBVIOUS
  <2>2. PICK s, t, c : s = g[k] /\ t = g[p] /\ c = u[p]
    OBVIOUS
  <2>3. Open(s, C)
    BY <1>4, <2>2
  <2>4. t = Split(s, c)
    BY <1>2, <2>1, <2>2
  <2>5. c \in C \cup {Blank}
    BY <2>1, <2>2
  <2>6. PICK l \in Nat : l = Len(s)
    BY <2>3 DEF Open
  <2>7. Open(t, C)
    BY <2>3, <2>4, <2>5, <2>6, SplitIs
  <2>. QED
    BY <2>1, <2>2, <2>7
<1>. HIDE DEF S
<1>5. Nat \subseteq S
  BY <1>3, <1>4, Induction
<1>. QED
  BY <1>5 DEF S

(* The words of a text are not empty, and of its characters. *)
LEMMA WordsMade ==
  ASSUME NEW C, Blank \notin C, NEW u \in Seq(C \cup {Blank})
  PROVE  /\ Words(u) \in Seq(Seq(C))
         /\ \A k \in DOMAIN Words(u) : Words(u)[k] # <<>>
<1>1. PICK n \in Nat : n = Len(u)
  OBVIOUS
<1>2. PICK g : Splits(g, u)
  BY <1>1, SplitsExists
<1>3. PICK s : s = g[n]
  OBVIOUS
<1>4. Open(s, C)
  BY <1>1, <1>2, <1>3, TextIsOpen
<1>5. Words(u) = Ended(s)
  <2>1. IsSplit(u, s)
    BY <1>1, <1>2, <1>3 DEF IsSplit
  <2>. QED
    BY <1>1, <2>1, WordsIs
<1>6. PICK l \in Nat : l = Len(s) /\ l > 0 /\ s \in Seq(Seq(C)) /\ Last(s) = s[l]
  BY <1>4 DEF Open, Last
<1>7. \A k \in 1..l - 1 : s[k] # <<>>
  BY <1>4, <1>6 DEF Open
<1>8. CASE s[l] = <<>>
  <2>1. PICK t : t = Front(s)
    OBVIOUS
  <2>2. t \in Seq(Seq(C)) /\ Len(t) = l - 1 /\ \A k \in 1..l - 1 : t[k] = s[k]
    BY <1>6, <2>1 DEF Front
  <2>3. Words(u) = t
    BY <1>5, <1>6, <1>8, <2>1 DEF Ended
  <2>4. DOMAIN t = 1..l - 1
    BY <1>6, <2>2
  <2>5. \A k \in DOMAIN t : t[k] # <<>>
    BY <1>7, <2>2, <2>4
  <2>. QED
    BY <2>2, <2>3, <2>5
<1>9. CASE s[l] # <<>>
  <2>1. Words(u) = s
    BY <1>5, <1>6, <1>9 DEF Ended
  <2>2. \A k \in 1..l : s[k] # <<>>
    BY <1>6, <1>7, <1>9
  <2>. QED
    BY <1>6, <2>1, <2>2
<1>. QED
  BY <1>8, <1>9

LEMMA Prepended ==
  ASSUME NEW D, NEW w \in D, NEW s \in Seq(D), NEW r, r = <<w>> \o s, NEW l \in Nat, Len(s) = l
  PROVE  r \in Seq(D) /\ Len(r) = l + 1 /\ r[1] = w /\ \A k \in 1..l : r[k + 1] = s[k]
OBVIOUS

LEMMA PrependedAgain ==
  ASSUME NEW D, NEW w \in D, NEW s \in Seq(D), NEW e \in D,
         NEW r, r = <<w>> \o s, NEW t, t = Append(s, e)
  PROVE  Append(r, e) = <<w>> \o t
OBVIOUS

(* One more word before the words s. *)
Prepends(r, w, s) == r = <<w>> \o s

LEMMA LastChanged ==
  ASSUME NEW D, NEW s \in Seq(D), NEW m \in Nat, m > 0, Len(s) = m, NEW v \in D,
         NEW y, y = [s EXCEPT ![m] = v]
  PROVE  y \in Seq(D) /\ Len(y) = m /\ y[m] = v /\ \A k \in 1..m - 1 : y[k] = s[k]
OBVIOUS

LEMMA SplitBehind ==
  ASSUME NEW C, Blank \notin C, NEW s, Open(s, C), NEW w \in Seq(C),
         NEW c \in C \cup {Blank}, NEW r, Prepends(r, w, s)
  PROVE  Prepends(Split(r, c), w, Split(s, c))
<1>. SUFFICES Split(r, c) = <<w>> \o Split(s, c)
  BY DEF Prepends
<1>9. r = <<w>> \o s
  BY DEF Prepends
<1>0. s \in Seq(Seq(C)) /\ Len(s) > 0
  BY DEF Open
<1>1. PICK l \in Nat : l = Len(s) /\ l > 0 /\ s \in Seq(Seq(C))
  <2>1. PICK D : D = Seq(C)
    OBVIOUS
  <2>2. s \in Seq(D) /\ Len(s) > 0
    BY <1>0, <2>1
  <2>3. Len(s) \in Nat /\ Len(s) > 0
    BY <2>2
  <2>. QED
    BY <1>0, <2>3
<1>2. r \in Seq(Seq(C)) /\ Len(r) = l + 1 /\ r[1] = w /\ \A k \in 1..l : r[k + 1] = s[k]
  <2>1. PICK D : D = Seq(C)
    OBVIOUS
  <2>2. w \in D /\ s \in Seq(D) /\ Len(s) = l
    BY <1>1, <2>1
  <2>3. r \in Seq(D) /\ Len(r) = l + 1 /\ r[1] = w /\ \A k \in 1..l : r[k + 1] = s[k]
    BY <1>9, <2>2, Prepended
  <2>. QED
    BY <2>1, <2>3
<1>3. Last(s) = s[l] /\ Last(r) = s[l] /\ r[l + 1] = s[l]
  BY <1>1, <1>2 DEF Last
<1>4. CASE c # Blank
  <2>1. PICK v : v = Append(s[l], c)
    OBVIOUS
  <2>2. v \in Seq(C)
    BY <1>1, <1>4, <2>1
  <2>3. PICK t : t = [s EXCEPT ![l] = v]
    OBVIOUS
  <2>4. Split(s, c) = t
    BY <1>1, <1>4, <2>1, <2>3 DEF Split
  <2>0. PICK m \in Nat : m = l + 1 /\ m > 0
    BY <1>1
  <2>5. PICK y : y = [r EXCEPT ![m] = v]
    OBVIOUS
  <2>6. Split(r, c) = y
    <3>1. r \in Seq(Seq(C)) /\ Len(r) = m /\ r[m] = s[l]
      BY <1>2, <1>3, <2>0
    <3>. QED
      BY <1>4, <2>1, <2>5, <3>1 DEF Split
  <2>7. t \in Seq(Seq(C)) /\ Len(t) = l /\ t[l] = v /\ \A k \in 1..l - 1 : t[k] = s[k]
    BY <1>1, <2>2, <2>3
  <2>8. y \in Seq(Seq(C)) /\ Len(y) = l + 1 /\ y[l + 1] = v /\ \A k \in 1..l : y[k] = r[k]
    <3>1. r \in Seq(Seq(C)) /\ Len(r) = m
      BY <1>2, <2>0
    <3>2. y \in Seq(Seq(C)) /\ Len(y) = m /\ y[m] = v /\ \A k \in 1..m - 1 : y[k] = r[k]
      <4>1. PICK D : D = Seq(C)
        OBVIOUS
      <4>2. r \in Seq(D) /\ Len(r) = m /\ v \in D
        BY <2>2, <3>1, <4>1
      <4>3. y \in Seq(D) /\ Len(y) = m /\ y[m] = v /\ \A k \in 1..m - 1 : y[k] = r[k]
        BY <2>0, <2>5, <4>2, LastChanged
      <4>. QED
        BY <4>1, <4>3
    <3>3. m - 1 = l
      BY <2>0
    <3>. QED
      BY <2>0, <3>2, <3>3
  <2>9. PICK z : z = <<w>> \o t
    OBVIOUS
  <2>10. z \in Seq(Seq(C)) /\ Len(z) = l + 1 /\ z[1] = w /\ \A k \in 1..l : z[k + 1] = t[k]
    <3>1. PICK D : D = Seq(C)
      OBVIOUS
    <3>2. w \in D /\ t \in Seq(D) /\ Len(t) = l
      BY <2>7, <3>1
    <3>3. z \in Seq(D) /\ Len(z) = l + 1 /\ z[1] = w /\ \A k \in 1..l : z[k + 1] = t[k]
      BY <2>9, <3>2, Prepended
    <3>. QED
      BY <3>1, <3>3
  <2>11. \A k \in 1..l + 1 : z[k] = y[k]
    <3>. TAKE k \in 1..l + 1
    <3>1. CASE k = 1
      <4>1. 1 \in 1..l
        BY <1>1
      <4>2. y[1] = r[1]
        BY <2>8, <4>1
      <4>. QED
        BY <1>2, <2>10, <3>1, <4>2
    <3>2. CASE k = l + 1 /\ k # 1
      <4>1. l \in 1..l
        BY <1>1
      <4>2. z[l + 1] = t[l]
        BY <2>10, <4>1
      <4>. QED
        BY <2>7, <2>8, <3>2, <4>2
    <3>3. CASE k # 1 /\ k # l + 1
      <4>1. PICK j \in 1..l - 1 : k = j + 1
        BY <1>1, <3>3
      <4>2. z[k] = s[j]
        <5>1. j \in 1..l
          BY <1>1, <4>1
        <5>2. z[j + 1] = t[j] /\ t[j] = s[j]
          BY <2>7, <2>10, <4>1, <5>1
        <5>. QED
          BY <4>1, <5>2
      <4>3. y[k] = s[j]
        <5>1. j \in 1..l /\ k \in 1..l
          BY <1>1, <4>1
        <5>2. y[k] = r[k] /\ r[j + 1] = s[j]
          BY <1>2, <2>8, <5>1
        <5>. QED
          BY <4>1, <5>2
      <4>. QED
        BY <4>2, <4>3
    <3>. QED
      BY <3>1, <3>2, <3>3
  <2>12. z = y
    <3>2. PICK D : D = Seq(C)
      OBVIOUS
    <3>3. z \in Seq(D) /\ y \in Seq(D) /\ Len(z) = m /\ Len(y) = m /\ \A k \in 1..m : z[k] = y[k]
      BY <2>0, <2>8, <2>10, <2>11, <3>2
    <3>. QED
      BY <3>3, SameSeq
  <2>. QED
    BY <2>4, <2>6, <2>9, <2>12
<1>5. CASE c = Blank /\ s[l] = <<>>
  <2>1. Split(s, c) = s /\ Split(r, c) = r
    BY <1>3, <1>5 DEF Split
  <2>. QED
    BY <1>9, <2>1
<1>6. CASE c = Blank /\ s[l] # <<>>
  <2>0. PICK e : e = <<>>
    OBVIOUS
  <2>1. e \in Seq(C) /\ e = <<>>
    BY <2>0
  <2>2. Split(s, c) = Append(s, e) /\ Split(r, c) = Append(r, e)
    BY <1>3, <1>6, <2>1 DEF Split
  <2>3. Append(<<w>> \o s, e) = <<w>> \o Append(s, e)
    <3>1. PICK D : D = Seq(C)
      OBVIOUS
    <3>2. w \in D /\ e \in D /\ s \in Seq(D)
      BY <1>1, <2>1, <3>1
    <3>3. PICK x, t : x = <<w>> \o s /\ t = Append(s, e)
      OBVIOUS
    <3>4. Append(x, e) = <<w>> \o t
      BY <2>1, <3>2, <3>3, PrependedAgain
    <3>. QED
      BY <3>3, <3>4
  <2>. QED
    BY <1>9, <2>2, <2>3
<1>. QED
  BY <1>4, <1>5, <1>6

(* Behind a word of one character and white space a text is split as it is alone. *)
LEMMA SplitBehindWord ==
  ASSUME NEW C, Blank \notin C, NEW a \in C, NEW u \in Seq(C \cup {Blank}),
         NEW s, IsSplit(u, s), NEW v, v = <<a, Blank>> \o u
  PROVE  IsSplit(v, << <<a>> >> \o s)
<1>1. PICK n \in Nat : n = Len(u)
  OBVIOUS
<1>2. PICK g : Splits(g, u) /\ s = g[n]
  BY <1>1 DEF IsSplit
<1>3. \A k \in 0..n : Open(g[k], C)
  BY <1>1, <1>2, TextIsOpen
<1>4. PICK f : f = << <<>> >>
  OBVIOUS
<1>5. \A k \in 0..n : g[k] = IF k = 0 THEN f ELSE Split(g[k - 1], u[k])
  BY <1>1, <1>2, <1>4 DEF Splits
<1>0. PICK w : w = <<a>>
  OBVIOUS
<1>6. w \in Seq(C) /\ w = <<a>>
  BY <1>0
<1>7. PICK h : h = [k \in 0..n + 2 |-> IF k = 0 THEN f ELSE IF k = 1 THEN <<w>> ELSE <<w>> \o g[k - 2]]
  OBVIOUS
<1>8. v \in Seq(C \cup {Blank}) /\ Len(v) = n + 2 /\ v[1] = a /\ v[2] = Blank
      /\ \A k \in 1..n : v[k + 2] = u[k]
  BY <1>1
<1>9. \A k \in 0..n + 2 : h[k] = IF k = 0 THEN f ELSE Split(h[k - 1], v[k])
  <2>1. h[0] = f /\ h[1] = <<w>> /\ h[2] = <<w>> \o g[0] /\ g[0] = f
    <3>1. 0 \in 0..n /\ 0 \in 0..n + 2 /\ 1 \in 0..n + 2 /\ 2 \in 0..n + 2
      OBVIOUS
    <3>2. h[2] = <<w>> \o g[2 - 2]
      BY <1>7, <3>1
    <3>3. 2 - 2 = 0
      OBVIOUS
    <3>4. h[0] = f /\ h[1] = <<w>> /\ g[0] = f
      BY <1>5, <1>7, <3>1
    <3>. QED
      BY <3>2, <3>3, <3>4
  <2>0. PICK e : e = <<>>
    OBVIOUS
  <2>2. e \in Seq(C) /\ e = <<>> /\ f = <<e>>
    BY <1>4, <2>0
  <2>3. <<w>> = Split(f, a)
    <3>1. Append(e, a) = w
      BY <1>6, <2>2
    <3>2. f \in Seq(Seq(C)) /\ Len(f) = 1 /\ f[1] = e
      BY <2>2
    <3>3. PICK t : t = [f EXCEPT ![1] = w]
      OBVIOUS
    <3>4. Split(f, a) = t
      <4>1. a # Blank /\ Len(f) = 1 /\ Append(f[1], a) = w
        BY <3>1, <3>2
      <4>. QED
        BY <3>3, <4>1 DEF Split
    <3>5. t = <<w>>
      BY <2>2, <3>3
    <3>. QED
      BY <3>4, <3>5
  <2>4. <<w>> \o f = Split(<<w>>, Blank)
    <3>1. PICK x : x = <<w>>
      OBVIOUS
    <3>2. x \in Seq(Seq(C)) /\ Len(x) = 1 /\ x[1] = w /\ w # <<>>
      BY <1>6, <3>1
    <3>3. Last(x) # <<>>
      BY <3>2 DEF Last
    <3>4. Split(x, Blank) = Append(x, e)
      BY <2>2, <3>3 DEF Split
    <3>5. Append(x, e) = x \o <<e>>
      BY <3>2
    <3>. QED
      BY <2>2, <3>1, <3>4, <3>5
  <2>. TAKE k \in 0..n + 2
  <2>6. CASE k = 0
    BY <2>1, <2>6
  <2>7. CASE k = 1
    <3>1. k - 1 = 0 /\ v[k] = a
      BY <1>8, <2>7
    <3>. QED
      BY <2>1, <2>3, <2>7, <3>1
  <2>8. CASE k = 2
    <3>1. k - 1 = 1 /\ v[k] = Blank
      BY <1>8, <2>8
    <3>. QED
      BY <2>1, <2>4, <2>8, <3>1
  <2>9. CASE k > 2
    <3>1. PICK j \in 1..n : k = j + 2
      BY <2>9
    <3>2. PICK i \in 0..n : i = j - 1
      BY <3>1
    <3>3. k - 2 = j /\ (k - 1) - 2 = i /\ k - 1 \in 0..n + 2 /\ k - 1 # 0 /\ k - 1 # 1 /\ k # 0 /\ k # 1
      BY <3>1, <3>2, <2>9
    <3>4. h[k] = <<w>> \o g[j] /\ h[k - 1] = <<w>> \o g[i]
      BY <1>7, <3>3
    <3>5. g[j] = Split(g[i], u[j])
      BY <1>5, <3>1, <3>2
    <3>6. v[k] = u[j] /\ u[j] \in C \cup {Blank}
      BY <1>1, <1>8, <3>1
    <3>7. Open(g[i], C)
      BY <1>3, <3>2
    <3>8. PICK x, y, c : x = g[i] /\ y = h[k - 1] /\ c = u[j]
      OBVIOUS
    <3>10. Prepends(y, w, x) /\ Open(x, C) /\ c \in C \cup {Blank} /\ w \in Seq(C)
      BY <1>6, <3>4, <3>6, <3>7, <3>8 DEF Prepends
    <3>11. Prepends(Split(y, c), w, Split(x, c))
      BY <3>10, SplitBehind
    <3>9. Split(y, c) = <<w>> \o Split(x, c)
      BY <3>11 DEF Prepends
    <3>. QED
      BY <3>3, <3>4, <3>5, <3>6, <3>8, <3>9
  <2>10. k = 0 \/ k = 1 \/ k = 2 \/ k > 2
    OBVIOUS
  <2>. QED
    BY <2>6, <2>7, <2>8, <2>9, <2>10
<1>10. h = [k \in 0..n + 2 |-> h[k]]
  BY <1>7
<1>11. h = [k \in 0..n + 2 |-> IF k = 0 THEN f ELSE Split(h[k - 1], v[k])]
  BY <1>9, <1>10
<1>12. PICK m \in Nat : m = n + 2
  OBVIOUS
<1>13. Splits(h, v)
  BY <1>4, <1>8, <1>11 DEF Splits
<1>14. h[m] = <<w>> \o s
  <2>1. m \in 0..n + 2 /\ m # 0 /\ m # 1 /\ m - 2 = n
    BY <1>12
  <2>2. h[m] = <<w>> \o g[m - 2]
    BY <1>7, <2>1
  <2>. QED
    BY <1>2, <2>1, <2>2
<1>15. Len(v) = m
  BY <1>8, <1>12
<1>. QED
  BY <1>6, <1>13, <1>14, <1>15 DEF IsSplit

LEMMA SplitIsOpen ==
  ASSUME NEW C, Blank \notin C, NEW u \in Seq(C \cup {Blank}), NEW s, IsSplit(u, s)
  PROVE  Open(s, C)
<1>1. PICK n \in Nat : n = Len(u)
  OBVIOUS
<1>2. PICK g : Splits(g, u) /\ s = g[n]
  BY <1>1 DEF IsSplit
<1>3. \A k \in 0..n : Open(g[k], C)
  BY <1>1, <1>2, TextIsOpen
<1>. QED
  BY <1>1, <1>2, <1>3

LEMMA OpenLength ==
  ASSUME NEW C, NEW s, Open(s, C)
  PROVE  \E l \in Nat : l = Len(s) /\ l > 0 /\ s \in Seq(Seq(C)) /\ Last(s) = s[l]
<1>1. PICK D : D = Seq(C)
  OBVIOUS
<1>2. s \in Seq(D) /\ Len(s) > 0
  BY <1>1 DEF Open
<1>3. Len(s) \in Nat /\ Len(s) > 0
  BY <1>2
<1>. QED
  BY <1>1, <1>2, <1>3 DEF Last

LEMMA Appended ==
  ASSUME NEW D, NEW s \in Seq(D), NEW e \in D, NEW l \in Nat, Len(s) = l, NEW t, t = Append(s, e)
  PROVE  t \in Seq(D) /\ Len(t) = l + 1 /\ t[l + 1] = e /\ \A k \in 1..l : t[k] = s[k]
OBVIOUS

LEMMA FrontIs ==
  ASSUME NEW D, NEW s \in Seq(D), NEW l \in Nat, Len(s) = l, l > 0, NEW t, t = Front(s)
  PROVE  t \in Seq(D) /\ Len(t) = l - 1 /\ \A k \in 1..l - 1 : t[k] = s[k]
BY DEF Front

LEMMA FrontAgain ==
  ASSUME NEW D, NEW s \in Seq(D), NEW l \in Nat, Len(s) = l, l > 0, NEW e, s[l] = e
  PROVE  Append(Front(s), e) = s
<1>1. PICK t : t = Front(s)
  OBVIOUS
<1>2. t \in Seq(D) /\ Len(t) = l - 1 /\ \A k \in 1..l - 1 : t[k] = s[k]
  BY <1>1, FrontIs
<1>3. e \in D
  OBVIOUS
<1>4. PICK r : r = Append(t, e)
  OBVIOUS
<1>5. PICK m \in Nat : m = l - 1 /\ m + 1 = l
  OBVIOUS
<1>6. r \in Seq(D) /\ Len(r) = l /\ r[l] = e /\ \A k \in 1..m : r[k] = t[k]
  <2>1. r \in Seq(D) /\ Len(r) = m + 1 /\ r[m + 1] = e /\ \A k \in 1..m : r[k] = t[k]
    BY <1>2, <1>3, <1>4, <1>5, Appended
  <2>. QED
    BY <1>5, <2>1
<1>7. \A k \in 1..l : r[k] = s[k]
  <2>. TAKE k \in 1..l
  <2>1. CASE k = l
    BY <1>6, <2>1
  <2>2. CASE k # l
    <3>1. k \in 1..m /\ k \in 1..l - 1
      BY <1>5, <2>2
    <3>. QED
      BY <1>2, <1>6, <3>1
  <2>. QED
    BY <2>1, <2>2
<1>8. r = s
  BY <1>6, <1>7, SameSeq
<1>. QED
  BY <1>1, <1>4, <1>8

(* The text u between two words of one character. *)
Between(v, a, u) == v = <<a, Blank>> \o u \o <<Blank, a>>

(* Between words of one character the words of a text are what they are    *)
(* alone.                                                                  *)
LEMMA WordsAround ==
  ASSUME NEW C, Blank \notin C, NEW a \in C, NEW u \in Seq(C \cup {Blank}),
         NEW w, w = <<a>>, NEW v, Between(v, a, u)
  PROVE  Words(v) = <<w>> \o Words(u) \o <<w>>
<1>. v = <<a, Blank>> \o u \o <<Blank, a>>
  BY DEF Between
<1>1. Len(u) \in Nat
  OBVIOUS
<1>2. PICK s : IsSplit(u, s)
  BY <1>1, IsSplitExists
<1>3. Open(s, C)
  BY <1>2, SplitIsOpen
<1>4. PICK E : E = C \cup {Blank}
  OBVIOUS
<1>5. a \in E /\ Blank \in E /\ u \in Seq(E) /\ a # Blank
  BY <1>4
<1>6. PICK v0 : v0 = <<a, Blank>> \o u
  OBVIOUS
<1>7. PICK v1 : v1 = Append(v0, Blank)
  OBVIOUS
<1>8. v0 \in Seq(E) /\ v1 \in Seq(E)
  BY <1>5, <1>6, <1>7
<1>9. v = Append(v1, a) /\ v \in Seq(E)
  BY <1>5, <1>6, <1>7, <1>8
<1>10. PICK r : r = <<w>> \o s
  OBVIOUS
<1>11. IsSplit(v0, r)
  BY <1>2, <1>6, <1>10, SplitBehindWord
<1>12. PICK t : t = Split(r, Blank)
  OBVIOUS
<1>13. IsSplit(v1, t)
  BY <1>5, <1>7, <1>8, <1>11, <1>12, SplitMore
<1>14. PICK x : x = Split(t, a)
  OBVIOUS
<1>15. IsSplit(v, x)
  BY <1>5, <1>8, <1>9, <1>13, <1>14, SplitMore
<1>16. Words(u) = Ended(s)
  BY <1>1, <1>2, WordsIs
<1>17. Words(v) = Ended(x)
  <2>1. Len(v) \in Nat
    BY <1>9
  <2>. QED
    BY <1>15, <2>1, WordsIs
<1>18. Open(r, C) /\ Open(t, C) /\ Open(x, C)
  BY <1>4, <1>8, <1>9, <1>11, <1>13, <1>15, SplitIsOpen
<1>19. PICK l \in Nat : l = Len(s) /\ l > 0 /\ s \in Seq(Seq(C)) /\ Last(s) = s[l]
  BY <1>3, OpenLength
<1>20. PICK D : D = Seq(C)
  OBVIOUS
<1>21. PICK o : o = <<>>
  OBVIOUS
<1>22. s \in Seq(D) /\ w \in D /\ o \in D /\ w # o
  BY <1>19, <1>20, <1>21
<1>23. PICK y : y = Ended(s)
  OBVIOUS
<1>24. PICK z : z = <<w>> \o y
  OBVIOUS
<1>25. y \in Seq(D) /\ z \in Seq(D) /\ t = Append(z, o)
  <2>1. r \in Seq(D) /\ Len(r) = l + 1 /\ \A k \in 1..l : r[k + 1] = s[k]
    BY <1>10, <1>19, <1>22, Prepended
  <2>2. PICK m \in Nat : m = l + 1 /\ m > 0
    OBVIOUS
  <2>3. r[m] = s[l] /\ Len(r) = m
    BY <1>19, <2>1, <2>2
  <2>4. CASE s[l] = o
    <3>1. y = Front(s)
      BY <1>19, <1>21, <1>23, <2>4 DEF Ended
    <3>2. y \in Seq(D)
      BY <1>19, <1>22, <3>1, FrontIs
    <3>3. s = Append(y, o)
      BY <1>19, <1>22, <2>4, <3>1, FrontAgain
    <3>4. Append(z, o) = <<w>> \o s
      BY <1>22, <1>24, <3>2, <3>3, PrependedAgain
    <3>5. t = r
      <4>1. Last(r) = o
        BY <2>1, <2>3, <2>4 DEF Last
      <4>. QED
        BY <1>12, <1>21, <4>1 DEF Split
    <3>6. z \in Seq(D)
      BY <1>22, <1>24, <3>2
    <3>. QED
      BY <1>10, <3>2, <3>4, <3>5, <3>6
  <2>5. CASE s[l] # o
    <3>1. y = s
      BY <1>19, <1>21, <1>23, <2>5 DEF Ended
    <3>2. Last(r) # o
      BY <2>1, <2>3, <2>5 DEF Last
    <3>3. t = Append(r, o)
      BY <1>12, <1>21, <3>2 DEF Split
    <3>. QED
      BY <1>10, <1>22, <1>24, <2>1, <3>1, <3>3
  <2>. QED
    BY <2>4, <2>5
<1>26. PICK l1 \in Nat : l1 = Len(z)
  BY <1>25
<1>27. PICK l2 \in Nat : l2 = l1 + 1 /\ l2 > 0 /\ l2 - 1 = l1
  OBVIOUS
<1>28. t \in Seq(D) /\ Len(t) = l2 /\ t[l2] = o /\ \A k \in 1..l1 : t[k] = z[k]
  BY <1>22, <1>25, <1>26, <1>27, Appended
<1>29. x = [t EXCEPT ![l2] = w]
  <2>1. Append(o, a) = w
    BY <1>21
  <2>. QED
    BY <1>5, <1>14, <1>28, <2>1 DEF Split
<1>30. x \in Seq(D) /\ Len(x) = l2 /\ x[l2] = w /\ \A k \in 1..l1 : x[k] = t[k]
  BY <1>22, <1>27, <1>28, <1>29, LastChanged
<1>31. Last(x) # <<>>
  BY <1>21, <1>22, <1>30 DEF Last
<1>32. Words(v) = x
  BY <1>17, <1>31 DEF Ended
<1>33. PICK q : q = Append(z, w)
  OBVIOUS
<1>34. q \in Seq(D) /\ Len(q) = l2 /\ q[l2] = w /\ \A k \in 1..l1 : q[k] = z[k]
  BY <1>22, <1>25, <1>26, <1>27, <1>33, Appended
<1>35. \A k \in 1..l2 : x[k] = q[k]
  <2>. TAKE k \in 1..l2
  <2>1. CASE k = l2
    BY <1>30, <1>34, <2>1
  <2>2. CASE k # l2
    <3>1. k \in 1..l1
      BY <1>27, <2>2
    <3>. QED
      BY <1>28, <1>30, <1>34, <3>1
  <2>. QED
    BY <2>1, <2>2
<1>36. x = q
  BY <1>30, <1>34, <1>35, SameSeq
<1>37. q = z \o <<w>>
  BY <1>22, <1>25, <1>33
<1>. QED
  BY <1>16, <1>23, <1>24, <1>32, <1>36, <1>37

LEMMA ShiftedPart ==
  ASSUME NEW D, NEW s \in Seq(D), NEW t \in Seq(D), NEW n \in Nat, Len(s) = n, Len(t) = n + 2,
         \A k \in 1..n : t[k + 1] = s[k],
         NEW i \in 1..n, NEW j \in 1..n, i <= j
  PROVE  SubSeq(s, i, j) = SubSeq(t, i + 1, j + 1)
<1>1. PICK l \in Nat : l = j - i + 1
  OBVIOUS
<1>2. PICK x : x = SubSeq(s, i, j)
  OBVIOUS
<1>3. PICK y : y = SubSeq(t, i + 1, j + 1)
  OBVIOUS
<1>4. x \in Seq(D) /\ Len(x) = l /\ \A k \in 1..l : x[k] = s[i + k - 1]
  BY <1>1, <1>2
<1>5. y \in Seq(D) /\ Len(y) = l /\ \A k \in 1..l : y[k] = t[i + 1 + k - 1]
  BY <1>1, <1>3
<1>6. \A k \in 1..l : x[k] = y[k]
  <2>. TAKE k \in 1..l
  <2>1. PICK p \in 1..n : p = i + k - 1 /\ p + 1 = i + 1 + k - 1
    BY <1>1
  <2>2. t[p + 1] = s[p]
    BY <2>1
  <2>. QED
    BY <1>4, <1>5, <2>1, <2>2
<1>. QED
  BY <1>2, <1>3, <1>4, <1>5, <1>6, SameSeq

LEMMA GramsAreSome ==
  ASSUME NEW D, NEW s \in Seq(D), NEW n \in Nat, Len(s) = n, n >= Gram
  PROVE  IsFiniteSet(Grams(s)) /\ Cardinality(Grams(s)) \in Nat /\ Cardinality(Grams(s)) > 0
<1>1. PICK m \in Nat : m = n - Gram + 1 /\ m > 0
  BY GramIsPositive
<1>2. PICK f : f = [i \in 1..m |-> SubSeq(s, i, i + Gram - 1)]
  OBVIOUS
<1>3. PICK G : G = Grams(s)
  OBVIOUS
<1>4. G = {f[i] : i \in 1..m}
  BY <1>1, <1>2, <1>3 DEF Grams
<1>5. f \in Surjection(1..m, G)
  BY <1>2, <1>4 DEF Surjection
<1>7. IsFiniteSet(G)
  <2>1. ExistsSurjection(1..m, G)
    BY <1>5 DEF ExistsSurjection
  <2>. QED
    <3>1. \E k \in Nat : ExistsSurjection(1..k, G)
      BY <1>1, <2>1
    <3>. QED
      BY <3>1, FS_NatSurjection
<1>8. G # {}
  <2>1. 1 \in 1..m
    BY <1>1
  <2>2. f[1] \in G
    BY <1>4, <2>1
  <2>. QED
    BY <2>2
<1>9. Cardinality(G) \in Nat /\ Cardinality(G) # 0
  BY <1>7, <1>8, FS_CardinalityType, FS_EmptySet
<1>. QED
  BY <1>3, <1>7, <1>9

(* There is one more at each end of t than of s. *)
Framed(s, t) == Len(t) = Len(s) + 2 /\ \A k \in 1..Len(s) : t[k + 1] = s[k]

LEMMA GramsStay ==
  ASSUME NEW D, NEW s \in Seq(D), NEW t \in Seq(D), Framed(s, t)
  PROVE  Grams(s) \subseteq Grams(t)
<1>0. PICK n \in Nat : n = Len(s)
  OBVIOUS
<1>. /\ Len(t) = n + 2
     /\ \A k \in 1..n : t[k + 1] = s[k]
  BY <1>0 DEF Framed
<1>. SUFFICES ASSUME NEW i \in 1..(n - Gram + 1)
              PROVE  SubSeq(s, i, i + Gram - 1) \in Grams(t)
  BY <1>0 DEF Grams
<1>1. PICK j \in 1..n : j = i + Gram - 1 /\ i <= j
  BY GramIsPositive
<1>2. i \in 1..n
  BY GramIsPositive
<1>3. PICK p : p = i + 1
  OBVIOUS
<1>4. p \in 1..(Len(t) - Gram + 1) /\ p + Gram - 1 = j + 1
  BY <1>1, <1>3, GramIsPositive
<1>5. SubSeq(s, i, j) = SubSeq(t, i + 1, j + 1)
  BY <1>0, <1>1, <1>2, ShiftedPart
<1>6. SubSeq(t, p, p + Gram - 1) \in Grams(t)
  BY <1>4 DEF Grams
<1>. QED
  BY <1>1, <1>3, <1>4, <1>5, <1>6

LEMMA OneOrMore ==
  ASSUME NEW c \in Nat, c > 0
  PROVE  Max({1, c}) = c
<1>1. PICK S : S = {1, c}
  OBVIOUS
<1>2. S \subseteq 0..c /\ S # {}
  BY <1>1
<1>3. Max(S) \in S /\ \A y \in S : y <= Max(S)
  BY <1>2, LeastAndGreatest
<1>. QED
  BY <1>1, <1>3

LEMMA FramedIs ==
  ASSUME NEW D, NEW s \in Seq(D), NEW w \in D, NEW t, t = <<w>> \o s \o <<w>>
  PROVE  t \in Seq(D) /\ Framed(s, t)
<1>1. PICK n \in Nat : n = Len(s)
  OBVIOUS
<1>2. t \in Seq(D) /\ Len(t) = n + 2 /\ \A k \in 1..n : t[k + 1] = s[k]
  BY <1>1
<1>. QED
  BY <1>1, <1>2 DEF Framed

LEMMA CopyOverlaps ==
  ASSUME NEW D, NEW s \in Seq(D), NEW n \in Nat, Len(s) = n, n >= Gram,
         NEW t \in Seq(D), Framed(s, t)
  PROVE  \E c \in Nat : c > 0 /\ Overlap(s, t).num = c /\ Overlap(s, t).den = c
<1>2. PICK G : G = Grams(s)
  OBVIOUS
<1>3. G \cap Grams(t) = G
  <2>1. Grams(s) \subseteq Grams(t)
    BY GramsStay
  <2>. QED
    BY <1>2, <2>1
<1>4. PICK c \in Nat : c = Cardinality(G) /\ c > 0
  BY <1>2, GramsAreSome
<1>5. Max({1, c}) = c
  BY <1>4, OneOrMore
<1>6. Overlap(s, t) = [num |-> c, den |-> c]
  BY <1>2, <1>3, <1>4, <1>5 DEF Overlap
<1>. QED
  BY <1>4, <1>6

LEMMA CopyLeaks ==
  ASSUME NEW u \in Seq(Chars), NEW n, n = Len(Words(u)), n >= Gram,
         NEW v, Between(v, "a", u)
  PROVE  /\ Leaks(u, v, "ratio", [num |-> 9, den |-> 10])
         /\ Leaks(u, v, "absolute", [num |-> n - 1, den |-> 1])
<1>1. PICK a : a = "a"
  OBVIOUS
<1>2. a # Blank
  BY <1>1, Zenon DEF Blank
<1>3. PICK C : C = (Chars \cup {a}) \ {Blank}
  OBVIOUS
<1>4. Blank \notin C /\ a \in C /\ u \in Seq(C \cup {Blank})
  <2>1. Chars \subseteq C \cup {Blank}
    BY <1>3
  <2>2. Blank \notin C /\ a \in C
    BY <1>2, <1>3
  <2>3. PICK E : E = C \cup {Blank}
    OBVIOUS
  <2>4. PICK F : F = Chars
    OBVIOUS
  <2>5. F \subseteq E /\ u \in Seq(F)
    BY <2>1, <2>3, <2>4
  <2>6. u \in Seq(E)
    BY <2>5
  <2>. QED
    BY <2>2, <2>3, <2>6
<1>5. PICK D : D = Seq(C)
  OBVIOUS
<1>6. PICK s : s = Words(u)
  OBVIOUS
<1>7. s \in Seq(D)
  BY <1>4, <1>5, <1>6, WordsMade
<1>8. n \in Nat /\ n = Len(s)
  BY <1>6, <1>7
<1>9. PICK w : w = <<a>>
  OBVIOUS
<1>10. w \in D
  BY <1>4, <1>5, <1>9
<1>11. PICK t : t = <<w>> \o s \o <<w>>
  OBVIOUS
<1>12. Words(v) = t
  <2>3. Between(v, a, u)
    BY <1>1
  <2>2. Words(v) = <<w>> \o Words(u) \o <<w>>
    BY <1>4, <1>9, <2>3, WordsAround
  <2>. QED
    BY <1>6, <1>11, <2>2
<1>13. PICK c \in Nat : c > 0 /\ Overlap(s, t).num = c /\ Overlap(s, t).den = c
  <2>1. t \in Seq(D) /\ Framed(s, t)
    BY <1>7, <1>10, <1>11, FramedIs
  <2>. QED
    BY <1>7, <1>8, <2>1, CopyOverlaps
<1>14. s # <<>>
  BY <1>8, GramIsPositive
<1>15. Leaks(u, v, "ratio", [num |-> 9, den |-> 10])
  <2>1. PICK h : h = [num |-> 9, den |-> 10]
    OBVIOUS
  <2>2. h.num = 9 /\ h.den = 10 /\ c * 10 * 1 > 9 * c
    BY <1>13, <2>1
  <2>3. "ratio" # "absolute"
    OBVIOUS
  <2>4. Leaks(u, v, "ratio", h) = (s # <<>> /\ Overlap(s, t).num * h.den * 1 > h.num * Overlap(s, t).den)
    BY <1>6, <1>12, <2>3 DEF Leaks
  <2>. QED
    BY <1>13, <1>14, <2>1, <2>2, <2>4
<1>16. Leaks(u, v, "absolute", [num |-> n - 1, den |-> 1])
  <2>1. PICK h : h = [num |-> n - 1, den |-> 1]
    OBVIOUS
  <2>2. h.num = n - 1 /\ h.den = 1
    BY <2>1
  <2>3. c * 1 * n > (n - 1) * c
    <3>1. (n - 1) * c = n * c - c /\ c * 1 * n = n * c /\ n * c \in Int
      BY <1>8
    <3>. QED
      BY <1>13, <3>1
  <2>4. Leaks(u, v, "absolute", h) = (s # <<>> /\ Overlap(s, t).num * h.den * n > h.num * Overlap(s, t).den)
    BY <1>6, <1>8, <1>12 DEF Leaks
  <2>. QED
    BY <1>13, <1>14, <2>1, <2>2, <2>3, <2>4
<1>. QED
  BY <1>15, <1>16

LEMMA NothingShared ==
  ASSUME NEW C, NEW B, NEW s \in Seq(Seq(C)), NEW t \in Seq(Seq(B)), C \cap B = {},
         \A k \in DOMAIN t : t[k] # <<>>
  PROVE  Overlap(s, t).num = 0
<1>1. ASSUME NEW g \in Grams(s), g \in Grams(t) PROVE FALSE
  <2>1. PICK D, E : D = Seq(C) /\ E = Seq(B)
    OBVIOUS
  <2>2. s \in Seq(D) /\ t \in Seq(E)
    BY <2>1
  <2>3. PICK n \in Nat, m \in Nat : n = Len(s) /\ m = Len(t)
    BY <2>2
  <2>4. PICK i \in 1..(n - Gram + 1) : g = SubSeq(s, i, i + Gram - 1)
    BY <1>1, <2>3 DEF Grams
  <2>5. PICK j \in 1..(m - Gram + 1) : g = SubSeq(t, j, j + Gram - 1)
    BY <1>1, <2>3 DEF Grams
  <2>6. PICK p \in Nat : p = i + Gram - 1 /\ i <= p /\ p <= n /\ i \in 1..n
    BY <2>4, GramIsPositive
  <2>7. PICK q \in Nat : q = j + Gram - 1 /\ j <= q /\ q <= m /\ j \in 1..m
    BY <2>5, GramIsPositive
  <2>8. g[1] = s[i]
    BY <2>2, <2>3, <2>4, <2>6
  <2>9. g[1] = t[j]
    BY <2>2, <2>3, <2>5, <2>7
  <2>10. s[i] \in Seq(C) /\ t[j] \in Seq(B) /\ t[j] # <<>>
    <3>1. DOMAIN t = 1..m
      BY <2>2, <2>3
    <3>2. s[i] \in D
      BY <2>2, <2>3, <2>6
    <3>3. t[j] \in E
      BY <2>2, <2>3, <2>7
    <3>4. t[j] # <<>>
      BY <2>7, <3>1
    <3>. QED
      BY <2>1, <3>2, <3>3, <3>4
  <2>11. PICK x : x = g[1]
    OBVIOUS
  <2>12. x \in Seq(C) /\ x \in Seq(B) /\ x # <<>>
    BY <2>8, <2>9, <2>10, <2>11
  <2>13. x[1] \in C /\ x[1] \in B
    BY <2>12
  <2>. QED
    BY <2>13
<1>2. Grams(s) \cap Grams(t) = {}
  BY <1>1
<1>3. Cardinality(Grams(s) \cap Grams(t)) = 0
  BY <1>2, FS_EmptySet
<1>. QED
  BY <1>3 DEF Overlap

LEMMA OthersDoNotLeak ==
  ASSUME NEW u \in Seq(Chars), "x" \notin Range(u), NEW v, v = <<"x", Blank, "x">>
  PROVE  ~Leaks(u, v, "ratio", [num |-> 0, den |-> 1])
<1>1. PICK x : x = "x"
  OBVIOUS
<1>2. x # Blank
  BY <1>1, Zenon DEF Blank
<1>3. PICK C : C = Range(u) \ {Blank}
  OBVIOUS
<1>4. Blank \notin C /\ x \notin C
  BY <1>1, <1>3
<1>5. u \in Seq(C \cup {Blank})
  <2>1. Range(u) \subseteq C \cup {Blank}
    BY <1>3
  <2>2. PICK E : E = C \cup {Blank}
    OBVIOUS
  <2>3. PICK n \in Nat : n = Len(u) /\ DOMAIN u = 1..n
    OBVIOUS
  <2>4. \A k \in 1..n : u[k] \in E
    BY <2>1, <2>2, <2>3 DEF Range
  <2>5. u = [k \in 1..n |-> u[k]]
    BY <2>3
  <2>6. u \in Seq(E)
    BY <2>4, <2>5
  <2>. QED
    BY <2>2, <2>6
<1>6. PICK B : B = {x}
  OBVIOUS
<1>7. Blank \notin B /\ C \cap B = {} /\ v \in Seq(B \cup {Blank})
  BY <1>1, <1>2, <1>4, <1>6
<1>8. PICK s, t : s = Words(u) /\ t = Words(v)
  OBVIOUS
<1>9. s \in Seq(Seq(C))
  BY <1>4, <1>5, <1>8, WordsMade
<1>10. t \in Seq(Seq(B)) /\ \A k \in DOMAIN t : t[k] # <<>>
  BY <1>7, <1>8, WordsMade
<1>11. Overlap(s, t).num = 0
  BY <1>7, <1>9, <1>10, NothingShared
<1>12. PICK o : o = Overlap(s, t).den
  OBVIOUS
<1>13. o \in Int
  <2>1. Max({1, Cardinality(Grams(s))}) = o
    BY <1>12 DEF Overlap
  <2>2. PICK n \in Nat : n = Len(s)
    <3>1. PICK D : D = Seq(C)
      OBVIOUS
    <3>2. s \in Seq(D)
      BY <1>9, <3>1
    <3>. QED
      BY <3>2
  <2>3. PICK G : G = Grams(s)
    OBVIOUS
  <2>4. Cardinality(G) \in Nat
    <3>1. CASE n >= Gram
      <4>1. PICK D : D = Seq(C)
        OBVIOUS
      <4>2. s \in Seq(D)
        BY <1>9, <4>1
      <4>. QED
        BY <2>2, <2>3, <3>1, <4>2, GramsAreSome
    <3>2. CASE n < Gram
      <4>1. 1..(n - Gram + 1) = {}
        BY <3>2, GramIsPositive
      <4>2. G = {}
        BY <2>2, <2>3, <4>1 DEF Grams
      <4>. QED
        BY <4>2, FS_EmptySet
    <3>. QED
      BY <3>1, <3>2, GramIsPositive
  <2>5. PICK c \in Nat : c = Cardinality(G)
    BY <2>4
  <2>6. PICK S : S = {1, c}
    OBVIOUS
  <2>7. PICK b \in Nat : b = c + 1
    OBVIOUS
  <2>8. S \subseteq 0..b /\ S # {}
    BY <2>6, <2>7
  <2>9. Max(S) \in S
    BY <2>8, LeastAndGreatest
  <2>. QED
    BY <2>1, <2>3, <2>5, <2>6, <2>9
<1>14. PICK h : h = [num |-> 0, den |-> 1]
  OBVIOUS
<1>15. h.num = 0 /\ h.den = 1 /\ ~(0 * 1 * 1 > 0 * o)
  BY <1>13, <1>14
<1>16. "ratio" # "absolute"
  OBVIOUS
<1>17. Leaks(u, v, "ratio", h) = (s # <<>> /\ Overlap(s, t).num * h.den * 1 > h.num * Overlap(s, t).den)
  BY <1>8, <1>16 DEF Leaks
<1>. QED
  BY <1>11, <1>12, <1>14, <1>15, <1>17

LEMMA QuotedIsDraft ==
  ASSUME Conversation, stage = "written"
  PROVE  Last(<< <<>> >> \o [i \in DOMAIN messages |-> messages[i].content]) = Draft
<1>1. PICK l \in Nat : l = Len(messages) /\ DOMAIN messages = 1..l /\ messages \in Seq(Told)
  BY DEF Conversation
<1>2. PICK e : e = <<>>
  OBVIOUS
<1>3. PICK D : D = Seq(Chars)
  OBVIOUS
<1>4. e \in D
  BY <1>2, <1>3
<1>5. PICK c : c = [i \in DOMAIN messages |-> messages[i].content]
  OBVIOUS
<1>6. \A i \in 1..l : messages[i].content \in D
  <2>. TAKE i \in 1..l
  <2>1. messages[i] \in Told
    BY <1>1
  <2>. QED
    BY <1>3, <2>1 DEF Told
<1>7. c \in Seq(D) /\ Len(c) = l /\ \A i \in 1..l : c[i] = messages[i].content
  BY <1>1, <1>5, <1>6
<1>8. PICK r : r = <<e>> \o c
  OBVIOUS
<1>9. r \in Seq(D) /\ Len(r) = l + 1 /\ r[1] = e /\ \A k \in 1..l : r[k + 1] = c[k]
  BY <1>4, <1>7, <1>8, Prepended
<1>10. Last(r) = r[l + 1]
  BY <1>9 DEF Last
<1>11. CASE l = 0
  <2>1. messages = <<>>
    BY <1>1, <1>11
  <2>2. Draft = e
    BY <1>2, <2>1 DEF Draft
  <2>3. r[l + 1] = e
    BY <1>9, <1>11
  <2>. QED
    BY <1>2, <1>5, <1>8, <1>10, <2>2, <2>3
<1>12. CASE l # 0
  <2>1. l \in 1..l /\ messages # <<>>
    BY <1>1, <1>12
  <2>2. Draft = messages[l].content
    BY <1>1, <2>1 DEF Draft, Last
  <2>3. r[l + 1] = messages[l].content
    BY <1>7, <1>9, <2>1
  <2>. QED
    BY <1>2, <1>5, <1>8, <1>10, <2>2, <2>3
<1>. QED
  BY <1>11, <1>12

(* A copy is a leak, whatever the length of the gram, the texts and the    *)
(* number of messages, and an answer without a word in common is none      *)
(* (validate_output, compute_ngram_overlap).                               *)
THEOREM CopiesAreAlwaysLeaks == Spec => []CopiesAreLeaks
<1>1. Conversation => CopiesAreLeaks
  <2>. SUFFICES ASSUME Conversation, stage = "written" PROVE CopiesAreLeaks
    BY DEF CopiesAreLeaks
  <2>1. PICK u \in Seq(Chars) : u = Draft
    BY DraftIsText
  <2>2. Last(<< <<>> >> \o [i \in DOMAIN messages |-> messages[i].content]) = u
    BY <2>1, QuotedIsDraft
  <2>3. PICK v : v = <<"a", Blank>> \o u \o <<Blank, "a">>
    OBVIOUS
  <2>4. PICK y : y = <<"x", Blank, "x">>
    OBVIOUS
  <2>5. "x" \notin Range(u) => ~Leaks(u, y, "ratio", [num |-> 0, den |-> 1])
    BY <2>4, OthersDoNotLeak
  <2>6. PICK n : n = Len(Words(u))
    OBVIOUS
  <2>7. n >= Gram => /\ Leaks(u, v, "ratio", [num |-> 9, den |-> 10])
                     /\ Leaks(u, v, "absolute", [num |-> n - 1, den |-> 1])
    <3>1. Between(v, "a", u)
      BY <2>3 DEF Between
    <3>. QED
      BY <2>6, <3>1, CopyLeaks
  <2>. QED
    BY <2>1, <2>2, <2>3, <2>4, <2>5, <2>6, <2>7 DEF CopiesAreLeaks
<1>. QED
  BY <1>1, ConversationInit, ConversationStep, PTL DEF Spec

-----------------------------------------------------------------------------
(* The order of roles *)

(* What check_role_boundary has seen and made of the messages in T. *)
Bounds(g, s) ==
    g = [T \in SUBSET DOMAIN s |->
            IF T = {} THEN [seen |-> FALSE, ok |-> TRUE]
            ELSE [seen |-> g[T \ {Max(T)}].seen \/ s[Max(T)].role # "system",
                  ok   |-> g[T \ {Max(T)}].ok /\ ~(s[Max(T)].role = "system" /\ g[T \ {Max(T)}].seen)]]

Seen(s, T) == \E i \in T : s[i].role # "system"

InOrderIn(s, T) == ~\E i, j \in T : i < j /\ s[i].role # "system" /\ s[j].role = "system"

(* What g says of the messages in T is so. *)
Judged(g, s, T) == g[T].seen = Seen(s, T) /\ g[T].ok = InOrderIn(s, T)

LEMMA BoundaryIs ==
  ASSUME NEW s
  PROVE  RoleBoundary(s) = (CHOOSE g : Bounds(g, s))[DOMAIN s].ok
BY DEF RoleBoundary, FoldLeft, MapThenFoldSet, Bounds

(* The last of some messages is behind the others. *)
LEMMA LastBounds ==
  ASSUME NEW s, NEW n \in Nat, NEW T, T \subseteq 1..n, NEW m \in T, \A x \in T : x <= m
  PROVE  /\ Seen(s, T) <=> Seen(s, T \ {m}) \/ s[m].role # "system"
         /\ InOrderIn(s, T) <=>
                InOrderIn(s, T \ {m}) /\ ~(s[m].role = "system" /\ Seen(s, T \ {m}))
<1>1. \A x \in T : x \in Int /\ (x \in T \ {m} <=> x < m) /\ ~(m < x)
  BY SMT
<1>2. Seen(s, T) <=> Seen(s, T \ {m}) \/ s[m].role # "system"
  BY DEF Seen
<1>3. ASSUME InOrderIn(s, T)
      PROVE  InOrderIn(s, T \ {m}) /\ ~(s[m].role = "system" /\ Seen(s, T \ {m}))
  BY <1>1, <1>3 DEF InOrderIn, Seen
<1>4. ASSUME InOrderIn(s, T \ {m}), ~(s[m].role = "system" /\ Seen(s, T \ {m}))
      PROVE  InOrderIn(s, T)
  <2>. SUFFICES ASSUME NEW i \in T, NEW j \in T, i < j, s[i].role # "system", s[j].role = "system"
                PROVE  FALSE
    BY DEF InOrderIn
  <2>1. i \in T \ {m}
    BY <1>1
  <2>2. CASE j = m
    BY <1>4, <2>1, <2>2 DEF Seen
  <2>3. CASE j # m
    BY <1>4, <2>1, <2>3 DEF InOrderIn
  <2>. QED
    BY <2>2, <2>3
<1>. QED
  BY <1>2, <1>3, <1>4

LEMMA BoundsExist ==
  ASSUME NEW s, NEW n \in Nat, DOMAIN s = 1..n
  PROVE  \E g : Bounds(g, s)
<1>1. PICK h : h = [T \in SUBSET DOMAIN s |-> [seen |-> Seen(s, T), ok |-> InOrderIn(s, T)]]
  OBVIOUS
<1>2. ASSUME NEW T \in SUBSET DOMAIN s
      PROVE  h[T] = IF T = {} THEN [seen |-> FALSE, ok |-> TRUE]
             ELSE [seen |-> h[T \ {Max(T)}].seen \/ s[Max(T)].role # "system",
                   ok   |-> h[T \ {Max(T)}].ok /\ ~(s[Max(T)].role = "system" /\ h[T \ {Max(T)}].seen)]
  <2>1. h[T] = [seen |-> Seen(s, T), ok |-> InOrderIn(s, T)]
    BY <1>1
  <2>2. CASE T = {}
    <3>1. Seen(s, T) = FALSE /\ InOrderIn(s, T) = TRUE
      BY <2>2 DEF Seen, InOrderIn
    <3>. QED
      BY <2>1, <2>2, <3>1
  <2>3. CASE T # {}
    <3>1. T \subseteq 0..n /\ T \subseteq 1..n
      OBVIOUS
    <3>2. PICK m \in T : m = Max(T) /\ \A x \in T : x <= m
      BY <2>3, <3>1, LeastAndGreatest
    <3>3. h[T \ {m}] = [seen |-> Seen(s, T \ {m}), ok |-> InOrderIn(s, T \ {m})]
      BY <1>1
    <3>4. /\ Seen(s, T) <=> Seen(s, T \ {m}) \/ s[m].role # "system"
          /\ InOrderIn(s, T) <=>
                InOrderIn(s, T \ {m}) /\ ~(s[m].role = "system" /\ Seen(s, T \ {m}))
      BY <3>1, <3>2, LastBounds
    <3>5. /\ Seen(s, T) \in BOOLEAN /\ InOrderIn(s, T) \in BOOLEAN
          /\ Seen(s, T \ {m}) \in BOOLEAN /\ InOrderIn(s, T \ {m}) \in BOOLEAN
      BY DEF Seen, InOrderIn
    <3>6. /\ Seen(s, T) = (Seen(s, T \ {m}) \/ s[m].role # "system")
          /\ InOrderIn(s, T) =
                (InOrderIn(s, T \ {m}) /\ ~(s[m].role = "system" /\ Seen(s, T \ {m})))
      BY <3>4, <3>5
    <3>7. h[T \ {m}].seen = Seen(s, T \ {m}) /\ h[T \ {m}].ok = InOrderIn(s, T \ {m})
      BY <3>3
    <3>. QED
      BY <2>1, <2>3, <3>2, <3>6, <3>7
  <2>. QED
    BY <2>2, <2>3
<1>. QED
  BY <1>1, <1>2 DEF Bounds

(* In a conversation of any length the guard accepts the roles exactly     *)
(* when the system's messages come first (check_role_boundary).            *)
THEOREM RolesAreBounded ==
  ASSUME NEW M, NEW s \in Seq(M)
  PROVE  SystemComesFirst(s)
<1>1. PICK n \in Nat : n = Len(s) /\ DOMAIN s = 1..n
  OBVIOUS
<1>. DEFINE g == CHOOSE h : Bounds(h, s)
            S == {k \in Nat : k <= n => Judged(g, s, 1..k)}
<1>2. RoleBoundary(s) = g[DOMAIN s].ok
  BY BoundaryIs
<1>3. Bounds(g, s)
  BY <1>1, BoundsExist
<1>. HIDE DEF g
<1>4. 0 \in S
  <2>1. 1..0 = {} /\ {} \in SUBSET DOMAIN s
    OBVIOUS
  <2>2. g[{}].seen = FALSE /\ g[{}].ok = TRUE
    <3>1. g[{}] = [seen |-> FALSE, ok |-> TRUE]
      BY <1>3, <2>1 DEF Bounds
    <3>. QED
      BY <3>1
  <2>3. Seen(s, {}) = FALSE /\ InOrderIn(s, {}) = TRUE
    BY DEF Seen, InOrderIn
  <2>4. Judged(g, s, {})
    BY <2>2, <2>3, Zenon DEF Judged
  <2>5. Judged(g, s, 1..0)
    BY <2>1, <2>4
  <2>. QED
    BY <2>5
<1>5. ASSUME NEW k \in Nat, k \in S PROVE k + 1 \in S
  <2>. SUFFICES ASSUME k + 1 <= n PROVE Judged(g, s, 1..k + 1)
    OBVIOUS
  <2>1. PICK T : T = 1..k + 1
    OBVIOUS
  <2>2. PICK m \in Nat : m = k + 1
    OBVIOUS
  <2>3. T \subseteq 1..n /\ m \in T /\ (\A x \in T : x <= m) /\ T \ {m} = 1..k /\ T \in SUBSET DOMAIN s
    BY <1>1, <2>1, <2>2
  <2>4. Max(T) = m
    <3>1. T \subseteq 0..n /\ T # {}
      BY <2>3
    <3>2. Max(T) \in T /\ \A x \in T : x <= Max(T)
      BY <3>1, LeastAndGreatest
    <3>. QED
      BY <2>1, <2>3, <3>2
  <2>5. g[T] = [seen |-> g[T \ {m}].seen \/ s[m].role # "system",
                ok   |-> g[T \ {m}].ok /\ ~(s[m].role = "system" /\ g[T \ {m}].seen)]
    BY <1>3, <2>3, <2>4 DEF Bounds
  <2>6. Judged(g, s, T \ {m})
    <3>1. k <= n
      BY <1>1
    <3>2. Judged(g, s, 1..k)
      BY <1>5, <3>1
    <3>. QED
      BY <2>3, <3>2
  <2>7. g[T \ {m}].seen = Seen(s, T \ {m}) /\ g[T \ {m}].ok = InOrderIn(s, T \ {m})
    BY <2>6 DEF Judged
  <2>8. /\ Seen(s, T) <=> Seen(s, T \ {m}) \/ s[m].role # "system"
        /\ InOrderIn(s, T) <=>
              InOrderIn(s, T \ {m}) /\ ~(s[m].role = "system" /\ Seen(s, T \ {m}))
    BY <2>3, LastBounds
  <2>9. /\ Seen(s, T) \in BOOLEAN /\ InOrderIn(s, T) \in BOOLEAN
        /\ Seen(s, T \ {m}) \in BOOLEAN /\ InOrderIn(s, T \ {m}) \in BOOLEAN
    BY DEF Seen, InOrderIn
  <2>10. g[T].seen = Seen(s, T) /\ g[T].ok = InOrderIn(s, T)
    BY <2>5, <2>7, <2>8, <2>9
  <2>. QED
    BY <2>1, <2>10 DEF Judged
<1>. HIDE DEF S
<1>6. Nat \subseteq S
  BY <1>4, <1>5, Induction
<1>7. Judged(g, s, 1..n)
  BY <1>6 DEF S
<1>. QED
  BY <1>1, <1>2, <1>7 DEF SystemComesFirst, InOrderIn, Judged

-----------------------------------------------------------------------------
(* What the gate keeps of the models *)

(* The models named among the first so many. *)
NamesTo(g, s, A, m) ==
    g = [n \in 0..m |->
            IF n = 0 THEN <<>> ELSE IF Has(s[n], A) THEN Append(g[n - 1], s[n]) ELSE g[n - 1]]

(* Naming twice is naming by the narrower tags alone. *)
Kept(t, A, B, M) == Named(t, A) \in Seq(M) /\ Named(Named(t, A), B) = Named(t, B)

LEMMA NamesExist ==
  ASSUME NEW n \in Nat, NEW s, NEW A
  PROVE  \E g : NamesTo(g, s, A, n)
<1>. DEFINE S == {k \in Nat : \E g : NamesTo(g, s, A, k)}
<1>1. 0 \in S
  <2>1. NamesTo([k \in 0..0 |-> <<>>], s, A, 0)
    BY DEF NamesTo
  <2>. QED
    BY <2>1
<1>2. ASSUME NEW k \in Nat, k \in S PROVE k + 1 \in S
  <2>1. PICK g : NamesTo(g, s, A, k)
    BY <1>2
  <2>2. PICK c \in Nat : c = k + 1 /\ c # 0 /\ c - 1 = k
    OBVIOUS
  <2>3. PICK x : x = IF Has(s[c], A) THEN Append(g[k], s[c]) ELSE g[k]
    OBVIOUS
  <2>4. PICK h : h = [i \in 0..c |-> IF i = c THEN x ELSE g[i]]
    OBVIOUS
  <2>5. h[c] = x /\ \A i \in 0..k : h[i] = g[i]
    BY <2>2, <2>4
  <2>6. ASSUME NEW i \in 0..c
        PROVE  h[i] = IF i = 0 THEN <<>> ELSE IF Has(s[i], A) THEN Append(h[i - 1], s[i]) ELSE h[i - 1]
    <3>1. CASE i = c
      <4>1. h[i - 1] = g[k]
        BY <2>2, <2>5, <3>1
      <4>. QED
        BY <2>2, <2>3, <2>5, <3>1, <4>1
    <3>2. CASE i # c
      <4>1. i \in 0..k /\ (i = 0 \/ i - 1 \in 0..k)
        BY <2>2, <3>2
      <4>2. g[i] = IF i = 0 THEN <<>> ELSE IF Has(s[i], A) THEN Append(g[i - 1], s[i]) ELSE g[i - 1]
        BY <2>1, <4>1 DEF NamesTo
      <4>. QED
        BY <2>5, <4>1, <4>2
    <3>. QED
      BY <3>1, <3>2
  <2>7. NamesTo(h, s, A, c)
    BY <2>4, <2>6 DEF NamesTo
  <2>. QED
    BY <2>2, <2>7
<1>. HIDE DEF S
<1>3. Nat \subseteq S
  BY <1>1, <1>2, Induction
<1>4. n \in S
  BY <1>3
<1>. QED
  BY <1>4 DEF S

LEMMA NamedIs ==
  ASSUME NEW n \in Nat, NEW s, Len(s) = n, NEW A
  PROVE  \E g : NamesTo(g, s, A, n) /\ Named(s, A) = g[n]
<1>. DEFINE g == CHOOSE h : NamesTo(h, s, A, Len(s))
<1>1. Named(s, A) = g[Len(s)]
  BY DEF Named, NamesTo
<1>2. NamesTo(g, s, A, Len(s))
  BY NamesExist
<1>. HIDE DEF g
<1>. QED
  BY <1>1, <1>2

(* Two lists that begin alike are named alike so far. *)
LEMMA NamesAgree ==
  ASSUME NEW n \in Nat, NEW m \in Nat, n <= m, NEW s, NEW t, NEW A, \A k \in 1..n : s[k] = t[k],
         NEW g, NamesTo(g, s, A, n), NEW h, NamesTo(h, t, A, m)
  PROVE  g[n] = h[n]
<1>. DEFINE S == {k \in Nat : k <= n => g[k] = h[k]}
<1>1. \A k \in 0..n : g[k] = IF k = 0 THEN <<>> ELSE IF Has(s[k], A) THEN Append(g[k - 1], s[k]) ELSE g[k - 1]
  BY DEF NamesTo
<1>2. \A k \in 0..m : h[k] = IF k = 0 THEN <<>> ELSE IF Has(t[k], A) THEN Append(h[k - 1], t[k]) ELSE h[k - 1]
  BY DEF NamesTo
<1>3. 0 \in S
  BY <1>1, <1>2
<1>4. ASSUME NEW k \in Nat, k \in S PROVE k + 1 \in S
  <2>1. PICK c \in Nat : c = k + 1 /\ c # 0 /\ c - 1 = k
    OBVIOUS
  <2>. SUFFICES ASSUME c <= n PROVE g[c] = h[c]
    BY <2>1
  <2>2. c \in 0..n /\ c \in 0..m /\ c \in 1..n /\ k <= n
    BY <2>1
  <2>3. g[k] = h[k] /\ s[c] = t[c]
    BY <1>4, <2>2
  <2>4. g[c] = IF Has(s[c], A) THEN Append(g[k], s[c]) ELSE g[k]
    BY <1>1, <2>1, <2>2
  <2>5. h[c] = IF Has(t[c], A) THEN Append(h[k], t[c]) ELSE h[k]
    BY <1>2, <2>1, <2>2
  <2>. QED
    BY <2>3, <2>4, <2>5
<1>. HIDE DEF S
<1>5. Nat \subseteq S
  BY <1>3, <1>4, Induction
<1>6. n \in S
  BY <1>5
<1>. QED
  BY <1>6 DEF S

(* One model more is named, or not. *)
LEMMA NamedMore ==
  ASSUME NEW M, NEW s \in Seq(M), NEW x \in M, NEW A
  PROVE  Named(Append(s, x), A) = IF Has(x, A) THEN Append(Named(s, A), x) ELSE Named(s, A)
<1>1. PICK n \in Nat : n = Len(s)
  OBVIOUS
<1>2. PICK t : t = Append(s, x)
  OBVIOUS
<1>3. PICK m \in Nat : m = n + 1 /\ m # 0 /\ m - 1 = n /\ n <= m /\ m \in 0..m
  BY <1>1
<1>4. Len(t) = m /\ t[m] = x /\ \A k \in 1..n : s[k] = t[k]
  BY <1>1, <1>2, <1>3
<1>5. PICK g : NamesTo(g, s, A, n) /\ Named(s, A) = g[n]
  BY <1>1, NamedIs
<1>6. PICK h : NamesTo(h, t, A, m) /\ Named(t, A) = h[m]
  BY <1>4, NamedIs
<1>7. g[n] = h[n]
  BY <1>3, <1>4, <1>5, <1>6, NamesAgree
<1>8. h[m] = IF m = 0 THEN <<>> ELSE IF Has(t[m], A) THEN Append(h[m - 1], t[m]) ELSE h[m - 1]
  BY <1>3, <1>6 DEF NamesTo
<1>9. h[m] = IF Has(x, A) THEN Append(g[n], x) ELSE g[n]
  BY <1>3, <1>4, <1>7, <1>8
<1>. QED
  BY <1>2, <1>5, <1>6, <1>9

LEMMA NamedNone == ASSUME NEW A PROVE Named(<<>>, A) = <<>>
<1>1. PICK n \in Nat : n = 0 /\ Len(<<>>) = n
  OBVIOUS
<1>2. PICK g : NamesTo(g, <<>>, A, n) /\ Named(<<>>, A) = g[n]
  BY <1>1, NamedIs
<1>. QED
  BY <1>1, <1>2 DEF NamesTo

(* Naming some of those named before is naming them at once. *)
LEMMA NamedTwice ==
  ASSUME NEW M, NEW A, NEW B, B \subseteq A, NEW s \in Seq(M)
  PROVE  Kept(s, A, B, M)
<1>. DEFINE S == {k \in Nat : \A t \in Seq(M) : Len(t) = k => Kept(t, A, B, M)}
<1>1. 0 \in S
  <2>. SUFFICES ASSUME NEW t \in Seq(M), Len(t) = 0 PROVE Kept(t, A, B, M)
    OBVIOUS
  <2>1. t = <<>>
    OBVIOUS
  <2>2. Named(t, A) = <<>> /\ Named(t, B) = <<>> /\ <<>> \in Seq(M)
    BY <2>1, NamedNone
  <2>. QED
    BY <2>1, <2>2 DEF Kept
<1>2. ASSUME NEW k \in Nat, k \in S PROVE k + 1 \in S
  <2>. SUFFICES ASSUME NEW t \in Seq(M), Len(t) = k + 1 PROVE Kept(t, A, B, M)
    OBVIOUS
  <2>1. PICK u : u = SubSeq(t, 1, k)
    OBVIOUS
  <2>2. PICK x \in M : x = t[k + 1]
    OBVIOUS
  <2>3. u \in Seq(M) /\ Len(u) = k /\ t = Append(u, x)
    BY <2>1, <2>2
  <2>4. Kept(u, A, B, M)
    BY <1>2, <2>3
  <2>5. PICK v \in Seq(M) : v = Named(u, A) /\ Named(v, B) = Named(u, B)
    BY <2>4 DEF Kept
  <2>6. Named(t, B) = IF Has(x, B) THEN Append(Named(u, B), x) ELSE Named(u, B)
    BY <2>3, NamedMore
  <2>7. CASE Has(x, A)
    <3>1. Named(t, A) = Append(v, x) /\ Append(v, x) \in Seq(M)
      BY <2>3, <2>5, <2>7, NamedMore
    <3>2. Named(Append(v, x), B) = IF Has(x, B) THEN Append(Named(v, B), x) ELSE Named(v, B)
      BY NamedMore
    <3>. QED
      BY <2>5, <2>6, <3>1, <3>2 DEF Kept
  <2>8. CASE ~Has(x, A)
    <3>1. Named(t, A) = v
      BY <2>3, <2>5, <2>8, NamedMore
    <3>2. ~Has(x, B)
      BY <2>8 DEF Has
    <3>. QED
      BY <2>5, <2>6, <3>1, <3>2 DEF Kept
  <2>. QED
    BY <2>7, <2>8
<1>. HIDE DEF S
<1>3. Nat \subseteq S
  BY <1>1, <1>2, Induction
<1>4. PICK n \in Nat : n = Len(s)
  OBVIOUS
<1>5. n \in S
  BY <1>3
<1>. QED
  BY <1>4, <1>5 DEF S

(* Of whatever models it is given the gate offers one at every level, and  *)
(* those that are named mini or haiku at all levels (filter_models).       *)
THEOREM GateAlwaysOffers ==
  ASSUME NEW M, NEW models \in Seq(M), models # <<>>
  PROVE  GateOffersModels(models)
<1>. DEFINE lasting == {"mini", "haiku"}
<1>. SUFFICES ASSUME NEW level \in Range(Levels)
              PROVE  /\ FilterModels(models, level) # <<>>
                     /\ Named(FilterModels(models, level), lasting) = Named(models, lasting)
  BY DEF GateOffersModels
<1>1. PICK tags : tags = IF level = "simple" THEN SmallTags ELSE MiddleTags
  OBVIOUS
<1>2. PICK few : few = lasting
  OBVIOUS
<1>3. few \subseteq tags
  BY <1>1, <1>2 DEF SmallTags, MiddleTags
<1>4. Named(Named(models, tags), few) = Named(models, few)
  <2>1. Kept(models, tags, few, M)
    BY <1>3, NamedTwice
  <2>. QED
    BY <2>1 DEF Kept
<1>5. FilterModels(models, level) = IF level = "complex" \/ Named(models, tags) = <<>> THEN models ELSE Named(models, tags)
  BY <1>1 DEF FilterModels
<1>. QED
  BY <1>2, <1>4, <1>5
=============================================================================
