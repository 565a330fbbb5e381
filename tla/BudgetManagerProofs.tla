------------------------ MODULE BudgetManagerProofs ------------------------
(***************************************************************************)
(* Proofs about BudgetManager, for any number of concurrent requests, any  *)
(* costs, budget and unit, and behaviours of any length; then about the    *)
(* calendar of BillingPeriod, for every day and reset day; and about       *)
(* Ledger, for any costs, moments and horizon and however many restarts.   *)
(***************************************************************************)
EXTENDS BudgetManager, Ledger, FiniteSetTheorems, WellFoundedInduction, TLAPS

MaxMicro == Micro(MaxCost)

(* Truncation to micro-dollars: what it yields and what it loses. *)
LEMMA MicroNat == ASSUME NEW c \in Nat PROVE Micro(c) \in Nat
BY UnitPositive DEF Micro

LEMMA MicroLoss ==
  ASSUME NEW c \in Nat
  PROVE  Micro(c) * Unit <= c /\ c <= Micro(c) * Unit + (Unit - 1)
BY UnitPositive DEF Micro

LEMMA MicroMonotone ==
  ASSUME NEW c \in 0..MaxCost
  PROVE  Micro(c) <= MaxMicro
<1>. DEFINE a == Micro(c)
            b == MaxMicro
<1>1. a \in Nat /\ b \in Nat /\ Unit \in Nat \ {0} /\ c \in Nat /\ MaxCost \in Nat
  BY MicroNat, CostsBounded, UnitPositive DEF MaxMicro
<1>2. a * Unit <= c /\ c <= MaxCost
  BY <1>1, MicroLoss
<1>3. MaxCost <= b * Unit + (Unit - 1)
  BY <1>1, MicroLoss DEF MaxMicro
<1>4. a * Unit < (b + 1) * Unit
  BY <1>1, <1>2, <1>3
<1>. HIDE DEF a, b
<1>5. a < b + 1
  BY <1>1, <1>4
<1>. QED
  BY <1>1, <1>5 DEF a, b

-----------------------------------------------------------------------------
LEMMA TypeInit == Init => TypeOK
<1>1. Init => refreshed \in BOOLEAN
  BY Zenon DEF Init
<1>. QED
  BY <1>1, CostsBounded DEF Init, TypeOK, Phases, NoRead

LEMMA TypeStep == TypeOK /\ [Next]_vars => TypeOK'
<1>. SUFFICES ASSUME TypeOK, [Next]_vars PROVE TypeOK'
  OBVIOUS
<1>. USE DEF TypeOK, Phases, Move, history, counts
<1>1. ASSUME NEW r \in Requests, Step(r) PROVE TypeOK'
  <2>1. CASE Measure(r)
    BY <2>1 DEF Measure
  <2>2. CASE Admit(r) \/ Reject(r)
    BY <2>2 DEF Admit, Reject
  <2>3. CASE Uncharged(r) \/ TrackFails(r)
    BY <2>3 DEF Uncharged, TrackFails
  <2>4. CASE Respond(r)
    BY <2>4, CostsBounded DEF Respond
  <2>5. CASE Track(r)
    BY <2>5, CostsBounded DEF Track
  <2>6. CASE Charge(r)
    <3>1. owed[r] \in Nat /\ Micro(owed[r]) \in Nat
      BY MicroNat, CostsBounded
    <3>. QED
      BY <2>6, <3>1 DEF Charge
  <2>. QED
    BY <1>1, <2>1, <2>2, <2>3, <2>4, <2>5, <2>6 DEF Step
<1>2. ASSUME NEW f \in Refreshers, ReadStore(f) PROVE TypeOK'
  BY <1>2 DEF ReadStore
<1>3. ASSUME NEW f \in Refreshers, WriteCounter(f) PROVE TypeOK'
  <2>1. Micro(InPeriod(snapshot[f])) \in Nat
    BY MicroNat DEF InPeriod
  <2>2. NoRead \in [period : 0..period, sum : Nat]
    BY DEF NoRead
  <2>. QED
    BY <1>3, <2>1, <2>2 DEF WriteCounter
<1>4. CASE NewPeriod
  BY <1>4 DEF NewPeriod
<1>5. CASE UNCHANGED vars
  BY <1>5 DEF vars
<1>. QED
  BY <1>1, <1>2, <1>3, <1>4, <1>5 DEF Next

(* The state of the budget keeps its types (BudgetManager, CostTracker). *)
THEOREM TypeCorrect == Spec => []TypeOK
BY TypeInit, TypeStep, PTL DEF Spec

-----------------------------------------------------------------------------
(* What the counter may still grow by, added to the counter: every request *)
(* in flight may cost the most a response costs.                           *)
Room ==
    spend + MaxMicro * Cardinality(InFlight)
        <= Budget - 1 + MaxMicro * Cardinality(Requests)

(* The counter only grows, so a request that measured it and then passed    *)
(* the check had measured no more than the check saw.                       *)
SeenIsOld ==
    \A r \in Requests :
        /\ phase[r] = "measured" => seen[r] <= spend
        /\ phase[r] \notin {"idle", "measured"} => seen[r] < Budget

(* A step after which no refresh has written is not the write of a refresh, *)
(* and none had written before it.                                          *)
LEMMA NoRefreshStep ==
  ASSUME [Next]_vars, ~refreshed'
  PROVE  /\ ~refreshed
         /\ \/ \E r \in Requests : Step(r)
            \/ \E f \in Refreshers : ReadStore(f)
            \/ NewPeriod
            \/ UNCHANGED vars
<1>1. \A f \in Refreshers : ~WriteCounter(f)
  BY DEF WriteCounter
<1>2. ASSUME NEW r \in Requests, Step(r) PROVE refreshed' = refreshed
  BY <1>2 DEF Step, Measure, Admit, Reject, Uncharged, Respond, Track, TrackFails,
              Charge, history
<1>3. ASSUME NEW f \in Refreshers, ReadStore(f) PROVE refreshed' = refreshed
  BY <1>3 DEF ReadStore, history
<1>4. NewPeriod \/ UNCHANGED vars => refreshed' = refreshed
  BY DEF NewPeriod, vars, history
<1>. QED
  BY <1>1, <1>2, <1>3, <1>4 DEF Next

(* Counting the requests in flight. *)
LEMMA FlightFinite ==
  /\ IsFiniteSet(InFlight)
  /\ Cardinality(InFlight) \in Nat
  /\ Cardinality(Requests) \in Nat
  /\ Cardinality(InFlight) <= Cardinality(Requests)
<1>1. InFlight \subseteq Requests
  BY DEF InFlight
<1>. QED
  BY <1>1, RequestsFinite, FS_Subset, FS_CardinalityType

LEMMA FlightFiniteNext ==
  /\ Cardinality(InFlight') \in Nat
  /\ Cardinality(InFlight') <= Cardinality(Requests)
<1>1. InFlight' \subseteq Requests
  BY DEF InFlight
<1>. QED
  BY <1>1, RequestsFinite, FS_Subset, FS_CardinalityType

(* A request that leaves the flight makes it smaller by one. *)
LEMMA FlightLeaves ==
  ASSUME NEW r \in Requests, r \in InFlight, InFlight' = InFlight \ {r}
  PROVE  Cardinality(InFlight') = Cardinality(InFlight) - 1
BY FlightFinite, FS_RemoveElement

LEMMA RoomInit == Init => Room
<1>. SUFFICES ASSUME Init PROVE Room
  OBVIOUS
<1>1. InFlight = {}
  BY DEF Init, InFlight
<1>2. Cardinality(InFlight) = 0
  BY <1>1, FS_EmptySet
<1>3. MaxMicro \in Nat /\ MaxMicro * Cardinality(Requests) \in Nat
  BY FlightFinite, MicroNat, CostsBounded DEF MaxMicro
<1>. QED
  BY <1>2, <1>3, BudgetPositive DEF Init, Room

(* A step that lets no request in and does not raise the counter keeps the  *)
(* room there was.                                                          *)
LEMMA RoomKept ==
  ASSUME TypeOK, Room, spend' = spend, InFlight' \subseteq InFlight
  PROVE  Room'
<1>. DEFINE n == Cardinality(InFlight)
            m == Cardinality(InFlight')
            k == Cardinality(Requests)
<1>1. m <= n /\ m \in Nat /\ n \in Nat /\ k \in Nat
  BY FlightFinite, FlightFiniteNext, FS_Subset
<1>2. MaxMicro \in Nat /\ spend \in Nat
  BY MicroNat, CostsBounded DEF MaxMicro, TypeOK
<1>3. spend + MaxMicro * n <= Budget - 1 + MaxMicro * k
  BY DEF Room
<1>. HIDE DEF n, m, k
<1>4. MaxMicro * m <= MaxMicro * n
  BY <1>1, <1>2
<1>5. /\ MaxMicro * m \in Nat
      /\ MaxMicro * n \in Nat
      /\ MaxMicro * k \in Nat
  BY <1>1, <1>2
<1>6. spend' + MaxMicro * m <= Budget - 1 + MaxMicro * k
  BY <1>2, <1>3, <1>4, <1>5, BudgetPositive
<1>. QED
  BY <1>6 DEF Room, m, k

LEMMA RoomStep ==
  ASSUME TypeOK, HardLimit, Room, [Next]_vars, ~refreshed'
  PROVE  Room'
<1>1. ASSUME NEW r \in Requests, Admit(r) PROVE Room'
  <2>1. spend < Budget /\ spend' = spend /\ spend \in Nat
    BY <1>1, BudgetPositive DEF Admit, Blocks, Exhausted, TypeOK
  <2>. DEFINE m == Cardinality(InFlight')
              k == Cardinality(Requests)
  <2>2. m \in Nat /\ k \in Nat /\ m <= k
    BY FlightFinite, FlightFiniteNext
  <2>3. MaxMicro \in Nat
    BY MicroNat, CostsBounded DEF MaxMicro
  <2>. HIDE DEF m, k
  <2>4. MaxMicro * m <= MaxMicro * k /\ MaxMicro * m \in Nat /\ MaxMicro * k \in Nat
    BY <2>2, <2>3
  <2>5. spend' + MaxMicro * m <= Budget - 1 + MaxMicro * k
    BY <2>1, <2>4, BudgetPositive
  <2>. QED
    BY <2>5 DEF Room, m, k
<1>2. ASSUME NEW r \in Requests, Charge(r) PROVE Room'
  <2>. DEFINE n == Cardinality(InFlight)
              m == Cardinality(InFlight')
              k == Cardinality(Requests)
              c == Micro(owed[r])
  <2>1. r \in InFlight /\ InFlight' = InFlight \ {r}
    BY <1>2 DEF Charge, Move, InFlight, TypeOK
  <2>2. m = n - 1 /\ n \in Nat /\ m \in Nat /\ k \in Nat
    BY <2>1, FlightLeaves, FlightFinite, FlightFiniteNext
  <2>3. c \in Nat /\ MaxMicro \in Nat /\ c <= MaxMicro
    BY MicroNat, MicroMonotone, CostsBounded DEF MaxMicro, TypeOK
  <2>4. spend' = spend + c /\ spend \in Nat
    BY <1>2 DEF Charge, TypeOK
  <2>5. spend + MaxMicro * n <= Budget - 1 + MaxMicro * k
    BY DEF Room
  <2>. HIDE DEF n, m, k, c
  <2>6. /\ MaxMicro * m = MaxMicro * n - MaxMicro
        /\ MaxMicro * n \in Nat /\ MaxMicro * k \in Nat
    BY <2>2, <2>3
  <2>7. spend' + MaxMicro * m <= Budget - 1 + MaxMicro * k
    BY <2>3, <2>4, <2>5, <2>6, BudgetPositive
  <2>. QED
    BY <2>7 DEF Room, m, k
<1>3. ASSUME NEW r \in Requests,
             Measure(r) \/ Reject(r) \/ Uncharged(r) \/ Respond(r) \/ Track(r) \/ TrackFails(r)
      PROVE  Room'
  <2>1. spend' = spend
    BY <1>3 DEF Measure, Reject, Uncharged, Respond, Track, TrackFails
  <2>2. InFlight' \subseteq InFlight
    BY <1>3 DEF Measure, Reject, Uncharged, Respond, Track, TrackFails, Move,
                InFlight, TypeOK
  <2>. QED
    BY <2>1, <2>2, RoomKept
<1>4. CASE NewPeriod \/ UNCHANGED vars
  BY <1>4, RoomKept DEF NewPeriod, vars, InFlight
<1>5. ASSUME NEW f \in Refreshers, ReadStore(f) PROVE Room'
  BY <1>5, RoomKept DEF ReadStore, InFlight
<1>. QED
  BY <1>1, <1>2, <1>3, <1>4, <1>5, NoRefreshStep DEF Step

LEMMA RoomBounds ==
  ASSUME TypeOK, Room
  PROVE  spend < Budget + Cardinality(Requests) * Micro(MaxCost)
<1>. DEFINE n == Cardinality(InFlight)
            k == Cardinality(Requests)
<1>1. n \in Nat /\ k \in Nat /\ MaxMicro \in Nat /\ spend \in Nat
  BY FlightFinite, MicroNat, CostsBounded DEF MaxMicro, TypeOK
<1>2. spend + MaxMicro * n <= Budget - 1 + MaxMicro * k
  BY DEF Room
<1>. HIDE DEF n, k
<1>3. MaxMicro * n \in Nat /\ MaxMicro * k \in Nat /\ MaxMicro * k = k * MaxMicro
  BY <1>1
<1>4. spend < Budget + k * MaxMicro
  BY <1>1, <1>2, <1>3, BudgetPositive
<1>. QED
  BY <1>4 DEF k, MaxMicro

(* With a hard limit and until a refresh writes it, the counter passes the  *)
(* budget by less than one largest response per concurrent request, however *)
(* the checks of on_request and the charges of on_response interleave.      *)
THEOREM OvershootIsBounded == Spec => []OvershootBounded
<1>. DEFINE I == HardLimit /\ ~refreshed => Room
<1>1. Init => I
  BY RoomInit
<1>2. I /\ TypeOK /\ [Next]_vars => I'
  <2>. SUFFICES ASSUME HardLimit, I, TypeOK, [Next]_vars, ~refreshed'
                PROVE  Room'
    OBVIOUS
  <2>. QED
    BY NoRefreshStep, RoomStep
<1>3. TypeOK /\ I => OvershootBounded
  BY RoomBounds DEF OvershootBounded
<1>. HIDE DEF I
<1>. QED
  BY <1>1, <1>2, <1>3, TypeCorrect, PTL DEF Spec

-----------------------------------------------------------------------------
(* A request that was admitted had been told that budget remained: the two  *)
(* loads of on_request cannot contradict each other while the counter grows. *)
THEOREM AdmissionIsConsistent == Spec => []AdmittedSawBudget
<1>. DEFINE I == HardLimit /\ ~refreshed => SeenIsOld
<1>1. Init => I
  BY DEF Init, SeenIsOld
<1>2. I /\ TypeOK /\ [Next]_vars => I'
  <2>. SUFFICES ASSUME HardLimit, SeenIsOld, TypeOK, [Next]_vars, ~refreshed'
                PROVE  SeenIsOld'
    BY NoRefreshStep
  <2>. USE DEF SeenIsOld, TypeOK, Move, Phases
  <2>1. ASSUME NEW r \in Requests, Measure(r) PROVE SeenIsOld'
    BY <2>1 DEF Measure
  <2>2. ASSUME NEW r \in Requests, Admit(r) PROVE SeenIsOld'
    BY <2>2, BudgetPositive DEF Admit, Blocks, Exhausted
  <2>3. ASSUME NEW r \in Requests, Charge(r) PROVE SeenIsOld'
    <3>1. Micro(owed[r]) \in Nat
      BY MicroNat, CostsBounded
    <3>2. spend <= spend'
      BY <2>3, <3>1 DEF Charge
    <3>3. spend' \in Nat
      BY <2>3, <3>1 DEF Charge
    <3>. QED
      BY <2>3, <3>2, <3>3 DEF Charge
  <2>4. ASSUME NEW r \in Requests,
               Reject(r) \/ Uncharged(r) \/ Respond(r) \/ Track(r) \/ TrackFails(r)
        PROVE  SeenIsOld'
    BY <2>4 DEF Reject, Uncharged, Respond, Track, TrackFails
  <2>5. CASE NewPeriod \/ UNCHANGED vars
    BY <2>5 DEF NewPeriod, vars
  <2>6. ASSUME NEW f \in Refreshers, ReadStore(f) PROVE SeenIsOld'
    BY <2>6 DEF ReadStore
  <2>. QED
    BY <2>1, <2>2, <2>3, <2>4, <2>5, <2>6, NoRefreshStep DEF Step
<1>3. TypeOK /\ I => AdmittedSawBudget
  BY BudgetPositive DEF AdmittedSawBudget, SeenIsOld, Exhausted, TypeOK
<1>. HIDE DEF I
<1>. QED
  BY <1>1, <1>2, <1>3, TypeCorrect, PTL DEF Spec

(* The truncation of record_cost loses less than a micro-dollar a charge:   *)
(* the counter, in the units of the costs, is at most the sum charged and   *)
(* behind it by less than one unit per charge.                              *)
THEOREM TruncationIsBounded == Spec => []TruncationBounded
<1>1. Init => TruncationBounded
  BY UnitPositive DEF Init, TruncationBounded
<1>2. TruncationBounded /\ TypeOK /\ [Next]_vars => TruncationBounded'
  <2>. SUFFICES ASSUME ~refreshed, ~refreshed', TruncationBounded, TypeOK, [Next]_vars
                PROVE  TruncationBounded'
    BY NoRefreshStep DEF TruncationBounded
  <2>1. ASSUME NEW r \in Requests, Charge(r) PROVE TruncationBounded'
    <3>. DEFINE c == owed[r]
                d == Micro(c)
    <3>1. c \in Nat /\ d \in Nat /\ Unit \in Nat
      BY MicroNat, CostsBounded, UnitPositive DEF TypeOK
    <3>2. d * Unit <= c /\ c <= d * Unit + (Unit - 1)
      BY <3>1, MicroLoss
    <3>3. spend' = spend + d /\ charged' = charged + c /\ charges' = charges + 1
      BY <2>1 DEF Charge
    <3>4. spend \in Nat /\ charged \in Nat /\ charges \in Nat
      BY DEF TypeOK
    <3>5. spend * Unit <= charged /\ charged <= spend * Unit + charges * (Unit - 1)
      BY DEF TruncationBounded
    <3>. HIDE DEF c, d
    <3>6. (spend + d) * Unit = spend * Unit + d * Unit
      BY <3>1, <3>4
    <3>7. (charges + 1) * (Unit - 1) = charges * (Unit - 1) + (Unit - 1)
      BY <3>1, <3>4
    <3>8. spend * Unit \in Nat /\ d * Unit \in Nat /\ charges * (Unit - 1) \in Int
      BY <3>1, <3>4
    <3>9. /\ (spend + d) * Unit <= charged + c
          /\ charged + c <= (spend + d) * Unit + (charges + 1) * (Unit - 1)
      BY <3>1, <3>2, <3>4, <3>5, <3>6, <3>7, <3>8
    <3>. QED
      BY <3>3, <3>9 DEF TruncationBounded
  <2>2. ASSUME NEW r \in Requests, Step(r), ~Charge(r) PROVE TruncationBounded'
    BY <2>2 DEF Step, Measure, Admit, Reject, Uncharged, Respond, Track, TrackFails,
                history, TruncationBounded
  <2>3. CASE NewPeriod \/ UNCHANGED vars
    BY <2>3 DEF NewPeriod, vars, history, TruncationBounded
  <2>4. ASSUME NEW f \in Refreshers, ReadStore(f) PROVE TruncationBounded'
    BY <2>4 DEF ReadStore, history, TruncationBounded
  <2>. QED
    BY <2>1, <2>2, <2>3, <2>4, NoRefreshStep
<1>. QED
  BY <1>1, <1>2, TypeCorrect, PTL DEF Spec

-----------------------------------------------------------------------------
(* Requests that are in the counter and not in the event store yet.          *)
Unstored == {r \in Requests : phase[r] = "tracker"}

(* g gives the sum of the costs o of every set of requests.                  *)
Adds(g, o) ==
    /\ g \in [SUBSET Requests -> Nat]
    /\ \A S \in SUBSET Requests : \A r \in S : g[S] = g[S \ {r}] + o[r]

(* What the store holds and what it will get has been charged before, so     *)
(* that neither the store nor any reading of it is ahead of the charges.     *)
StoreBehind ==
    /\ \E g : Adds(g, owed) /\ stored + g[Unstored] <= charged
    /\ \A f \in Refreshers : snapshot[f].sum <= charged
    /\ spend * Unit <= charged

(* The sums once r owes c. *)
LEMMA AddsAfter ==
  ASSUME NEW g, Adds(g, owed), owed \in [Requests -> Nat],
         NEW r \in Requests, NEW c \in Nat, owed' = [owed EXCEPT ![r] = c]
  PROVE  \E h : Adds(h, owed') /\ \A S \in SUBSET Requests : r \notin S => h[S] = g[S]
<1>. DEFINE h == [S \in SUBSET Requests |-> IF r \in S THEN g[S \ {r}] + c ELSE g[S]]
<1>1. g \in [SUBSET Requests -> Nat]
  BY DEF Adds
<1>2. h \in [SUBSET Requests -> Nat]
  <2>1. \A S \in SUBSET Requests : S \ {r} \in SUBSET Requests /\ g[S] \in Nat
    BY <1>1
  <2>2. \A S \in SUBSET Requests : (IF r \in S THEN g[S \ {r}] + c ELSE g[S]) \in Nat
    BY <2>1
  <2>. QED
    BY <2>2
<1>3. ASSUME NEW S \in SUBSET Requests, NEW q \in S
      PROVE  h[S] = h[S \ {q}] + owed'[q]
  <2>1. h[S] = (IF r \in S THEN g[S \ {r}] + c ELSE g[S])
    OBVIOUS
  <2>2. h[S \ {q}] = (IF r \in S \ {q} THEN g[(S \ {q}) \ {r}] + c ELSE g[S \ {q}])
    OBVIOUS
  <2>3. owed'[q] = IF q = r THEN c ELSE owed[q]
    OBVIOUS
  <2>. HIDE DEF h
  <2>4. CASE q = r
    BY <2>1, <2>2, <2>3, <2>4
  <2>5. CASE q # r /\ r \notin S
    <3>1. g[S] = g[S \ {q}] + owed[q]
      BY DEF Adds
    <3>. QED
      BY <2>1, <2>2, <2>3, <2>5, <3>1
  <2>6. CASE q # r /\ r \in S
    <3>1. PICK T \in SUBSET Requests : T = S \ {r}
      OBVIOUS
    <3>2. q \in T /\ (S \ {q}) \ {r} = T \ {q}
      BY <2>6, <3>1
    <3>3. g[T] = g[T \ {q}] + owed[q]
      BY <3>2 DEF Adds
    <3>4. g[T \ {q}] \in Nat /\ owed[q] \in Nat
      BY <1>1
    <3>. QED
      BY <2>1, <2>2, <2>3, <2>6, <3>1, <3>2, <3>3, <3>4
  <2>. QED
    BY <2>4, <2>5, <2>6
<1>4. \A S \in SUBSET Requests : r \notin S => h[S] = g[S]
  OBVIOUS
<1>. HIDE DEF h
<1>5. Adds(h, owed')
  BY <1>2, <1>3 DEF Adds
<1>. QED
  BY <1>4, <1>5

LEMMA StoreStep ==
  ASSUME TypeOK, TypeOK', StoreBehind, ~TrackerFirst, [Next]_vars
  PROVE  StoreBehind'
<1>. USE DEF TypeOK
<1>1. PICK g : Adds(g, owed) /\ stored + g[Unstored] <= charged
  BY DEF StoreBehind
<1>2. /\ g \in [SUBSET Requests -> Nat] /\ Unstored \in SUBSET Requests /\ g[Unstored] \in Nat
      /\ stored <= charged
  BY <1>1 DEF Adds, Unstored
<1>3. spend * Unit <= charged /\ \A f \in Refreshers : snapshot[f].sum <= charged
  BY DEF StoreBehind
<1>4. ASSUME stored' + g[Unstored'] <= charged', owed' = owed, UNCHANGED <<spend, snapshot>>,
             charged <= charged'
      PROVE  StoreBehind'
  <2>1. spend' * Unit <= charged'
    <3>1. spend * Unit \in Nat
      BY UnitPositive
    <3>. QED
      BY <1>3, <1>4, <3>1
  <2>2. \A f \in Refreshers : snapshot'[f].sum <= charged'
    BY <1>3, <1>4
  <2>3. Adds(g, owed')
    BY <1>1, <1>4
  <2>. QED
    BY <1>4, <2>1, <2>2, <2>3 DEF StoreBehind
<1>5. ASSUME NEW r \in Requests, Charge(r) PROVE StoreBehind'
  <2>1. Unstored' = Unstored \cup {r} /\ r \notin Unstored
    BY <1>5 DEF Charge, Move, Unstored, Phases
  <2>2. PICK U \in SUBSET Requests : U = Unstored'
    BY <1>2, <2>1
  <2>3. g[U] = g[Unstored] + owed[r]
    <3>1. U \ {r} = Unstored /\ r \in U
      BY <2>1, <2>2
    <3>. QED
      BY <1>1, <3>1 DEF Adds
  <2>. DEFINE c == owed[r]
              d == Micro(c)
  <2>4. c \in Nat /\ d \in Nat /\ Unit \in Nat
    BY MicroNat, CostsBounded, UnitPositive
  <2>5. d * Unit <= c
    BY <2>4, MicroLoss
  <2>6. spend' = spend + d /\ charged' = charged + c
    BY <1>5 DEF Charge
  <2>7. stored' + g[U] <= charged' /\ charged <= charged'
    BY <1>1, <1>2, <1>5, <2>3, <2>4, <2>6 DEF Charge
  <2>. HIDE DEF c, d
  <2>8. (spend + d) * Unit = spend * Unit + d * Unit /\ spend * Unit \in Nat /\ d * Unit \in Nat
    BY <2>4
  <2>9. (spend + d) * Unit <= charged + c
    BY <1>3, <2>4, <2>5, <2>8
  <2>10. \A f \in Refreshers : snapshot'[f].sum <= charged'
    BY <1>3, <1>5, <2>7 DEF Charge
  <2>11. Adds(g, owed')
    BY <1>1, <1>5 DEF Charge
  <2>. QED
    BY <2>2, <2>6, <2>7, <2>9, <2>10, <2>11 DEF StoreBehind
<1>6. ASSUME NEW r \in Requests, Track(r) \/ TrackFails(r) PROVE StoreBehind'
  <2>1. Unstored' = Unstored \ {r} /\ r \in Unstored
    BY <1>6 DEF Track, TrackFails, Move, Unstored, Phases
  <2>2. PICK U \in SUBSET Requests : U = Unstored'
    BY <1>2, <2>1
  <2>3. g[Unstored] = g[U] + owed[r]
    BY <1>1, <1>2, <2>1, <2>2 DEF Adds
  <2>4. stored' + g[U] <= charged
    <3>1. owed[r] \in Nat /\ g[U] \in Nat
      BY <1>2, CostsBounded
    <3>. QED
      BY <1>1, <1>6, <2>3, <3>1 DEF Track, TrackFails
  <2>5. owed' = owed /\ UNCHANGED <<spend, snapshot, charged>>
    BY <1>6 DEF Track, TrackFails, history
  <2>. QED
    BY <1>4, <2>2, <2>4, <2>5
<1>7. ASSUME NEW r \in Requests, Respond(r) PROVE StoreBehind'
  <2>1. Unstored' = Unstored /\ r \notin Unstored
    BY <1>7 DEF Respond, Move, Unstored, Phases
  <2>2. PICK c \in Costs : owed' = [owed EXCEPT ![r] = c]
    BY <1>7 DEF Respond
  <2>3. PICK h : Adds(h, owed') /\ h[Unstored] = g[Unstored]
    <3>1. owed \in [Requests -> Nat] /\ c \in Nat /\ Adds(g, owed)
      BY <1>1, CostsBounded
    <3>2. PICK h : Adds(h, owed') /\ \A S \in SUBSET Requests : r \notin S => h[S] = g[S]
      BY <2>2, <3>1, AddsAfter
    <3>. QED
      BY <1>2, <2>1, <3>2
  <2>4. UNCHANGED <<spend, stored, snapshot, charged>>
    BY <1>7 DEF Respond, history
  <2>. QED
    BY <1>1, <1>3, <2>1, <2>3, <2>4 DEF StoreBehind
<1>8. ASSUME NEW r \in Requests, Measure(r) \/ Admit(r) \/ Reject(r) \/ Uncharged(r)
      PROVE  StoreBehind'
  <2>1. Unstored' = Unstored
    BY <1>8 DEF Measure, Admit, Reject, Uncharged, Move, Unstored, Phases
  <2>2. owed' = owed /\ UNCHANGED <<spend, snapshot, stored, charged>>
    BY <1>8 DEF Measure, Admit, Reject, Uncharged, history
  <2>. QED
    BY <1>1, <1>4, <2>1, <2>2
<1>9. ASSUME NEW f \in Refreshers, ReadStore(f) PROVE StoreBehind'
  <2>1. Unstored' = Unstored /\ UNCHANGED <<spend, owed, stored, charged>>
    BY <1>9 DEF ReadStore, history, Unstored
  <2>2. \A e \in Refreshers : snapshot'[e].sum <= charged
    BY <1>2, <1>3, <1>9 DEF ReadStore
  <2>. QED
    BY <1>1, <1>3, <2>1, <2>2 DEF StoreBehind
<1>10. ASSUME NEW f \in Refreshers, WriteCounter(f) PROVE StoreBehind'
  <2>1. Unstored' = Unstored /\ UNCHANGED <<owed, stored, charged>>
    BY <1>10 DEF WriteCounter, counts, Unstored
  <2>. DEFINE x == InPeriod(snapshot[f])
  <2>2. x \in Nat /\ x <= charged
    BY <1>3 DEF InPeriod
  <2>3. spend' = Micro(x)
    BY <1>10 DEF WriteCounter
  <2>. HIDE DEF x
  <2>4. Micro(x) * Unit <= x /\ Micro(x) * Unit \in Int
    BY <2>2, MicroLoss, MicroNat, UnitPositive
  <2>5. spend' * Unit <= charged'
    BY <2>1, <2>2, <2>3, <2>4
  <2>6. \A e \in Refreshers : snapshot'[e].sum <= charged
    BY <1>3, <1>10 DEF WriteCounter, NoRead
  <2>. QED
    BY <1>1, <2>1, <2>5, <2>6 DEF StoreBehind
<1>11. CASE NewPeriod
  <2>1. Unstored' = Unstored /\ UNCHANGED <<spend, owed, snapshot, charged>> /\ stored' = 0
    BY <1>11 DEF NewPeriod, history, Unstored
  <2>. QED
    BY <1>1, <1>2, <1>4, <2>1
<1>12. CASE UNCHANGED vars
  <2>1. Unstored' = Unstored /\ UNCHANGED <<spend, owed, snapshot, stored, charged>>
    BY <1>12 DEF vars, history, Unstored
  <2>. QED
    BY <1>1, <1>4, <2>1
<1>. QED
  BY <1>5, <1>6, <1>7, <1>8, <1>9, <1>10, <1>11, <1>12 DEF Next, Step

(* Charged first and stored after, a response is never in the counter twice, *)
(* however refresh_from_store interleaves with both.                         *)
THEOREM ChargedAtMostOnce == Spec => []NeverOvercharges
<1>. DEFINE I == ~TrackerFirst => StoreBehind
<1>1. Init => I
  <2>. SUFFICES ASSUME Init PROVE StoreBehind
    OBVIOUS
  <2>. DEFINE g == [S \in SUBSET Requests |-> 0]
  <2>1. Adds(g, owed)
    BY DEF Adds, Init
  <2>2. g[Unstored] = 0
    BY DEF Unstored
  <2>. HIDE DEF g
  <2>3. stored + g[Unstored] <= charged
    BY <2>2 DEF Init
  <2>4. (\A f \in Refreshers : snapshot[f].sum <= charged) /\ spend * Unit <= charged
    BY UnitPositive DEF Init, NoRead
  <2>. QED
    BY <2>1, <2>3, <2>4 DEF StoreBehind
<1>2. I /\ TypeOK /\ TypeOK' /\ [Next]_vars => I'
  BY StoreStep
<1>3. I => NeverOvercharges
  BY DEF StoreBehind, NeverOvercharges
<1>. HIDE DEF I
<1>. QED
  BY <1>1, <1>2, <1>3, TypeCorrect, PTL DEF Spec

-----------------------------------------------------------------------------
(* The calendar.  Months are counted from March of the year 0: month M has  *)
(* its first day FirstDay(M) and LengthOf(M) days.                          *)

YearOf(M) == IF M % 12 < 10 THEN M \div 12 ELSE (M \div 12) + 1

MonthOf(M) == IF M % 12 < 10 THEN (M % 12) + 3 ELSE (M % 12) - 9

FirstDay(M) == Years(M \div 12) + Months(M % 12)

LengthOf(M) == LastDayOfMonth(YearOf(M), MonthOf(M))

LEMMA YearLength ==
  ASSUME NEW y \in Nat
  PROVE  Years(y + 1) = Years(y) + (IF LeapYear(y + 1) THEN 366 ELSE 365)
BY DEF Years, LeapYear

LEMMA MonthsWithin ==
  ASSUME NEW k \in 0..11
  PROVE /\ Months(0) = 0 /\ Months(11) = 337
        /\ k < 11 => Months(k + 1) - Months(k) = IF k \in {1, 3, 6, 8} THEN 30 ELSE 31
BY DEF Months

LEMMA YearsOrder ==
  ASSUME NEW y \in Nat, NEW z \in Nat, y < z
  PROVE Years(y) \in Nat /\ Years(y) < Years(z)
BY DEF Years

LEMMA YearGuess ==
  ASSUME NEW y \in Nat, NEW n \in Nat, Years(y) <= n, n <= Years(y) + 365
  PROVE  ((400 * n) \div 146097) \in {y - 1, y, y + 1}
BY DEF Years

LEMMA GreatestIs ==
  ASSUME NEW S, S \subseteq Int, NEW m \in S, \A x \in S : x <= m
  PROVE  Max(S) = m
<1>. DEFINE P(x) == x \in S /\ \A y \in S : x >= y
<1>1. \A x : P(x) => x = m
  OBVIOUS
<1>2. P(m)
  OBVIOUS
<1>. QED
  BY <1>1, <1>2 DEF Max

LEMMA GreaterIs ==
  ASSUME NEW a \in Int, NEW b \in Int
  PROVE  Max({a, b}) = IF a <= b THEN b ELSE a
<1>. DEFINE S == {a, b}
<1>1. CASE a <= b
  <2>1. S \subseteq Int /\ b \in S /\ \A y \in S : y <= b
    BY <1>1
  <2>. HIDE DEF S
  <2>2. Max(S) = b
    BY <2>1, GreatestIs
  <2>. QED
    BY <1>1, <2>2 DEF S
<1>2. CASE ~(a <= b)
  <2>1. S \subseteq Int /\ a \in S /\ \A y \in S : y <= a
    BY <1>2
  <2>. HIDE DEF S
  <2>2. Max(S) = a
    BY <2>1, GreatestIs
  <2>. QED
    BY <1>2, <2>2 DEF S
<1>. QED
  BY <1>1, <1>2

LEMMA LeastIs ==
  ASSUME NEW a \in Int, NEW b \in Int
  PROVE  Min({a, b}) = IF a <= b THEN a ELSE b
BY DEF Min

(* A date is one day of one month. *)
LEMMA MonthFits ==
  ASSUME NEW M \in Nat
  PROVE  /\ FirstDay(M) \in Nat /\ LengthOf(M) \in 28..31
         /\ FirstDay(M + 1) = FirstDay(M) + LengthOf(M)
         /\ YearOf(M) \in Nat /\ MonthOf(M) \in 1..12
<1>. DEFINE y == M \div 12
            k == M % 12
<1>1. y \in Nat /\ k \in 0..11 /\ M = 12 * y + k
  OBVIOUS
<1>2. Years(y) \in Nat /\ Months(k) \in Nat
  BY <1>1 DEF Years, Months
<1>3. YearOf(M) \in Nat /\ MonthOf(M) \in 1..12
  BY <1>1 DEF YearOf, MonthOf
<1>4. CASE k < 11
  <2>1. (M + 1) \div 12 = y /\ (M + 1) % 12 = k + 1
    BY <1>1, <1>4
  <2>2. Months(k + 1) = Months(k) + (IF k \in {1, 3, 6, 8} THEN 30 ELSE 31)
    BY <1>1, <1>4, MonthsWithin, <1>2 DEF Months
  <2>3. LengthOf(M) = IF k \in {1, 3, 6, 8} THEN 30 ELSE 31
    BY <1>1, <1>4 DEF LengthOf, LastDayOfMonth, MonthOf, YearOf
  <2>. QED
    BY <1>2, <1>3, <2>1, <2>2, <2>3 DEF FirstDay
<1>5. CASE k = 11
  <2>1. (M + 1) \div 12 = y + 1 /\ (M + 1) % 12 = 0
    BY <1>1, <1>5
  <2>2. Months(11) = 337 /\ Months(0) = 0
    BY MonthsWithin
  <2>3. Years(y + 1) = Years(y) + (IF LeapYear(y + 1) THEN 366 ELSE 365)
    BY <1>1, YearLength
  <2>4. LengthOf(M) = IF LeapYear(y + 1) THEN 29 ELSE 28
    BY <1>1, <1>5 DEF LengthOf, LastDayOfMonth, MonthOf, YearOf
  <2>. QED
    BY <1>2, <1>3, <1>5, <2>1, <2>2, <2>3, <2>4 DEF FirstDay
<1>. QED
  BY <1>1, <1>4, <1>5

LEMMA YearFound ==
  ASSUME NEW y \in Nat, NEW n \in Nat, Years(y) <= n, n < Years(y + 1)
  PROVE  LET guess == (400 * n) \div 146097
         IN  Max({z \in {guess - 1, guess, guess + 1} : Years(z) <= n}) = y
<1>1. Years(y) \in Nat /\ Years(y + 1) \in Nat /\ n <= Years(y) + 365
  <2>1. Years(y) \in Nat /\ Years(y + 1) \in Nat
    BY DEF Years
  <2>. QED
    BY <2>1, YearLength
<1>2. PICK guess \in Int : guess = (400 * n) \div 146097
  OBVIOUS
<1>3. guess \in {y - 1, y, y + 1}
  BY <1>1, <1>2, YearGuess
<1>. DEFINE S == {z \in {guess - 1, guess, guess + 1} : Years(z) <= n}
<1>4. S \subseteq Int /\ y \in S
  BY <1>3
<1>5. ASSUME NEW z \in S PROVE z <= y
  <2>. SUFFICES ASSUME z > y PROVE FALSE
    BY <1>4
  <2>1. z \in Nat /\ Years(z) <= n
    BY <1>4
  <2>. HIDE DEF S
  <2>2. z = y + 1 \/ y + 1 < z
    BY <2>1
  <2>4. Years(z) \in Nat
    BY <2>1 DEF Years
  <2>5. PICK w \in Nat : w = y + 1
    OBVIOUS
  <2>6. w < z => Years(w) < Years(z)
    BY <2>1, <2>5, YearsOrder
  <2>3. Years(y + 1) <= Years(z)
    BY <1>1, <2>1, <2>2, <2>4, <2>5, <2>6
  <2>. QED
    BY <1>1, <2>1, <2>3, <2>4
<1>. HIDE DEF S
<1>6. Max(S) = y
  BY <1>4, <1>5, GreatestIs
<1>. QED
  BY <1>2, <1>6 DEF S

LEMMA DateFound ==
  ASSUME NEW y \in Nat, NEW k \in 0..11, NEW e \in Nat, NEW d,
         e < Years(y + 1) - Years(y), (5 * e + 2) \div 153 = k, d = e - Months(k) + 1
  PROVE  DateOf(Years(y) + e) =
            Date(IF k < 10 THEN y ELSE y + 1, IF k < 10 THEN k + 3 ELSE k - 9, d)
<1>. DEFINE n == Years(y) + e
<1>1. Years(y) \in Nat /\ Years(y + 1) \in Nat
  BY DEF Years
<1>2. n \in Nat /\ Years(y) <= n /\ n < Years(y + 1) /\ n - Years(y) = e
  BY <1>1
<1>. HIDE DEF n
<1>3. LET guess == (400 * n) \div 146097
      IN  Max({z \in {guess - 1, guess, guess + 1} : Years(z) <= n}) = y
  BY <1>2, YearFound
<1>4. PICK month \in 1..12 : month = IF k < 10 THEN k + 3 ELSE k - 9
  OBVIOUS
<1>5. (IF month <= 2 THEN y + 1 ELSE y) = IF k < 10 THEN y ELSE y + 1
  BY <1>4
<1>6. DateOf(n) = Date(IF month <= 2 THEN y + 1 ELSE y, month, d)
  BY <1>2, <1>3, <1>4 DEF DateOf
<1>. QED
  BY <1>4, <1>5, <1>6 DEF n

(* The months of a year that begins in March. *)
LEMMA MonthFound ==
  ASSUME NEW k \in 0..11, NEW d \in Nat \ {0},
         d <= IF k \in {1, 3, 6, 8} THEN 30 ELSE IF k = 11 THEN 29 ELSE 31
  PROVE  (5 * (Months(k) + d - 1) + 2) \div 153 = k /\ Months(k) \in Nat
BY DEF Months

LEMMA LengthIs ==
  ASSUME NEW M \in Nat, NEW y \in Nat, NEW k \in 0..11, y = M \div 12, k = M % 12
  PROVE  LengthOf(M) = IF k \in {1, 3, 6, 8} THEN 30
                       ELSE IF k # 11 THEN 31
                       ELSE IF LeapYear(y + 1) THEN 29 ELSE 28
BY DEF LengthOf, LastDayOfMonth, MonthOf, YearOf

LEMMA DateWithin ==
  ASSUME NEW M \in Nat, NEW d \in 1..LengthOf(M)
  PROVE  DateOf(FirstDay(M) + d - 1) = Date(YearOf(M), MonthOf(M), d)
<1>1. PICK y \in Nat, k \in 0..11 : y = M \div 12 /\ k = M % 12
  OBVIOUS
<1>. DEFINE e == Months(k) + d - 1
<1>2. LengthOf(M) = IF k \in {1, 3, 6, 8} THEN 30
                    ELSE IF k # 11 THEN 31
                    ELSE IF LeapYear(y + 1) THEN 29 ELSE 28
  BY <1>1, LengthIs
<1>3. d \in Nat \ {0} /\ d <= IF k \in {1, 3, 6, 8} THEN 30 ELSE IF k = 11 THEN 29 ELSE 31
  BY <1>2
<1>4. (5 * e + 2) \div 153 = k /\ Months(k) \in Nat
  BY <1>3, MonthFound
<1>5. Years(y) \in Nat /\ Years(y + 1) = Years(y) + (IF LeapYear(y + 1) THEN 366 ELSE 365)
  BY YearLength DEF Years
<1>6. k < 11 => Months(k) + 31 <= 337
  BY DEF Months
<1>7. Months(11) = 337
  BY MonthsWithin
<1>8. e \in Nat /\ d = e - Months(k) + 1
  BY <1>3, <1>4
<1>9. e < Years(y + 1) - Years(y)
  <2>1. CASE k < 11
    BY <1>3, <1>4, <1>5, <1>6, <2>1
  <2>2. CASE k = 11
    BY <1>2, <1>3, <1>4, <1>5, <1>7, <2>2
  <2>. QED
    BY <2>1, <2>2
<1>10. FirstDay(M) + d - 1 = Years(y) + e
  BY <1>1, <1>3, <1>4, <1>5 DEF FirstDay
<1>11. YearOf(M) = (IF k < 10 THEN y ELSE y + 1) /\ MonthOf(M) = IF k < 10 THEN k + 3 ELSE k - 9
  BY <1>1 DEF MonthOf, YearOf
<1>. HIDE DEF e
<1>12. DateOf(Years(y) + e) =
            Date(IF k < 10 THEN y ELSE y + 1, IF k < 10 THEN k + 3 ELSE k - 9, d)
  BY <1>4, <1>8, <1>9, DateFound DEF e
<1>. QED
  BY <1>10, <1>11, <1>12

LEMMA DayWithin ==
  ASSUME NEW M \in Nat, NEW d \in Nat
  PROVE  DayOf(Date(YearOf(M), MonthOf(M), d)) = FirstDay(M) + d - 1
<1>. DEFINE y == M \div 12
            k == M % 12
<1>1. y \in Nat /\ k \in 0..11
  OBVIOUS
<1>2. (MonthOf(M) + 9) % 12 = k /\ (IF MonthOf(M) <= 2 THEN YearOf(M) - 1 ELSE YearOf(M)) = y
  BY <1>1 DEF MonthOf, YearOf
<1>. QED
  BY <1>2 DEF DayOf, Date, FirstDay

LEMMA LeastOf ==
  ASSUME NEW S, S \subseteq Nat, S # {}
  PROVE  \E m \in S : \A k \in S : m <= k
<1>. DEFINE less == OpToRel(<, Nat)
<1>1. IsWellFoundedOn(less, Nat)
  BY NatLessThanWellFounded
<1>2. \A a, b \in Nat : a < b => <<a, b>> \in less
  BY DEF OpToRel
<1>. HIDE DEF less
<1>3. PICK m \in S : \A k \in S : ~(<<k, m>> \in less)
  BY <1>1, WFMin
<1>4. \A k \in S : k \in Nat /\ m \in Nat /\ ~(k < m)
  BY <1>2, <1>3
<1>. QED
  BY <1>4

LEMMA MonthExists ==
  ASSUME NEW n \in Nat
  PROVE  \E M \in Nat, d \in Nat : d \in 1..LengthOf(M) /\ n = FirstDay(M) + d - 1
<1>. DEFINE S == {M \in Nat : n < FirstDay(M + 1)}
<1>1. n \in S
  <2>1. PICK M \in Nat : M = n + 1
    OBVIOUS
  <2>2. FirstDay(M) >= M
    BY DEF FirstDay, Years, Months
  <2>3. FirstDay(M) \in Nat
    BY MonthFits
  <2>. QED
    BY <2>1, <2>2, <2>3
<1>2. PICK M \in S : \A K \in S : M <= K
  BY <1>1, LeastOf
<1>3. FirstDay(M) \in Nat /\ LengthOf(M) \in 28..31 /\ FirstDay(M + 1) = FirstDay(M) + LengthOf(M)
  BY MonthFits
<1>4. FirstDay(M) <= n
  <2>1. CASE M = 0
    BY <2>1 DEF FirstDay, Years, Months
  <2>2. CASE M # 0
    <3>1. PICK K \in Nat : K + 1 = M
      BY <2>2
    <3>2. K \notin S
      BY <1>2, <3>1
    <3>. QED
      BY <1>3, <3>1, <3>2
  <2>. QED
    BY <2>1, <2>2
<1>5. n < FirstDay(M) + LengthOf(M) /\ M \in Nat
  BY <1>3
<1>6. PICK d \in Nat : d = n - FirstDay(M) + 1
  BY <1>3, <1>4
<1>. QED
  BY <1>3, <1>4, <1>5, <1>6

-----------------------------------------------------------------------------
(* Billing periods *)

(* The day of the month on which a period begins. *)
ResetIn(M, r) == IF r <= LengthOf(M) THEN r ELSE LengthOf(M)

LEMMA ResetFits ==
  ASSUME NEW M \in Nat, NEW r \in 1..31
  PROVE  /\ ResetIn(M, r) \in 1..LengthOf(M)
         /\ LengthOf(M) \in 28..31
         /\ ResetIn(M, r) = Min({r, LengthOf(M)})
<1>1. LengthOf(M) \in 28..31
  BY MonthFits
<1>2. Min({r, LengthOf(M)}) = IF r <= LengthOf(M) THEN r ELSE LengthOf(M)
  BY <1>1, LeastIs
<1>. QED
  BY <1>1, <1>2 DEF ResetIn

LEMMA ResetDayIs ==
  ASSUME NEW M \in Nat, NEW d \in 1..LengthOf(M), NEW r \in 1..31,
         NEW n, n = FirstDay(M) + d - 1
  PROVE  /\ IsResetDay(n, r) <=> d = ResetIn(M, r)
         /\ MonthIsShort(n, r) <=> LengthOf(M) < r
<1>1. DateOf(n) = Date(YearOf(M), MonthOf(M), d)
  BY DateWithin
<1>2. DateOf(n).day = d /\ LastDayOfMonth(DateOf(n).year, DateOf(n).month) = LengthOf(M)
  BY <1>1 DEF Date, LengthOf
<1>3. IsResetDay(n, r) <=> d = Min({r, LengthOf(M)})
  BY <1>2 DEF IsResetDay
<1>4. MonthIsShort(n, r) <=> LengthOf(M) < r
  BY <1>2 DEF MonthIsShort
<1>. QED
  BY <1>3, <1>4, ResetFits

(* The latest reset of a day, when its month has had its own, and when not. *)
LEMMA LatestInMonth ==
  ASSUME NEW M \in Nat, NEW d \in 1..LengthOf(M), NEW r \in 1..31, d >= ResetIn(M, r)
  PROVE  LatestReset(FirstDay(M) + d - 1, r) = FirstDay(M) + ResetIn(M, r) - 1
<1>2. ResetIn(M, r) \in 1..LengthOf(M) /\ LengthOf(M) \in 28..31
  BY ResetFits
<1>. DEFINE n == FirstDay(M) + d - 1
            c == FirstDay(M) + ResetIn(M, r) - 1
<1>0. PICK first \in Nat : first = FirstDay(M)
  BY MonthFits
<1>1. first = FirstDay(M) /\ n = first + d - 1 /\ c = first + ResetIn(M, r) - 1 /\ n \in Nat /\ c \in Nat
  BY <1>0, <1>2
<1>. HIDE DEF n, c
<1>. DEFINE S == {e \in n - 31..n : e >= 0 /\ IsResetDay(e, r)}
<1>3. c \in S
  <2>1. IsResetDay(c, r)
    BY <1>1, <1>2, ResetDayIs
  <2>. QED
    BY <1>1, <1>2, <2>1
<1>4. ASSUME NEW e \in S PROVE e <= c
  <2>. SUFFICES ASSUME e > c PROVE FALSE
    BY <1>1
  <2>1. e \in Nat /\ e <= n /\ IsResetDay(e, r)
    BY <1>1
  <2>2. PICK f \in Int : f = e - first + 1
    BY <1>1, <2>1
  <2>3. f \in 1..LengthOf(M) /\ f # ResetIn(M, r) /\ e = FirstDay(M) + f - 1
    BY <1>1, <1>2, <2>1, <2>2
  <2>. QED
    BY <1>1, <2>1, <2>2, <2>3, ResetDayIs
<1>5. S \subseteq Int
  BY <1>1
<1>. HIDE DEF S
<1>6. Max(S) = c
  BY <1>3, <1>4, <1>5, GreatestIs
<1>. QED
  BY <1>6 DEF LatestReset, S, n, c

LEMMA LatestBeforeMonth ==
  ASSUME NEW M \in Nat, NEW K \in Nat, M = K + 1, NEW d \in 0..LengthOf(M), NEW r \in 1..31,
         d < ResetIn(M, r)
  PROVE  LatestReset(FirstDay(M) + d - 1, r) = FirstDay(K) + ResetIn(K, r) - 1
<1>. DEFINE n == FirstDay(M) + d - 1
            c == FirstDay(K) + ResetIn(K, r) - 1
<1>0. PICK first \in Nat, length \in 28..31 :
         first = FirstDay(K) /\ length = LengthOf(K) /\ FirstDay(M) = first + length
  BY MonthFits
<1>1. /\ first = FirstDay(K) /\ length = LengthOf(K) /\ FirstDay(M) = first + length
      /\ n = first + length + d - 1 /\ c = first + ResetIn(K, r) - 1
      /\ n \in Nat /\ c \in Nat /\ LengthOf(M) \in 28..31
  <2>1. ResetIn(K, r) \in 1..LengthOf(K) /\ LengthOf(M) \in 28..31
    BY ResetFits
  <2>. QED
    BY <1>0, <2>1
<1>. HIDE DEF n, c
<1>2. /\ ResetIn(M, r) \in 1..LengthOf(M) /\ LengthOf(M) \in 28..31
      /\ ResetIn(K, r) \in 1..length
  BY <1>1, ResetFits
<1>3. n - c <= 31
  BY <1>1, <1>2 DEF ResetIn
<1>. DEFINE S == {e \in n - 31..n : e >= 0 /\ IsResetDay(e, r)}
<1>4. c \in S
  <2>1. IsResetDay(c, r)
    <3>1. PICK f \in 1..LengthOf(K) : f = ResetIn(K, r)
      BY <1>1, <1>2
    <3>2. c = FirstDay(K) + f - 1
      BY <1>1, <3>1
    <3>. QED
      BY <3>1, <3>2, ResetDayIs
  <2>. QED
    BY <1>1, <1>2, <1>3, <2>1
<1>5. ASSUME NEW e \in S PROVE e <= c
  <2>. SUFFICES ASSUME e > c PROVE FALSE
    BY <1>1
  <2>1. e \in Nat /\ e <= n /\ IsResetDay(e, r)
    BY <1>1
  <2>2. CASE e < first + length
    <3>1. PICK f \in Int : f = e - first + 1
      BY <1>1, <2>1
    <3>2. f \in 1..LengthOf(K) /\ f # ResetIn(K, r) /\ e = FirstDay(K) + f - 1
      BY <1>1, <1>2, <2>1, <2>2, <3>1
    <3>. QED
      BY <1>1, <2>1, <3>1, <3>2, ResetDayIs
  <2>3. CASE e >= first + length
    <3>1. PICK f \in Int : f = e - FirstDay(M) + 1
      BY <1>1, <2>1
    <3>2. f \in 1..LengthOf(M) /\ f # ResetIn(M, r) /\ e = FirstDay(M) + f - 1
      BY <1>1, <1>2, <2>1, <2>3, <3>1
    <3>. QED
      BY <2>1, <3>1, <3>2, ResetDayIs
  <2>. QED
    BY <1>1, <2>1, <2>2, <2>3
<1>6. S \subseteq Int
  BY <1>1
<1>. HIDE DEF S
<1>7. Max(S) = c
  BY <1>4, <1>5, <1>6, GreatestIs
<1>. QED
  BY <1>7 DEF LatestReset, S, n, c

(* billing_period_start_ms is the latest reset, but on a late reset. *)
LEMMA PeriodStartIs ==
  ASSUME NEW M \in Nat, NEW K \in Nat, M = K + 1, NEW d \in 1..LengthOf(M), NEW r \in 1..31
  PROVE  PeriodStart(FirstDay(M) + d - 1, r) =
            IF d >= r THEN FirstDay(M) + ResetIn(M, r) - 1
                          ELSE FirstDay(K) + ResetIn(K, r) - 1
<1>. DEFINE start(L) == DayOf([Date(YearOf(L), MonthOf(L), 1) EXCEPT
                              !.day = Min({r, LastDayOfMonth(YearOf(L), MonthOf(L))})])
<1>1. \A L \in Nat : start(L) = FirstDay(L) + ResetIn(L, r) - 1
  <2>. TAKE L \in Nat
  <2>1. ResetIn(L, r) \in Nat /\ ResetIn(L, r) = Min({r, LastDayOfMonth(YearOf(L), MonthOf(L))})
    <3>1. ResetIn(L, r) \in 1..LengthOf(L) /\ LengthOf(L) \in 28..31
          /\ ResetIn(L, r) = Min({r, LengthOf(L)})
      BY ResetFits
    <3>2. ResetIn(L, r) \in Nat
      BY <3>1
    <3>. QED
      BY <3>1, <3>2 DEF LengthOf
  <2>2. start(L) = DayOf(Date(YearOf(L), MonthOf(L), ResetIn(L, r)))
    BY <2>1 DEF Date
  <2>. QED
    BY <2>1, <2>2, DayWithin
<1>2. PICK n : n = FirstDay(M) + d - 1
  OBVIOUS
<1>3. DateOf(n) = Date(YearOf(M), MonthOf(M), d)
  BY <1>2, DateWithin
<1>4. DateOf(n).day = d /\ DateOf(n).month = MonthOf(M) /\ DateOf(n).year = YearOf(M)
  BY <1>3 DEF Date
<1>5. IF MonthOf(M) = 1 THEN MonthOf(K) = 12 /\ YearOf(K) = YearOf(M) - 1
                        ELSE MonthOf(K) = MonthOf(M) - 1 /\ YearOf(K) = YearOf(M)
  <2>1. PICK y \in Nat, k \in 0..11 : y = K \div 12 /\ k = K % 12 /\ K = 12 * y + k
    OBVIOUS
  <2>2. IF k = 11 THEN M \div 12 = y + 1 /\ M % 12 = 0 ELSE M \div 12 = y /\ M % 12 = k + 1
    BY <2>1
  <2>. QED
    BY <2>1, <2>2 DEF MonthOf, YearOf
<1>6. CASE d >= r
  <2>1. PeriodStart(n, r) = start(M)
    BY <1>4, <1>6 DEF PeriodStart, Date
  <2>. QED
    BY <1>1, <1>2, <1>6, <2>1
<1>7. CASE ~(d >= r)
  <2>1. PeriodStart(n, r) = start(K)
    <3>1. CASE MonthOf(M) = 1
      BY <1>4, <1>5, <1>7, <3>1 DEF PeriodStart, Date
    <3>2. CASE MonthOf(M) # 1
      BY <1>4, <1>5, <1>7, <3>2 DEF PeriodStart, Date
    <3>. QED
      BY <3>1, <3>2
  <2>. QED
    BY <1>1, <1>2, <1>7, <2>1
<1>. QED
  BY <1>6, <1>7

(* For every day from the second month of the calendar on, and every reset *)
(* day (billing_period_start_ms).                                          *)
THEOREM EveryPeriodMeets ==
  ASSUME NEW n \in Nat, n >= 31, NEW r \in 1..31
  PROVE  PeriodsMeet(n, r)
<1>1. PICK M \in Nat, d \in Nat : d \in 1..LengthOf(M) /\ n = FirstDay(M) + d - 1
  BY MonthExists
<1>2. M # 0
  <2>. SUFFICES ASSUME M = 0 PROVE FALSE
    OBVIOUS
  <2>1. FirstDay(M) = 0
    BY DEF FirstDay, Years, Months
  <2>2. LengthOf(M) \in 28..31
    BY MonthFits
  <2>. QED
    BY <1>1, <2>1, <2>2
<1>3. PICK K \in Nat : M = K + 1
  BY <1>2
<1>4. /\ ResetIn(M, r) \in 1..LengthOf(M) /\ LengthOf(M) \in 28..31
      /\ ResetIn(M, r) = IF r <= LengthOf(M) THEN r ELSE LengthOf(M)
  BY ResetFits DEF ResetIn
<1>5. /\ IsResetDay(n, r) <=> d = ResetIn(M, r)
      /\ MonthIsShort(n, r) <=> LengthOf(M) < r
  BY <1>1, ResetDayIs
<1>6. PeriodStart(n, r) =
            IF d >= r THEN FirstDay(M) + ResetIn(M, r) - 1
                          ELSE FirstDay(K) + ResetIn(K, r) - 1
  BY <1>1, <1>3, PeriodStartIs
<1>7. CASE d >= r
  <2>1. ~MonthIsShort(n, r) /\ d >= ResetIn(M, r)
    BY <1>1, <1>4, <1>5, <1>7
  <2>2. LatestReset(n, r) = FirstDay(M) + ResetIn(M, r) - 1
    BY <1>1, <2>1, LatestInMonth
  <2>. QED
    BY <1>6, <1>7, <2>1, <2>2 DEF PeriodsMeet
<1>8. CASE d < r /\ d < ResetIn(M, r)
  <2>1. ~IsResetDay(n, r)
    BY <1>1, <1>4, <1>5, <1>8
  <2>2. d \in 0..LengthOf(M)
    BY <1>1, <1>4
  <2>3. LatestReset(n, r) = FirstDay(K) + ResetIn(K, r) - 1
    BY <1>1, <1>3, <1>8, <2>2, LatestBeforeMonth
  <2>. QED
    BY <1>1, <1>6, <1>8, <2>1, <2>3 DEF PeriodsMeet
<1>9. CASE d < r /\ d >= ResetIn(M, r)
  <2>1. IsResetDay(n, r) /\ MonthIsShort(n, r)
    BY <1>1, <1>4, <1>5, <1>9
  <2>2. PICK c \in 0..LengthOf(M) : c = d - 1
    BY <1>1, <1>4
  <2>3. c < ResetIn(M, r) /\ n - 1 = FirstDay(M) + c - 1
    <3>1. FirstDay(M) \in Nat
      BY MonthFits
    <3>. QED
      BY <1>1, <1>4, <1>9, <2>2, <3>1
  <2>4. LatestReset(n - 1, r) = FirstDay(K) + ResetIn(K, r) - 1
    BY <1>3, <2>3, LatestBeforeMonth
  <2>. QED
    BY <1>1, <1>6, <1>9, <2>1, <2>4 DEF PeriodsMeet
<1>. QED
  BY <1>1, <1>4, <1>7, <1>8, <1>9

(* Months end: what is left of one is never negative. *)
LEMMA MonthEnds ==
  ASSUME NEW n \in Nat
  PROVE  DaysUntilMonthEnd(n) \in Nat
<1>1. PICK M \in Nat, d \in Nat : d \in 1..LengthOf(M) /\ n = FirstDay(M) + d - 1
  BY MonthExists
<1>2. DateOf(n) = Date(YearOf(M), MonthOf(M), d)
  BY <1>1, DateWithin
<1>3. DaysUntilMonthEnd(n) = LengthOf(M) - d
  BY <1>2 DEF DaysUntilMonthEnd, Date, LengthOf
<1>4. LengthOf(M) \in 28..31
  BY MonthFits
<1>. QED
  BY <1>1, <1>3, <1>4

-----------------------------------------------------------------------------
(* Sums *)

(* A set of numbers that has 0, and with each number the next, has all. *)
LEMMA Induction ==
  ASSUME NEW S, 0 \in S, \A n \in Nat : n \in S => n + 1 \in S
  PROVE  Nat \subseteq S
<1>. DEFINE missing == Nat \ S
<1>. SUFFICES ASSUME missing # {} PROVE FALSE
  OBVIOUS
<1>1. PICK m \in missing : \A k \in missing : m <= k
  BY LeastOf
<1>2. m # 0 /\ m - 1 \in Nat
  BY <1>1
<1>3. m - 1 \in S
  BY <1>1, <1>2
<1>. QED
  BY <1>1, <1>2, <1>3

(* What SumTo's recursion has after each of the first n numbers. *)
Sums(g, f, n) == g = [k \in 0..n |-> IF k = 0 THEN 0 ELSE g[k - 1] + f[k]]

LEMMA SumsExist ==
  ASSUME NEW f, NEW n \in Nat
  PROVE  \E g : Sums(g, f, n)
<1>. DEFINE S == {k \in Nat : \E g : Sums(g, f, k)}
<1>1. 0 \in S
  <2>1. Sums([k \in 0..0 |-> 0], f, 0)
    BY DEF Sums
  <2>. QED
    BY <2>1
<1>2. ASSUME NEW k \in Nat, k \in S PROVE k + 1 \in S
  <2>1. PICK h : Sums(h, f, k)
    BY <1>2
  <2>. DEFINE g == [i \in 0..k + 1 |-> IF i = k + 1 THEN h[k] + f[i] ELSE h[i]]
  <2>2. \A i \in 0..k : h[i] = IF i = 0 THEN 0 ELSE h[i - 1] + f[i]
    BY <2>1 DEF Sums
  <2>3. \A i \in 0..k + 1 : g[i] = IF i = 0 THEN 0 ELSE g[i - 1] + f[i]
    BY <2>2
  <2>4. Sums(g, f, k + 1)
    BY <2>3 DEF Sums
  <2>. QED
    BY <2>4
<1>. HIDE DEF S
<1>3. Nat \subseteq S
  BY <1>1, <1>2, Induction
<1>. QED
  BY <1>3 DEF S

LEMMA SumIs ==
  ASSUME NEW f, NEW n \in Nat
  PROVE  \E g : Sums(g, f, n) /\ SumTo(f, n) = g[n]
<1>. DEFINE g == CHOOSE h : Sums(h, f, n)
<1>1. SumTo(f, n) = g[n]
  BY DEF SumTo, Sums
<1>2. Sums(g, f, n)
  BY SumsExist
<1>. QED
  BY <1>1, <1>2

(* It does not depend on what comes later. *)
LEMMA SumsAgree ==
  ASSUME NEW f, NEW e, NEW n \in Nat, NEW m \in Nat, n <= m, \A i \in 1..n : f[i] = e[i],
         NEW g, Sums(g, f, n), NEW h, Sums(h, e, m)
  PROVE  g[n] = h[n]
<1>. DEFINE S == {k \in Nat : k <= n => g[k] = h[k]}
<1>1. \A k \in 0..n : g[k] = IF k = 0 THEN 0 ELSE g[k - 1] + f[k]
  BY DEF Sums
<1>2. \A k \in 0..m : h[k] = IF k = 0 THEN 0 ELSE h[k - 1] + e[k]
  BY DEF Sums
<1>3. 0 \in S
  BY <1>1, <1>2
<1>4. ASSUME NEW k \in Nat, k \in S PROVE k + 1 \in S
  <2>. SUFFICES ASSUME k + 1 <= n PROVE g[k + 1] = h[k + 1]
    OBVIOUS
  <2>1. k + 1 \in 0..n /\ k + 1 \in 0..m /\ k + 1 # 0 /\ (k + 1) - 1 = k /\ k + 1 \in 1..n
    OBVIOUS
  <2>2. g[k + 1] = g[k] + f[k + 1] /\ h[k + 1] = h[k] + e[k + 1]
    BY <2>1, <1>1, <1>2
  <2>3. g[k] = h[k] /\ f[k + 1] = e[k + 1]
    BY <2>1, <1>4
  <2>. QED
    BY <2>2, <2>3
<1>. HIDE DEF S
<1>5. Nat \subseteq S
  BY <1>3, <1>4, Induction
<1>. QED
  BY <1>5 DEF S

LEMMA SumOfNone == ASSUME NEW f PROVE SumTo(f, 0) = 0
<1>1. PICK n \in Nat : n = 0
  OBVIOUS
<1>2. PICK g : Sums(g, f, n) /\ SumTo(f, n) = g[n]
  BY SumIs
<1>3. g[0] = 0
  BY <1>1, <1>2 DEF Sums
<1>. QED
  BY <1>1, <1>2, <1>3

LEMMA SumOfNext ==
  ASSUME NEW f, NEW e, NEW n \in Nat, \A i \in 1..n : f[i] = e[i]
  PROVE  SumTo(e, n + 1) = SumTo(f, n) + e[n + 1]
<1>1. PICK m \in Nat : m = n + 1
  OBVIOUS
<1>2. PICK g : Sums(g, f, n) /\ SumTo(f, n) = g[n]
  BY SumIs
<1>3. PICK h : Sums(h, e, m) /\ SumTo(e, m) = h[m]
  BY SumIs
<1>0. n <= m
  BY <1>1
<1>4. g[n] = h[n]
  BY <1>0, <1>2, <1>3, SumsAgree
<1>5. \A k \in 0..m : h[k] = IF k = 0 THEN 0 ELSE h[k - 1] + e[k]
  BY <1>3 DEF Sums
<1>6. m \in 0..m /\ m # 0 /\ m - 1 = n
  BY <1>1
<1>7. h[m] = h[n] + e[m]
  BY <1>5, <1>6
<1>. QED
  BY <1>1, <1>2, <1>3, <1>4, <1>7

LEMMA SumTyped ==
  ASSUME NEW f, NEW n \in Nat, \A i \in 1..n : f[i] \in Int
  PROVE  /\ SumTo(f, n) \in Int
         /\ (\A i \in 1..n : f[i] >= 0) => SumTo(f, n) >= 0
<1>. DEFINE S == {k \in Nat : k <= n => /\ SumTo(f, k) \in Int
                                        /\ (\A i \in 1..n : f[i] >= 0) => SumTo(f, k) >= 0}
<1>1. 0 \in S
  BY SumOfNone
<1>2. ASSUME NEW k \in Nat, k \in S PROVE k + 1 \in S
  <2>1. SumTo(f, k + 1) = SumTo(f, k) + f[k + 1]
    BY SumOfNext
  <2>2. k + 1 <= n => k + 1 \in 1..n
    OBVIOUS
  <2>. QED
    BY <1>2, <2>1, <2>2
<1>. HIDE DEF S
<1>3. Nat \subseteq S
  BY <1>1, <1>2, Induction
<1>. QED
  BY <1>3 DEF S

(* Sums add up. *)
LEMMA SumAdds ==
  ASSUME NEW f, NEW g, NEW h, NEW n \in Nat,
         \A i \in 1..n : f[i] \in Int /\ g[i] \in Int /\ h[i] = f[i] + g[i]
  PROVE  SumTo(h, n) = SumTo(f, n) + SumTo(g, n)
<1>. DEFINE S == {k \in Nat : k <= n => /\ SumTo(f, k) \in Int /\ SumTo(g, k) \in Int
                                        /\ SumTo(h, k) = SumTo(f, k) + SumTo(g, k)}
<1>1. 0 \in S
  BY SumOfNone
<1>2. ASSUME NEW k \in Nat, k \in S PROVE k + 1 \in S
  <2>1. /\ SumTo(f, k + 1) = SumTo(f, k) + f[k + 1]
        /\ SumTo(g, k + 1) = SumTo(g, k) + g[k + 1]
        /\ SumTo(h, k + 1) = SumTo(h, k) + h[k + 1]
    BY SumOfNext
  <2>2. k + 1 <= n => k + 1 \in 1..n
    OBVIOUS
  <2>. QED
    BY <1>2, <2>1, <2>2
<1>. HIDE DEF S
<1>3. Nat \subseteq S
  BY <1>1, <1>2, Induction
<1>. QED
  BY <1>3 DEF S

-----------------------------------------------------------------------------
(* Costs of rows *)

Rows == [at : Nat, cost : Nat]

CostOf(rows, I) == [i \in DOMAIN rows |-> IF i \in I THEN rows[i].cost ELSE 0]

LEMMA CostIs ==
  ASSUME NEW rows \in Seq(Rows), NEW I, NEW i \in 1..Len(rows)
  PROVE  /\ CostOf(rows, I)[i] = IF i \in I THEN rows[i].cost ELSE 0
         /\ rows[i].cost \in Nat /\ rows[i].at \in Nat
<1>1. rows[i] \in Rows /\ i \in DOMAIN rows
  OBVIOUS
<1>. QED
  BY <1>1 DEF CostOf, Rows

LEMMA RowsSum ==
  ASSUME NEW rows \in Seq(Rows), NEW I
  PROVE  Sum(rows, I) \in Nat
<1>. DEFINE f == CostOf(rows, I)
            n == Len(rows)
<1>1. n \in Nat /\ \A i \in 1..n : f[i] \in Int /\ f[i] >= 0
  BY CostIs
<1>2. Sum(rows, I) = SumTo(f, n)
  BY DEF Sum, CostOf
<1>. HIDE DEF f, n
<1>3. SumTo(f, n) \in Int /\ SumTo(f, n) >= 0
  BY <1>1, SumTyped
<1>. QED
  BY <1>2, <1>3

LEMMA RowsSplit ==
  ASSUME NEW rows \in Seq(Rows), NEW I, NEW J, I \cap J = {}
  PROVE  Sum(rows, I \cup J) = Sum(rows, I) + Sum(rows, J)
<1>. DEFINE f == CostOf(rows, I)
            g == CostOf(rows, J)
            h == CostOf(rows, I \cup J)
            n == Len(rows)
<1>1. n \in Nat /\ \A i \in 1..n : f[i] \in Int /\ g[i] \in Int /\ h[i] = f[i] + g[i]
  <2>1. n \in Nat
    OBVIOUS
  <2>2. ASSUME NEW i \in 1..n PROVE f[i] \in Int /\ g[i] \in Int /\ h[i] = f[i] + g[i]
    <3>1. PICK c \in Nat : c = rows[i].cost
      BY <2>2, CostIs
    <3>2. /\ f[i] = IF i \in I THEN c ELSE 0
          /\ g[i] = IF i \in J THEN c ELSE 0
          /\ h[i] = IF i \in I \cup J THEN c ELSE 0
      BY <2>2, <3>1, CostIs
    <3>. QED
      BY <3>1, <3>2
  <2>. QED
    BY <2>1, <2>2
<1>2. Sum(rows, I) = SumTo(f, n) /\ Sum(rows, J) = SumTo(g, n) /\ Sum(rows, I \cup J) = SumTo(h, n)
  BY DEF Sum, CostOf
<1>. HIDE DEF f, g, h, n
<1>3. SumTo(h, n) = SumTo(f, n) + SumTo(g, n)
  BY <1>1, SumAdds
<1>. QED
  BY <1>2, <1>3

LEMMA NoRowsSum ==
  ASSUME NEW rows \in Seq(Rows)
  PROVE  Sum(rows, {}) = 0
<1>. PICK none : none = {}
  OBVIOUS
<1>0. none \cap none = {}
  OBVIOUS
<1>1. Sum(rows, none \cup none) = Sum(rows, none) + Sum(rows, none)
  BY <1>0, RowsSplit
<1>2. Sum(rows, none) \in Nat /\ none \cup none = none
  BY RowsSum
<1>3. Sum(rows, none) = Sum(rows, none) + Sum(rows, none)
  BY <1>1, <1>2
<1>. QED
  BY <1>2, <1>3

(* Days *)
LEMMA DayIs ==
  ASSUME NEW t \in Nat
  PROVE  Day(t) \in Nat /\ Day(t) * DayLength <= t /\ t < (Day(t) + 1) * DayLength
BY DayHasParts DEF Day

LEMMA DayGrows ==
  ASSUME NEW s \in Nat, NEW t \in Nat, s <= t
  PROVE  Day(s) <= Day(t)
<1>1. PICK a \in Nat, b \in Nat, l \in Nat \ {0} : a = Day(s) /\ b = Day(t) /\ l = DayLength
  BY DayIs, DayHasParts
<1>2. a * l <= s /\ t < (b + 1) * l
  BY <1>1, DayIs
<1>3. a * l < (b + 1) * l
  BY <1>1, <1>2
<1>4. a < b + 1
  BY <1>1, <1>3
<1>. QED
  BY <1>1, <1>4

LEMMA DayBefore ==
  ASSUME NEW t \in Nat, NEW days \in Nat, NEW s \in Nat, s = t - days * DayLength
  PROVE  Day(t) = Day(s) + days
<1>1. PICK a \in Nat, b \in Nat, l \in Nat \ {0} : a = Day(s) /\ b = Day(t) /\ l = DayLength
  BY DayIs, DayHasParts
<1>2. a * l <= s /\ s < (a + 1) * l /\ b * l <= t /\ t < (b + 1) * l /\ t = s + days * l
  BY <1>1, DayIs
<1>3. b * l < (a + days + 1) * l /\ (a + days) * l < (b + 1) * l
  BY <1>1, <1>2
<1>4. b < a + days + 1 /\ a + days < b + 1
  BY <1>1, <1>3
<1>. QED
  BY <1>1, <1>4

(* The costs of the days *)

OnDay(rows, I, day) == {i \in I : Day(rows[i].at) = day}

UpToDay(rows, I, day) == {i \in I : Day(rows[i].at) < day}

DaysOf(rows, I) == {Day(rows[i].at) : i \in I}

(* What the recursion of DailyCosts has after each of the first n days. *)
Lists(u, rows, I, first, n) ==
    u = [k \in 0..n |->
            IF k = 0 THEN <<>>
            ELSE IF OnDay(rows, I, first + k - 1) = {} THEN u[k - 1]
            ELSE Append(u[k - 1], Sum(rows, OnDay(rows, I, first + k - 1)))]

LEMMA ListsExist ==
  ASSUME NEW rows, NEW I, NEW first, NEW n \in Nat
  PROVE  \E u : Lists(u, rows, I, first, n)
<1>. DEFINE S == {k \in Nat : \E u : Lists(u, rows, I, first, k)}
            next(q, k) == IF OnDay(rows, I, first + k - 1) = {} THEN q
                          ELSE Append(q, Sum(rows, OnDay(rows, I, first + k - 1)))
<1>1. 0 \in S
  <2>1. Lists([k \in 0..0 |-> <<>>], rows, I, first, 0)
    BY DEF Lists
  <2>. QED
    BY <2>1
<1>2. ASSUME NEW k \in Nat, k \in S PROVE k + 1 \in S
  <2>1. PICK v : Lists(v, rows, I, first, k)
    BY <1>2
  <2>. DEFINE u == [i \in 0..k + 1 |-> IF i = k + 1 THEN next(v[k], i) ELSE v[i]]
  <2>2. \A i \in 0..k : v[i] = IF i = 0 THEN <<>> ELSE next(v[i - 1], i)
    BY <2>1 DEF Lists
  <2>. HIDE DEF next
  <2>3. \A i \in 0..k + 1 : u[i] = IF i = 0 THEN <<>> ELSE next(u[i - 1], i)
    BY <2>2
  <2>4. u = [i \in 0..k + 1 |-> IF i = 0 THEN <<>> ELSE next(u[i - 1], i)]
    BY <2>3
  <2>. HIDE DEF u
  <2>5. Lists(u, rows, I, first, k + 1)
    BY <2>4 DEF Lists, next
  <2>. QED
    BY <2>5
<1>. HIDE DEF S
<1>3. Nat \subseteq S
  BY <1>1, <1>2, Induction
<1>. QED
  BY <1>3 DEF S

LEMMA TotalOfNext ==
  ASSUME NEW costs \in Seq(Nat), NEW c \in Nat
  PROVE  Total(Append(costs, c)) = Total(costs) + c
<1>. DEFINE more == Append(costs, c)
            n == Len(costs)
<1>1. n \in Nat /\ Len(more) = n + 1 /\ more[n + 1] = c /\ \A i \in 1..n : costs[i] = more[i]
  OBVIOUS
<1>. HIDE DEF more, n
<1>2. SumTo(more, n + 1) = SumTo(costs, n) + more[n + 1]
  BY <1>1, SumOfNext
<1>. QED
  BY <1>1, <1>2 DEF Total, more, n

(* What is known of the costs after the first n days. *)
Lasts(costs, rows, I, first, n) ==
    /\ costs \in Seq(Nat)
    /\ Total(costs) = Sum(rows, UpToDay(rows, I, first + n))
    /\ IsFiniteSet(DaysOf(rows, UpToDay(rows, I, first + n)))
    /\ Len(costs) = Cardinality(DaysOf(rows, UpToDay(rows, I, first + n)))
    /\ Len(costs) <= n

LEMMA LastsNone ==
  ASSUME NEW rows \in Seq(Rows), NEW I \in SUBSET DOMAIN rows, NEW first \in Nat,
         \A i \in I : Day(rows[i].at) >= first
  PROVE  Lasts(<<>>, rows, I, first, 0)
<1>1. UpToDay(rows, I, first + 0) = {}
  <2>. SUFFICES ASSUME NEW i \in I, Day(rows[i].at) < first + 0 PROVE FALSE
    BY DEF UpToDay
  <2>1. rows[i] \in Rows
    OBVIOUS
  <2>2. Day(rows[i].at) \in Nat
    BY <2>1, DayIs DEF Rows
  <2>. QED
    BY <2>2
<1>2. DaysOf(rows, {}) = {}
  BY DEF DaysOf
<1>3. Total(<<>>) = 0
  BY SumOfNone DEF Total
<1>4. <<>> \in Seq(Nat) /\ Len(<<>>) = 0
  OBVIOUS
<1>5. Sum(rows, {}) = 0 /\ IsFiniteSet({}) /\ Cardinality({}) = 0
  BY NoRowsSum, FS_EmptySet
<1>6. PICK costs \in Seq(Nat) : costs = <<>>
  BY <1>4
<1>7. Total(costs) = 0 /\ Len(costs) = 0
  BY <1>3, <1>4, <1>6
<1>8. PICK A : A = UpToDay(rows, I, first + 0)
  OBVIOUS
<1>9. A = {} /\ DaysOf(rows, A) = {}
  BY <1>1, <1>2, <1>8
<1>10. Sum(rows, A) = 0 /\ IsFiniteSet(DaysOf(rows, A)) /\ Cardinality(DaysOf(rows, A)) = 0
  BY <1>5, <1>9
<1>11. Total(costs) = Sum(rows, A) /\ Len(costs) = Cardinality(DaysOf(rows, A)) /\ Len(costs) <= 0
  BY <1>7, <1>10
<1>12. Lasts(costs, rows, I, first, 0)
  BY <1>6, <1>8, <1>10, <1>11 DEF Lasts
<1>. QED
  BY <1>6, <1>12

LEMMA LastsNext ==
  ASSUME NEW rows \in Seq(Rows), NEW I \in SUBSET DOMAIN rows, NEW first \in Nat, NEW n \in Nat,
         NEW costs, Lasts(costs, rows, I, first, n),
         NEW more, more = IF OnDay(rows, I, first + n) = {} THEN costs
                          ELSE Append(costs, Sum(rows, OnDay(rows, I, first + n)))
  PROVE  Lasts(more, rows, I, first, n + 1)
<1>. DEFINE A == UpToDay(rows, I, first + n)
            B == OnDay(rows, I, first + n)
            C == UpToDay(rows, I, first + (n + 1))
<1>1. \A i \in I : Day(rows[i].at) \in Nat
  <2>. TAKE i \in I
  <2>1. rows[i] \in Rows
    OBVIOUS
  <2>. QED
    BY <2>1, DayIs DEF Rows
<1>2. C = A \cup B /\ A \cap B = {}
  BY <1>1 DEF UpToDay, OnDay
<1>3. first + n \notin DaysOf(rows, A)
  BY <1>1 DEF UpToDay, DaysOf
<1>4. DaysOf(rows, B) = IF B = {} THEN {} ELSE {first + n}
  BY DEF OnDay, DaysOf
<1>5. DaysOf(rows, A \cup B) = DaysOf(rows, A) \cup DaysOf(rows, B)
  BY DEF DaysOf
<1>6. /\ costs \in Seq(Nat) /\ Total(costs) = Sum(rows, A) /\ IsFiniteSet(DaysOf(rows, A))
      /\ Len(costs) = Cardinality(DaysOf(rows, A)) /\ Len(costs) <= n
  BY DEF Lasts
<1>7. Sum(rows, A \cup B) = Sum(rows, A) + Sum(rows, B) /\ Sum(rows, B) \in Nat /\ Sum(rows, A) \in Nat
  BY <1>2, RowsSplit, RowsSum
<1>8. more = IF B = {} THEN costs ELSE Append(costs, Sum(rows, B))
  OBVIOUS
<1>. SUFFICES /\ more \in Seq(Nat) /\ Total(more) = Sum(rows, C) /\ IsFiniteSet(DaysOf(rows, C))
              /\ Len(more) = Cardinality(DaysOf(rows, C)) /\ Len(more) <= n + 1
  BY DEF Lasts
<1>. HIDE DEF A, B, C
<1>9. CASE B = {}
  <2>1. C = A /\ more = costs
    BY <1>2, <1>8, <1>9
  <2>. QED
    BY <1>6, <2>1
<1>10. CASE B # {}
  <2>1. PICK c \in Nat : c = Sum(rows, B)
    BY <1>7
  <2>2. more = Append(costs, c)
    BY <1>8, <1>10, <2>1
  <2>3. more \in Seq(Nat) /\ Len(more) = Len(costs) + 1 /\ Len(costs) \in Nat
    BY <1>6, <2>2
  <2>4. Total(more) = Sum(rows, C)
    BY <1>2, <1>6, <1>7, <2>1, <2>2, TotalOfNext
  <2>5. DaysOf(rows, C) = DaysOf(rows, A) \cup {first + n}
    BY <1>2, <1>4, <1>5, <1>10
  <2>6. IsFiniteSet(DaysOf(rows, C)) /\ Cardinality(DaysOf(rows, C)) = Cardinality(DaysOf(rows, A)) + 1
    <3>1. PICK day : day = first + n
      OBVIOUS
    <3>2. PICK D : D = DaysOf(rows, A)
      OBVIOUS
    <3>3. IsFiniteSet(D) /\ day \notin D
      BY <1>3, <1>6, <3>1, <3>2
    <3>4. IsFiniteSet(D \cup {day}) /\ Cardinality(D \cup {day}) = Cardinality(D) + 1
      BY <3>3, FS_AddElement
    <3>. QED
      BY <2>5, <3>1, <3>2, <3>4
  <2>. QED
    BY <1>6, <2>3, <2>4, <2>6
<1>. QED
  BY <1>9, <1>10

LEMMA ListsLast ==
  ASSUME NEW rows \in Seq(Rows), NEW I \in SUBSET DOMAIN rows, NEW first \in Nat, NEW n \in Nat,
         \A i \in I : Day(rows[i].at) >= first, NEW u, Lists(u, rows, I, first, n)
  PROVE  Lasts(u[n], rows, I, first, n)
<1>. DEFINE S == {k \in Nat : k <= n => Lasts(u[k], rows, I, first, k)}
<1>1. \A k \in 0..n : u[k] = IF k = 0 THEN <<>>
            ELSE IF OnDay(rows, I, first + k - 1) = {} THEN u[k - 1]
            ELSE Append(u[k - 1], Sum(rows, OnDay(rows, I, first + k - 1)))
  BY DEF Lists
<1>2. 0 \in S
  <2>1. u[0] = <<>>
    BY <1>1
  <2>. QED
    BY <2>1, LastsNone
<1>3. ASSUME NEW k \in Nat, k \in S PROVE k + 1 \in S
  <2>. SUFFICES ASSUME k + 1 <= n PROVE Lasts(u[k + 1], rows, I, first, k + 1)
    OBVIOUS
  <2>1. k + 1 \in 0..n /\ k + 1 # 0 /\ (k + 1) - 1 = k /\ first + (k + 1) - 1 = first + k
    OBVIOUS
  <2>2. u[k + 1] = IF OnDay(rows, I, first + k) = {} THEN u[k]
                   ELSE Append(u[k], Sum(rows, OnDay(rows, I, first + k)))
    BY <1>1, <2>1
  <2>3. Lasts(u[k], rows, I, first, k)
    BY <1>3, <2>1
  <2>. QED
    BY <2>2, <2>3, LastsNext
<1>. HIDE DEF S
<1>4. Nat \subseteq S
  BY <1>2, <1>3, Induction
<1>. QED
  BY <1>4 DEF S

LEMMA DailyIs ==
  ASSUME NEW days, NEW last \in Nat, last = Day(now) + 1 - Day(Cutoff(days))
  PROVE  \E u : /\ Lists(u, events, Since(events, Cutoff(days)), Day(Cutoff(days)), last)
                /\ DailyCosts(days) = u[last]
<1>. DEFINE I == Since(events, Cutoff(days))
            first == Day(Cutoff(days))
            u == CHOOSE v : Lists(v, events, I, first, last)
<1>1. DailyCosts(days) = u[last]
  BY DEF DailyCosts, Lists, OnDay
<1>2. Lists(u, events, I, first, last)
  BY ListsExist
<1>. HIDE DEF u
<1>. QED
  BY <1>1, <1>2

LEMMA CutoffIs ==
  ASSUME now \in Nat, NEW days \in Nat
  PROVE  /\ Cutoff(days) = IF now >= days * DayLength THEN now - days * DayLength ELSE 0
         /\ Cutoff(days) \in Nat /\ Cutoff(days) <= now
<1>1. PICK back \in Nat : back = days * DayLength
  BY DayHasParts
<1>2. now - back \in Int /\ 0 \in Int
  BY <1>1
<1>3. Max({0, now - back}) = IF 0 <= now - back THEN now - back ELSE 0
  BY <1>2, GreaterIs
<1>. QED
  BY <1>1, <1>3 DEF Cutoff

(* What daily_costs returns. *)
LEMMA DailyCostsAre ==
  ASSUME events \in Seq(Rows), now \in Nat, \A i \in DOMAIN events : events[i].at <= now,
         NEW days \in Nat
  PROVE  LET daily == DailyCosts(days)
             recent == {i \in DOMAIN events : events[i].at >= now - days * DayLength}
         IN  /\ daily \in Seq(Nat)
             /\ Total(daily) = Sum(events, recent)
             /\ Len(daily) = Cardinality({Day(events[i].at) : i \in recent})
             /\ Len(daily) <= days + 1
<1>. DEFINE daily == DailyCosts(days)
            recent == {i \in DOMAIN events : events[i].at >= now - days * DayLength}
            cut == Cutoff(days)
            first == Day(cut)
            last == Day(now) + 1 - first
<1>1. PICK back \in Nat : back = days * DayLength
  BY DayHasParts
<1>2. cut = (IF now >= back THEN now - back ELSE 0) /\ cut \in Nat /\ cut <= now
  BY <1>1, CutoffIs
<1>3. \A i \in DOMAIN events : events[i].at \in Nat
  <2>. TAKE i \in DOMAIN events
  <2>1. events[i] \in Rows
    OBVIOUS
  <2>. QED
    BY <2>1 DEF Rows
<1>4. Since(events, cut) = recent
  <2>1. \A i \in DOMAIN events : events[i].at >= cut <=> events[i].at >= now - days * DayLength
    BY <1>1, <1>2, <1>3
  <2>. QED
    BY <2>1 DEF Since
<1>5. Day(now) \in Nat /\ first \in Nat /\ first <= Day(now)
  BY <1>2, DayIs, DayGrows
<1>6. last \in Nat /\ last <= days + 1
  <2>1. CASE now >= back
    <3>1. cut = now - days * DayLength
      BY <1>1, <1>2, <2>1
    <3>2. Day(now) = first + days
      BY <1>2, <3>1, DayBefore
    <3>. QED
      BY <1>5, <3>2
  <2>2. CASE ~(now >= back)
    <3>1. cut = 0 /\ now <= days * DayLength
      BY <1>1, <1>2, <2>2
    <3>2. PICK a \in Nat, l \in Nat \ {0} : a = Day(now) /\ l = DayLength /\ a * l <= now
      BY DayIs, DayHasParts
    <3>3. a * l <= days * l
      BY <1>1, <2>2, <3>1, <3>2
    <3>4. a <= days
      BY <3>2, <3>3
    <3>. QED
      BY <1>5, <3>2, <3>4
  <2>. QED
    BY <2>1, <2>2
<1>7. recent \in SUBSET DOMAIN events
  OBVIOUS
<1>8. \A i \in recent : Day(events[i].at) \in Nat /\ Day(events[i].at) >= first /\ Day(events[i].at) <= Day(now)
  <2>. TAKE i \in recent
  <2>1. i \in DOMAIN events /\ events[i].at >= cut
    BY <1>4 DEF Since
  <2>2. events[i].at \in Nat /\ events[i].at <= now
    BY <1>3, <2>1
  <2>3. Day(events[i].at) \in Nat
    BY <2>2, DayIs
  <2>. QED
    BY <1>2, <1>5, <2>1, <2>2, <2>3, DayGrows
<1>. HIDE DEF first, last, cut, recent, daily
<1>9. PICK u : Lists(u, events, recent, first, last) /\ daily = u[last]
  <2>1. last = Day(now) + 1 - Day(Cutoff(days))
    BY DEF first, last, cut
  <2>. QED
    BY <1>4, <1>6, <2>1, DailyIs DEF first, cut, daily
<1>10. Lasts(daily, events, recent, first, last)
  BY <1>5, <1>6, <1>7, <1>8, <1>9, ListsLast
<1>11. UpToDay(events, recent, first + last) = recent
  <2>1. first + last = Day(now) + 1
    BY <1>5 DEF last
  <2>. QED
    BY <1>5, <1>8, <2>1 DEF UpToDay
<1>12. daily \in Seq(Nat) /\ Total(daily) = Sum(events, recent) /\ Len(daily) <= last
       /\ Len(daily) = Cardinality({Day(events[i].at) : i \in recent})
  BY <1>10, <1>11 DEF Lasts, DaysOf
<1>13. Len(daily) <= days + 1
  BY <1>6, <1>12
<1>. QED
  BY <1>12, <1>13 DEF daily, recent

-----------------------------------------------------------------------------
(* Forecasts *)

LEMMA TotalTyped == ASSUME NEW costs \in Seq(Nat) PROVE Total(costs) \in Nat
<1>. DEFINE n == Len(costs)
<1>1. n \in Nat /\ \A i \in 1..n : costs[i] \in Int /\ costs[i] >= 0
  OBVIOUS
<1>. HIDE DEF n
<1>2. SumTo(costs, n) \in Int /\ SumTo(costs, n) >= 0
  BY <1>1, SumTyped
<1>. QED
  BY <1>2 DEF Total, n

LEMMA SquareNotNegative == ASSUME NEW a \in Int PROVE a * a \in Int /\ a * a >= 0
<1>1. CASE a >= 0
  BY <1>1
<1>2. CASE a < 0
  BY <1>2
<1>. QED
  BY <1>1, <1>2

LEMMA ProductIsNat == ASSUME NEW a \in Nat, NEW b \in Nat PROVE a * b \in Nat
OBVIOUS

LEMMA SlopeTyped ==
  ASSUME NEW costs \in Seq(Nat)
  PROVE  Slope(costs).num \in Int /\ Slope(costs).den \in Nat
<1>1. PICK n \in Nat : n = Len(costs)
  OBVIOUS
<1>2. PICK total \in Nat : total = Total(costs)
  BY TotalTyped
<1>. DEFINE x(i) == 2 * (i - 1) - (n - 1)
            f == [i \in 1..n |-> x(i) * (n * costs[i] - total)]
            g == [i \in 1..n |-> x(i) * x(i)]
<1>3. ASSUME NEW i \in 1..n PROVE f[i] \in Int /\ g[i] \in Int /\ g[i] >= 0
  <2>1. PICK a \in Int : a = x(i)
    OBVIOUS
  <2>2. PICK c \in Nat : c = costs[i]
    BY <1>1
  <2>3. n * c - total \in Int
    OBVIOUS
  <2>4. a * (n * c - total) \in Int /\ a * a \in Int /\ a * a >= 0
    BY <2>3, SquareNotNegative
  <2>5. f[i] = a * (n * c - total) /\ g[i] = a * a
    BY <2>1, <2>2
  <2>. QED
    BY <2>4, <2>5
<1>4. Slope(costs) = [num |-> 2 * SumTo(f, n), den |-> n * SumTo(g, n)]
  BY <1>1, <1>2 DEF Slope
<1>. HIDE DEF f, g
<1>5. SumTo(f, n) \in Int
  BY <1>3, SumTyped
<1>6. SumTo(g, n) \in Nat
  <2>1. SumTo(g, n) \in Int /\ SumTo(g, n) >= 0
    BY <1>3, SumTyped
  <2>. QED
    BY <2>1
<1>7. n * SumTo(g, n) \in Nat
  BY <1>6, ProductIsNat
<1>. QED
  BY <1>4, <1>5, <1>7

LEMMA LineTyped ==
  ASSUME NEW costs \in Seq(Nat), NEW x \in Int
  PROVE  Line(costs, x) \in Int /\ Projected(costs, x) \in Int /\ Projected(costs, x) >= 0
<1>1. PICK n \in Nat, total \in Nat, num \in Int, den \in Nat :
         n = Len(costs) /\ total = Total(costs) /\ num = Slope(costs).num /\ den = Slope(costs).den
  <2>1. Len(costs) \in Nat
    OBVIOUS
  <2>. QED
    BY <2>1, TotalTyped, SlopeTyped
<1>2. Line(costs, x) = 2 * den * total + n * num * (2 * x - (n - 1))
  BY <1>1 DEF Line
<1>3. 2 * den * total \in Int /\ n * num \in Int /\ 2 * x - (n - 1) \in Int
  OBVIOUS
<1>4. Line(costs, x) \in Int
  BY <1>2, <1>3
<1>5. PICK zero \in Int : zero = 0
  OBVIOUS
<1>6. Projected(costs, x) = IF zero <= Line(costs, x) THEN Line(costs, x) ELSE zero
  BY <1>4, <1>5, GreaterIs DEF Projected
<1>. QED
  BY <1>4, <1>5, <1>6

LEMMA EstimatedTyped ==
  ASSUME NEW costs \in Seq(Nat), NEW remaining \in Nat
  PROVE  /\ Scale(costs) \in Nat /\ Total(costs) * Scale(costs) \in Nat
         /\ Estimated(costs, remaining) \in Int
         /\ Estimated(costs, remaining) >= Total(costs) * Scale(costs)
<1>1. Scale(costs) \in Nat
  <2>1. PICK n \in Nat, den \in Nat : n = Len(costs) /\ den = Slope(costs).den
    BY SlopeTyped
  <2>2. 2 * n * den \in Nat
    BY ProductIsNat
  <2>. QED
    BY <2>1, <2>2 DEF Scale
<1>2. Total(costs) * Scale(costs) \in Nat
  BY <1>1, TotalTyped, ProductIsNat
<1>. DEFINE f == [d \in 1..remaining |-> Projected(costs, Len(costs) + d - 1)]
<1>3. ASSUME NEW d \in 1..remaining PROVE f[d] \in Int /\ f[d] >= 0
  <2>1. PICK n \in Nat : n = Len(costs)
    OBVIOUS
  <2>2. PICK x \in Int : x = n + d - 1
    OBVIOUS
  <2>. QED
    BY <2>1, <2>2, LineTyped
<1>4. Estimated(costs, remaining) = Total(costs) * Scale(costs) + SumTo(f, remaining)
  BY DEF Estimated
<1>. HIDE DEF f
<1>5. SumTo(f, remaining) \in Int /\ SumTo(f, remaining) >= 0
  BY <1>3, SumTyped
<1>. QED
  BY <1>1, <1>2, <1>4, <1>5

(* A forecast lies between its bounds and above what was spent, for any     *)
(* margin; a trend is on the side of the mean that the line goes to.        *)
LEMMA ForecastBounds ==
  ASSUME NEW costs \in Seq(Nat), NEW remaining \in Nat, NEW margin \in Nat
  PROVE  LET f == Forecast(costs, remaining, margin)
         IN  /\ f.lower <= f.estimated /\ f.estimated <= f.upper
             /\ f.lower >= Total(costs) * Scale(costs)
             /\ f.trend = "rising" => Slope(costs).num > 0
             /\ f.trend = "falling" => Slope(costs).num < 0
<1>1. PICK e \in Int, t \in Nat : e = Estimated(costs, remaining) /\ t = Total(costs) * Scale(costs) /\ e >= t
  BY EstimatedTyped
<1>2. PICK num \in Int, den \in Nat : num = Slope(costs).num /\ den = Slope(costs).den
  BY SlopeTyped
<1>3. Max({e - margin, t}) = IF e - margin <= t THEN t ELSE e - margin
  BY GreaterIs
<1>. DEFINE f == Forecast(costs, remaining, margin)
<1>4. f = [estimated |-> e, lower |-> Max({e - margin, t}), upper |-> e + margin,
           trend |-> CASE 100 * num > den -> "rising"
                       [] 100 * num < -den -> "falling"
                       [] OTHER -> "stable"]
  BY <1>1, <1>2 DEF Forecast
<1>. HIDE DEF f
<1>5. f.estimated = e /\ f.lower = Max({e - margin, t}) /\ f.upper = e + margin
  BY <1>4
<1>6. f.trend = CASE 100 * num > den -> "rising"
                  [] 100 * num < -den -> "falling"
                  [] OTHER -> "stable"
  BY <1>4
<1>7. f.lower <= f.estimated /\ f.estimated <= f.upper /\ f.lower >= t
  BY <1>1, <1>3, <1>5
<1>8. (f.trend = "rising" => num > 0) /\ (f.trend = "falling" => num < 0)
  <2>1. CASE 100 * num > den
    BY <1>6, <2>1
  <2>2. CASE ~(100 * num > den) /\ 100 * num < -den
    BY <1>6, <2>2
  <2>3. CASE ~(100 * num > den) /\ ~(100 * num < -den)
    BY <1>6, <2>3
  <2>. QED
    BY <2>1, <2>2, <2>3
<1>. QED
  BY <1>1, <1>2, <1>7, <1>8 DEF f

LEMMA LineLeavesMean ==
  ASSUME NEW costs \in Seq(Nat), Len(costs) >= 1
  PROVE  LET mean == 2 * Slope(costs).den * Total(costs)
         IN  /\ Slope(costs).num > 0 => Line(costs, Len(costs)) > mean
             /\ Slope(costs).num < 0 => Line(costs, Len(costs)) < mean
<1>1. PICK n \in Nat, total \in Nat, num \in Int, den \in Nat :
         n = Len(costs) /\ total = Total(costs) /\ num = Slope(costs).num /\ den = Slope(costs).den
  <2>1. Len(costs) \in Nat
    OBVIOUS
  <2>. QED
    BY <2>1, TotalTyped, SlopeTyped
<1>2. PICK mean \in Int, p \in Int : mean = 2 * den * total /\ p = n * num
  OBVIOUS
<1>3. Line(costs, n) = mean + p * (n + 1)
  <2>1. Line(costs, n) = 2 * den * total + n * num * (2 * n - (n - 1))
    BY <1>1 DEF Line
  <2>2. 2 * n - (n - 1) = n + 1
    OBVIOUS
  <2>. QED
    BY <1>2, <2>1, <2>2
<1>4. n >= 1
  BY <1>1
<1>5. num > 0 => p * (n + 1) > 0
  <2>. SUFFICES ASSUME num > 0 PROVE p * (n + 1) > 0
    OBVIOUS
  <2>1. p > 0
    BY <1>2, <1>4
  <2>. QED
    BY <2>1
<1>6. num < 0 => p * (n + 1) < 0
  <2>. SUFFICES ASSUME num < 0 PROVE p * (n + 1) < 0
    OBVIOUS
  <2>1. p < 0
    BY <1>2, <1>4
  <2>. QED
    BY <2>1
<1>7. PICK q \in Int : q = p * (n + 1)
  OBVIOUS
<1>8. (num > 0 => mean + q > mean) /\ (num < 0 => mean + q < mean)
  BY <1>5, <1>6, <1>7
<1>. QED
  BY <1>1, <1>2, <1>3, <1>7, <1>8

-----------------------------------------------------------------------------
(* The ledger *)

(* Rows of the store have happened, a refresh has read no row that is not   *)
(* there, and a database has them all.                                      *)
LedgerInv ==
    /\ backend \in Backends /\ reset \in ResetDays /\ now \in Moments
    /\ events \in Seq(Rows) /\ paid \in Seq(Rows)
    /\ counter \in Nat
    /\ \A i \in DOMAIN events : events[i].at \in Moments /\ events[i].cost \in Amounts
    /\ \A i \in DOMAIN events : events[i].at <= now
    /\ read # None => read \in 0..Len(events)
    /\ backend # "memory" => events = paid

LEMMA LedgerInvInit == Open => LedgerInv
<1>. SUFFICES ASSUME Open PROVE LedgerInv
  OBVIOUS
<1>1. PICK m \in Moments : \A k \in Moments : m <= k
  BY LedgerIsNat, MomentsInCalendar, LeastOf
<1>2. \A k \in Moments : k \in Nat
  BY LedgerIsNat
<1>3. Min(Moments) \in Moments
  BY <1>1, <1>2 DEF Min
<1>4. <<>> \in Seq(Rows) /\ DOMAIN <<>> = {}
  OBVIOUS
<1>. QED
  BY <1>3, <1>4 DEF Open, LedgerInv

LEMMA LedgerInvStep == LedgerInv /\ [LedgerNext]_ledger => LedgerInv'
<1>. SUFFICES ASSUME LedgerInv, [LedgerNext]_ledger PROVE LedgerInv'
  OBVIOUS
<1>. USE DEF LedgerInv
<1>1. ASSUME NEW c \in Amounts, Record(c) PROVE LedgerInv'
  <2>. DEFINE e == [at |-> now, cost |-> c]
  <2>1. e \in Rows /\ e.at = now /\ e.cost = c
    BY LedgerIsNat DEF Rows
  <2>. HIDE DEF e
  <2>2. events' = Append(events, e) /\ paid' = Append(paid, e)
    BY <1>1 DEF Record, e
  <2>3. backend' = backend /\ reset' = reset /\ now' = now
    BY <1>1 DEF Record
  <2>4. events' \in Seq(Rows) /\ paid' \in Seq(Rows)
    BY <2>1, <2>2
  <2>5. \A i \in DOMAIN events' :
            /\ events'[i].at \in Moments /\ events'[i].cost \in Amounts
            /\ events'[i].at <= now'
    <3>. TAKE i \in DOMAIN events'
    <3>1. now \in Nat
      BY LedgerIsNat
    <3>2. i \in DOMAIN events => events'[i] = events[i]
      BY <2>2
    <3>3. i \notin DOMAIN events => events'[i] = e
      BY <2>2
    <3>. QED
      BY <2>1, <2>3, <3>1, <3>2, <3>3
  <2>6. counter' \in Nat
    <3>1. counter' = counter + c /\ c \in Nat
      BY <1>1, LedgerIsNat DEF Record
    <3>. QED
      BY <3>1
  <2>7. read' # None => read' \in 0..Len(events')
    <3>1. read' = read /\ Len(events') = Len(events) + 1
      BY <1>1, <2>2 DEF Record
    <3>. QED
      BY <3>1
  <2>. QED
    BY <2>2, <2>3, <2>4, <2>5, <2>6, <2>7
<1>2. CASE ReadRows
  BY <1>2 DEF ReadRows
<1>3. CASE Recalculate
  <2>. DEFINE I == Since(events, Starts[now][reset]) \cap 1..read
  <2>1. I \in SUBSET DOMAIN events
    BY DEF Since
  <2>. HIDE DEF I
  <2>2. counter' = Sum(events, I)
    BY <1>3 DEF Recalculate, I
  <2>3. counter' \in Nat
    BY <2>1, <2>2, RowsSum
  <2>. QED
    BY <1>3, <2>3 DEF Recalculate
<1>4. CASE Restart
  <2>1. <<>> \in Seq(Rows) /\ DOMAIN <<>> = {}
    OBVIOUS
  <2>. QED
    BY <1>4, <2>1 DEF Restart
<1>5. CASE Advance
  <2>1. /\ now' \in Moments /\ now' >= now
        /\ UNCHANGED <<backend, reset, events, counter, read, paid>>
    BY <1>5, LedgerIsNat DEF Advance
  <2>2. \A i \in DOMAIN events : events[i].at <= now'
    <3>. TAKE i \in DOMAIN events
    <3>1. events[i] \in Rows
      OBVIOUS
    <3>2. events[i].at \in Nat /\ now \in Nat /\ now' \in Nat
      BY <2>1, <3>1, LedgerIsNat DEF Rows
    <3>. QED
      BY <2>1, <3>2
  <2>. QED
    BY <2>1, <2>2
<1>6. CASE UNCHANGED ledger
  BY <1>6 DEF ledger
<1>. QED
  BY <1>1, <1>2, <1>3, <1>4, <1>5, <1>6 DEF LedgerNext

LEMMA LedgerIsSound == LedgerSpec => []LedgerInv
BY LedgerInvInit, LedgerInvStep, PTL DEF LedgerSpec

(* Rows have happened and cost what an event may cost, a refresh in progress *)
(* has read no row that is not there, and a database has every row that was *)
(* ever recorded, whatever was restarted (CostTracker::record and the stores). *)
THEOREM LedgerTypeCorrect == LedgerSpec => []LedgerTypeOK
<1>1. LedgerInv => LedgerTypeOK
  <2>. SUFFICES ASSUME LedgerInv PROVE LedgerTypeOK
    OBVIOUS
  <2>. USE DEF LedgerInv
  <2>1. \A e \in Range(events) : e.at \in Moments /\ e.at <= now /\ e.cost \in Amounts
    BY DEF Range, Rows
  <2>. QED
    BY <2>1 DEF LedgerTypeOK
<1>. QED
  BY <1>1, LedgerIsSound, PTL

(* The counter is recalculated from the latest reset on. *)
LEMMA StartsAtReset ==
  ASSUME NEW t \in Moments, NEW r \in ResetDays
  PROVE  Starts[t][r] = IF LateReset[t][r] THEN ResetsBefore[t][r] ELSE Resets[t][r]
<1>1. PICK n \in Nat : n = Day(t) /\ n >= 31
  <2>1. t \in Nat /\ t >= 31 * DayLength
    BY LedgerIsNat, MomentsInCalendar
  <2>2. PICK n \in Nat, l \in Nat \ {0} : n = Day(t) /\ l = DayLength /\ t < (n + 1) * l
    BY <2>1, DayIs, DayHasParts
  <2>3. 31 * l < (n + 1) * l
    BY <2>1, <2>2
  <2>4. 31 < n + 1
    BY <2>2, <2>3
  <2>. QED
    BY <2>2, <2>4
<1>2. r \in 1..31
  BY ResetDaysExist
<1>3. PeriodsMeet(n, r)
  BY <1>1, <1>2, EveryPeriodMeets
<1>4. /\ Starts[t][r] = DayLength * PeriodStart(n, r)
      /\ Resets[t][r] = DayLength * LatestReset(n, r)
      /\ ResetsBefore[t][r] = DayLength * LatestReset(n - 1, r)
      /\ LateReset[t][r] = (IsResetDay(n, r) /\ MonthIsShort(n, r))
  BY <1>1 DEF Starts, Resets, ResetsBefore, LateReset
<1>5. CASE IsResetDay(n, r) /\ MonthIsShort(n, r)
  BY <1>3, <1>4, <1>5 DEF PeriodsMeet
<1>6. CASE ~(IsResetDay(n, r) /\ MonthIsShort(n, r))
  BY <1>3, <1>4, <1>6 DEF PeriodsMeet
<1>. QED
  BY <1>5, <1>6

(* A refresh that no charge raced finds, after any restarts, what was paid  *)
(* since the latest reset, if the store outlives the process - but on the   *)
(* last day of a short month, what was paid since the one before            *)
(* (refresh_from_store, billing_period_start_ms).                           *)
THEOREM RefreshesRecover == LedgerSpec => RefreshRecovers
<1>. DEFINE start == IF LateReset[now][reset] THEN ResetsBefore[now][reset] ELSE Resets[now][reset]
            recovers == (Recalculate /\ backend # "memory" /\ read = Len(paid)) =>
                            counter' = Sum(paid, {i \in DOMAIN paid : paid[i].at >= start})
<1>1. LedgerInv /\ [LedgerNext]_ledger => [recovers]_ledger
  <2>. SUFFICES ASSUME LedgerInv, Recalculate, backend # "memory", read = Len(paid)
                PROVE  counter' = Sum(paid, {i \in DOMAIN paid : paid[i].at >= start})
    OBVIOUS
  <2>1. Starts[now][reset] = start
    BY StartsAtReset DEF LedgerInv
  <2>2. events = paid /\ paid \in Seq(Rows)
    BY DEF LedgerInv
  <2>3. counter' = Sum(paid, Since(paid, start) \cap 1..Len(paid))
    BY <2>1, <2>2 DEF Recalculate
  <2>. HIDE DEF start
  <2>4. Since(paid, start) \cap 1..Len(paid) = {i \in DOMAIN paid : paid[i].at >= start}
    BY <2>2 DEF Since
  <2>. QED
    BY <2>3, <2>4
<1>. QED
  BY <1>1, LedgerIsSound, PTL DEF LedgerSpec, RefreshRecovers

(* daily_costs loses nothing of the last days, has one value for each day  *)
(* with a cost, and at most one more than it was asked for (daily_costs of *)
(* the event stores).                                                      *)
THEOREM DailyCostsAreComplete == LedgerSpec => []DailyCostsComplete
<1>1. LedgerInv => DailyCostsComplete
  <2>. SUFFICES ASSUME LedgerInv PROVE DailyCostsComplete
    OBVIOUS
  <2>1. /\ events \in Seq(Rows) /\ now \in Nat /\ Horizon \in Nat
        /\ \A i \in DOMAIN events : events[i].at <= now
    BY LedgerIsNat DEF LedgerInv
  <2>. QED
    BY <2>1, DailyCostsAre DEF DailyCostsComplete
<1>. QED
  BY <1>1, LedgerIsSound, PTL

(* A forecast lies between its bounds and above what was spent, and its    *)
(* trend is the side of the mean to which the line projects the next day   *)
(* (CostForecaster::forecast, linear_regression).                          *)
THEOREM ForecastsAreSound == LedgerSpec => []ForecastSound
<1>1. LedgerInv => ForecastSound
  <2>. SUFFICES ASSUME LedgerInv PROVE ForecastSound
    OBVIOUS
  <2>1. /\ events \in Seq(Rows) /\ now \in Nat /\ Horizon \in Nat /\ now \in Moments
        /\ \A i \in DOMAIN events : events[i].at <= now
    BY LedgerIsNat DEF LedgerInv
  <2>2. PICK daily \in Seq(Nat) : daily = DailyCosts(Horizon)
    BY <2>1, DailyCostsAre
  <2>3. PICK remaining \in Nat : remaining = DaysLeft[now]
    <3>1. Day(now) \in Nat
      BY <2>1, DayIs
    <3>2. DaysLeft[now] = DaysUntilMonthEnd(Day(now))
      BY <2>1 DEF DaysLeft
    <3>. QED
      BY <3>1, <3>2, MonthEnds
  <2>4. Len(daily) >= 3 =>
          \A margin \in {0, Scale(daily), 100 * Scale(daily)} :
              LET f == Forecast(daily, remaining, margin)
                  mean == 2 * Slope(daily).den * Total(daily)
              IN  /\ f.lower <= f.estimated /\ f.estimated <= f.upper
                  /\ f.lower >= Total(daily) * Scale(daily)
                  /\ f.trend = "rising" => Line(daily, Len(daily)) > mean
                  /\ f.trend = "falling" => Line(daily, Len(daily)) < mean
    <3>. SUFFICES ASSUME Len(daily) >= 3, NEW margin \in {0, Scale(daily), 100 * Scale(daily)}
                  PROVE  LET f == Forecast(daily, remaining, margin)
                             mean == 2 * Slope(daily).den * Total(daily)
                         IN  /\ f.lower <= f.estimated /\ f.estimated <= f.upper
                             /\ f.lower >= Total(daily) * Scale(daily)
                             /\ f.trend = "rising" => Line(daily, Len(daily)) > mean
                             /\ f.trend = "falling" => Line(daily, Len(daily)) < mean
      OBVIOUS
    <3>1. margin \in Nat
      <4>1. PICK scale \in Nat : scale = Scale(daily)
        BY <2>3, EstimatedTyped
      <4>2. 100 * scale \in Nat
        OBVIOUS
      <4>. QED
        BY <4>1, <4>2
    <3>2. Len(daily) >= 1
      OBVIOUS
    <3>. QED
      BY <3>1, <3>2, ForecastBounds, LineLeavesMean
  <2>. QED
    BY <2>2, <2>3, <2>4 DEF ForecastSound
<1>. QED
  BY <1>1, LedgerIsSound, PTL

=============================================================================
