-------------------------- MODULE TieredCacheProofs --------------------------
(***************************************************************************)
(* Proofs about TieredCache, for every number of clients, every set of     *)
(* requests, measure of similarity, capacity and time-to-live: its types,  *)
(* how far the semantic tier outgrows its capacity, that sweeps remove     *)
(* only what has expired, how old an answer can be, and which requests it  *)
(* can be served to.                                                       *)
(***************************************************************************)
EXTENDS TieredCache, FiniteSetTheorems, WellFoundedInduction, TLAPS

LEMMA Sizes ==
  /\ Threshold \in Nat /\ SemMax \in Nat /\ SemTtl \in Nat /\ ExactTtl \in Nat
  /\ ExactMax \in Nat /\ MaxStores \in Nat /\ MaxHits \in Nat /\ MaxStall \in Nat
BY SizesAreNat

LEMMA MinOfTwo ==
  ASSUME NEW a \in Int, NEW b \in Int
  PROVE  Min({a, b}) = IF a <= b THEN a ELSE b
<1>. DEFINE m == IF a <= b THEN a ELSE b
<1>1. m \in {a, b} /\ \A y \in {a, b} : m <= y
  OBVIOUS
<1>2. \A x \in {a, b} : (\A y \in {a, b} : x <= y) => x = m
  OBVIOUS
<1>3. Min({a, b}) \in {a, b} /\ \A y \in {a, b} : Min({a, b}) <= y
  BY <1>1 DEF Min
<1>. QED
  BY <1>2, <1>3

(* A time that passes grows by one, up to its bound. *)
LEMMA OlderIs ==
  ASSUME NEW max \in Nat, NEW n \in 0..max
  PROVE  /\ Older(n, max) \in 0..max
         /\ Older(n, max) = IF n < max THEN n + 1 ELSE max
BY MinOfTwo DEF Older

-----------------------------------------------------------------------------
(* Types *)

(* The part of TypeOK that speaks of the exact tier. *)
ExactOK ==
    /\ DOMAIN exact \subseteq Range(Key)
    /\ \A k \in DOMAIN exact : exact[k] \in ExactEntry

(* The part that speaks of the semantic tier. *)
SemOK ==
    /\ DOMAIN sem \subseteq 0..nextId - 1
    /\ \A i \in DOMAIN sem : sem[i] \in SemanticEntry
    /\ nextId \in 0..MaxStores

(* The part that speaks of the calls, and: a store holds an answer. *)
JobsOK ==
    /\ pc \in [Clients -> Labels]
    /\ job \in [Clients -> Job]
    /\ \A p \in Clients : pc[p] \in Storing => job[p].of # None

AnswerOK == answer \in [req : Requests, of : Requests, old : 0..MaxOld] \cup {None}

CountOK == overtaken \in 0..nextId

(* Every store in progress has an id left for it. *)
StoringNow == {q \in Clients : pc[q] \in Storing}
Reserved == nextId + Cardinality(StoringNow) <= MaxStores

TypeInv == ExactOK /\ SemOK /\ JobsOK /\ AnswerOK /\ CountOK /\ Reserved

LEMMA TypeParts == TypeInv => TypeOK
BY DEF TypeInv, TypeOK, ExactOK, SemOK, JobsOK, AnswerOK, CountOK

LEMMA NewJobOK ==
  ASSUME NEW r \in Requests
  PROVE  NewJob(r) \in Job
BY Sizes DEF NewJob, Job, MaxOld

LEMMA NoJobOK == NoJob \in Job
BY RequestsExist, NewJobOK DEF NoJob

LEMMA KeyOK ==
  ASSUME NEW r \in Requests
  PROVE  Key[r] \in Range(Key)
BY DEF Key, Range

(* A client that goes to a typed label with typed locals keeps the calls typed. *)
LEMMA GotoOK ==
  ASSUME JobsOK, NEW p \in Clients, NEW label \in Labels, NEW locals \in Job,
         label \in Storing => locals.of # None, Goto(p, label, locals)
  PROVE  JobsOK'
BY DEF JobsOK, Goto

LEMMA ReturnOK ==
  ASSUME JobsOK, NEW p \in Clients, Return(p)
  PROVE  JobsOK'
BY NoJobOK, GotoOK DEF Return, Labels, Storing, Decided

LEMMA RemovingOK ==
  ASSUME JobsOK, NEW p \in Clients, NEW ids \in SUBSET Ids, NEW here \in Labels,
         NEW after \in Labels, NEW j \in Job,
         here \in Storing \/ after \in Storing => j.of # None,
         Removing(p, ids, here, after, j)
  PROVE  JobsOK'
<1>1. [j EXCEPT !.ids = ids] \in Job /\ [j EXCEPT !.ids = ids].of = j.of
  BY DEF Job
<1>. QED
  BY <1>1, GotoOK DEF Removing

(* The stores in progress are finitely many, and fewer of them need fewer ids. *)
LEMMA StoringCount ==
  /\ IsFiniteSet(StoringNow) /\ Cardinality(StoringNow) \in Nat
BY ClientsFinite, FS_Subset, FS_CardinalityType DEF StoringNow

LEMMA NoMoreStores ==
  ASSUME Reserved, StoringNow' \subseteq StoringNow, UNCHANGED nextId, nextId \in Nat
  PROVE  Reserved'
<1>1. Cardinality(StoringNow') <= Cardinality(StoringNow) /\ Cardinality(StoringNow') \in Nat
  BY StoringCount, FS_Subset, FS_CardinalityType
<1>. QED
  BY <1>1, StoringCount, Sizes DEF Reserved

(* A client that was storing, or is not now, adds no store. *)
LEMMA GotoReserves ==
  ASSUME Reserved, JobsOK, NEW p \in Clients, NEW label, NEW locals,
         Goto(p, label, locals), label \in Storing => pc[p] \in Storing,
         UNCHANGED nextId, nextId \in Nat
  PROVE  Reserved'
<1>1. StoringNow' \subseteq StoringNow
  BY DEF Goto, StoringNow, JobsOK
<1>. QED
  BY <1>1, NoMoreStores

LEMMA RemovingReserves ==
  ASSUME Reserved, JobsOK, NEW p \in Clients, NEW ids, NEW here, NEW after, NEW j,
         Removing(p, ids, here, after, j),
         here \in Storing \/ after \in Storing => pc[p] \in Storing,
         UNCHANGED nextId, nextId \in Nat
  PROVE  Reserved'
BY GotoReserves DEF Removing

(* An answer enters the exact tier typed. *)
LEMMA ExactInsertOK ==
  ASSUME ExactOK, NEW r \in Requests, NEW j \in Job, j.of # None, ExactInsert(r, j)
  PROVE  ExactOK'
<1>. DEFINE e == [of |-> j.of, age |-> 0, old |-> j.old]
<1>1. e \in ExactEntry
  BY Sizes DEF Job, ExactEntry
<1>2. PICK K \in SUBSET (DOMAIN exact \ {Key[r]}) : exact' = With(Without(exact, K), Key[r], e)
  BY DEF ExactInsert
<1>3. DOMAIN exact' = (DOMAIN exact \ K) \cup {Key[r]}
  BY <1>2 DEF With, Without
<1>4. \A k \in DOMAIN exact' : exact'[k] = e \/ (k \in DOMAIN exact /\ exact'[k] = exact[k])
  BY <1>2, <1>3 DEF With, Without
<1>. QED
  BY <1>1, <1>3, <1>4, KeyOK DEF ExactOK

LEMMA TypeInit == Init => TypeInv
<1>. SUFFICES ASSUME Init PROVE TypeInv
  OBVIOUS
<1>1. StoringNow = {}
  BY DEF Init, StoringNow, Storing, Decided
<1>2. Reserved
  BY <1>1, FS_EmptySet, Sizes DEF Init, Reserved
<1>3. JobsOK
  BY NoJobOK DEF Init, JobsOK, Labels, Storing, Decided
<1>4. ExactOK /\ SemOK
  BY Sizes DEF Init, ExactOK, SemOK
<1>5. AnswerOK /\ CountOK
  BY DEF Init, AnswerOK, CountOK
<1>. QED
  BY <1>2, <1>3, <1>4, <1>5 DEF TypeInv

(* The start of a lookup keeps the types. *)
LEMMA LookupTyped ==
  ASSUME TypeInv, NEW p \in Clients, NEW r \in Requests, ExactHit(p, r) \/ ExactMiss(p, r)
  PROVE  TypeInv'
<1>. USE DEF TypeInv
<1>1. CASE ExactHit(p, r)
  <2>1. AnswerOK'
    BY <1>1 DEF ExactHit, Answer, AnswerOK, ExactOK, ExactEntry
  <2>2. Reserved'
    BY <1>1 DEF ExactHit, Reserved, StoringNow
  <2>. QED
    BY <1>1, <2>1, <2>2 DEF ExactHit, ExactOK, SemOK, JobsOK, CountOK
<1>2. CASE ExactMiss(p, r)
  <2>1. JobsOK' /\ Reserved'
    BY <1>2, NewJobOK, NoJobOK, GotoOK, GotoReserves
       DEF ExactMiss, Miss, Return, Labels, Storing, Decided, SemOK
  <2>2. AnswerOK'
    BY <1>2 DEF ExactMiss, Miss, AnswerOK
  <2>. QED
    BY <1>2, <2>1, <2>2 DEF ExactMiss, ExactOK, SemOK, CountOK
<1>. QED
  BY <1>1, <1>2

LEMMA ScanTyped ==
  ASSUME TypeInv, NEW p \in Clients, Scan(p)
  PROVE  TypeInv'
<1>. USE DEF TypeInv
<1>. DEFINE r == job[p].req
            expired == {i \in DOMAIN sem : Expired(i)}
<1>1. PICK C \in Records(r) :
         /\ sem' = [i \in DOMAIN sem |-> IF i \in C THEN CountHit(sem[i]) ELSE sem[i]]
         /\ \/ Removing(p, expired, "sweep", "promote", job[p])
            \/ \E i \in C : Removing(p, expired, "sweep", "promote",
                                  [job[p] EXCEPT !.of = sem[i].of, !.old = sem[i].old])
  BY DEF Scan
<1>2. C \subseteq DOMAIN sem
  BY DEF Records, Candidates
<1>3. job[p] \in Job /\ expired \in SUBSET Ids
  BY Sizes DEF JobsOK, SemOK, Ids
<1>4. \A i \in C : [job[p] EXCEPT !.of = sem[i].of, !.old = sem[i].old] \in Job
  BY <1>2, <1>3 DEF Job, SemOK, SemanticEntry
<1>5. JobsOK'
  BY <1>1, <1>3, <1>4, RemovingOK DEF Labels, Storing, Decided
<1>6. UNCHANGED <<exact, nextId, overtaken>> /\ answer' = None /\ pc[p] = "scan"
  BY DEF Scan
<1>7. Reserved'
  <2>1. nextId \in Nat /\ UNCHANGED nextId /\ {"sweep", "promote"} \cap Storing = {}
    BY <1>6 DEF SemOK, Storing, Decided
  <2>. QED
    BY <1>1, <2>1, RemovingReserves
<1>8. \A e \in SemanticEntry : CountHit(e) \in SemanticEntry
  <2>. SUFFICES ASSUME NEW e \in SemanticEntry PROVE CountHit(e) \in SemanticEntry
    OBVIOUS
  <2>1. Min({e.hits + 1, MaxHits}) \in 0..MaxHits
    BY Sizes, MinOfTwo DEF SemanticEntry
  <2>. QED
    BY <2>1 DEF CountHit, SemanticEntry
<1>9. SemOK'
  BY <1>1, <1>6, <1>8 DEF SemOK
<1>. QED
  BY <1>5, <1>6, <1>7, <1>9 DEF ExactOK, AnswerOK, CountOK

LEMMA RemoveTyped ==
  ASSUME TypeInv, NEW p \in Clients, Sweep(p) \/ EvictExpired(p) \/ EvictLeast(p)
  PROVE  TypeInv'
<1>. USE DEF TypeInv
<1>1. ASSUME NEW here \in Labels, NEW after \in Labels, RemoveOne(p, here, after),
             here \in Storing <=> after \in Storing
      PROVE  TypeInv'
  <2>1. PICK i \in job[p].ids : /\ sem' = Without(sem, {i})
                                /\ Removing(p, job[p].ids \ {i}, here, after, job[p])
    BY <1>1 DEF RemoveOne
  <2>2. job[p] \in Job /\ job[p].ids \ {i} \in SUBSET Ids /\ pc[p] = here
    BY <1>1 DEF JobsOK, Job, RemoveOne
  <2>3. here \in Storing \/ after \in Storing => job[p].of # None
    BY <1>1, <2>2 DEF JobsOK
  <2>4. JobsOK'
    BY <1>1, <2>1, <2>2, <2>3, RemovingOK
  <2>5. UNCHANGED <<exact, nextId, overtaken>> /\ answer' = None
    BY <1>1 DEF RemoveOne
  <2>6. Reserved'
    BY <1>1, <2>1, <2>2, <2>5, GotoReserves DEF Removing, SemOK
  <2>7. SemOK'
    BY <2>1, <2>5 DEF SemOK, Without
  <2>. QED
    BY <2>4, <2>5, <2>6, <2>7 DEF ExactOK, AnswerOK, CountOK
<1>. QED
  BY <1>1 DEF Sweep, EvictExpired, EvictLeast, Labels, Storing, Decided

LEMMA PromoteTyped ==
  ASSUME TypeInv, NEW p \in Clients, Promote(p)
  PROVE  TypeInv'
<1>. USE DEF TypeInv
<1>1. Return(p) /\ pc[p] = "promote" /\ UNCHANGED <<sem, nextId, overtaken>>
  BY DEF Promote, Miss
<1>2. JobsOK' /\ Reserved'
  BY <1>1, ReturnOK, GotoReserves DEF Return, Storing, Decided, SemOK
<1>3. job[p] \in Job /\ job[p].req \in Requests
  BY DEF JobsOK, Job
<1>4. ExactOK'
  <2>1. CASE job[p].of = None
    BY <2>1 DEF Promote, ExactOK
  <2>2. CASE job[p].of # None
    BY <1>3, <2>2, ExactInsertOK DEF Promote
  <2>. QED
    BY <2>1, <2>2
<1>5. AnswerOK'
  <2>1. CASE job[p].of = None
    BY <2>1 DEF Promote, Miss, AnswerOK
  <2>2. CASE job[p].of # None
    BY <1>3, <2>2 DEF Promote, Answer, AnswerOK, Job
  <2>. QED
    BY <2>1, <2>2
<1>. QED
  BY <1>1, <1>2, <1>4, <1>5 DEF SemOK, CountOK

(* The start of a store, which reserves an id, keeps the types. *)
LEMMA StoreTyped ==
  ASSUME TypeInv, NEW p \in Clients, NEW r \in Requests, Store(p, r)
  PROVE  TypeInv'
<1>. USE DEF TypeInv
<1>. DEFINE j == [NewJob(r) EXCEPT !.of = r]
<1>1. j \in Job /\ j.of # None
  BY NewJobOK, NoneIsNoRequest DEF NewJob, Job
<1>2. JobsOK'
  BY <1>1, GotoOK DEF Store, Labels, Storing
<1>3. StoringNow' = StoringNow \cup {p}
  BY DEF Store, Goto, StoringNow, JobsOK, Storing
<1>4. Cardinality(StoringNow') <= Cardinality(StoringNow) + 1 /\ Cardinality(StoringNow') \in Nat
  <2>1. Cardinality(StoringNow \cup {p}) \in {Cardinality(StoringNow), Cardinality(StoringNow) + 1}
    BY StoringCount, FS_AddElement
  <2>. QED
    BY <1>3, <2>1, StoringCount
<1>5. Reserved'
  BY <1>4, StoringCount, Sizes DEF Store, StoringNow, Reserved, SemOK
<1>. QED
  BY <1>2, <1>5 DEF Store, ExactOK, SemOK, AnswerOK, CountOK

LEMMA StoreExactTyped ==
  ASSUME TypeInv, NEW p \in Clients, StoreExact(p)
  PROVE  TypeInv'
<1>. USE DEF TypeInv
<1>1. /\ job[p] \in Job /\ job[p].req \in Requests /\ job[p].of # None
      /\ pc[p] \in Storing
  BY DEF JobsOK, Job, StoreExact, Storing
<1>2. ExactOK'
  BY <1>1, ExactInsertOK DEF StoreExact
<1>3. JobsOK' /\ Reserved'
  BY <1>1, NoJobOK, GotoOK, GotoReserves
     DEF StoreExact, Return, Labels, Storing, Decided, SemOK
<1>. QED
  BY <1>2, <1>3 DEF StoreExact, SemOK, AnswerOK, CountOK

(* The length checks and the choice of victims keep the types. *)
LEMMA EvictTyped ==
  ASSUME TypeInv, NEW p \in Clients, CheckLength(p) \/ FindExpired(p) \/ FindLeast(p)
  PROVE  TypeInv'
<1>. USE DEF TypeInv
<1>1. job[p] \in Job /\ job[p].of # None /\ pc[p] \in Storing
  BY DEF JobsOK, CheckLength, FindExpired, FindLeast, Storing, Decided
<1>2. DOMAIN sem \subseteq Ids
  BY Sizes DEF SemOK, Ids
<1>3. JobsOK' /\ Reserved'
  <2>1. CASE CheckLength(p)
    <3>1. PICK label \in {"put", "findExpired", "findLeast"} : Goto(p, label, job[p])
      BY <2>1 DEF CheckLength
    <3>2. UNCHANGED nextId
      BY <2>1 DEF CheckLength
    <3>. QED
      BY <1>1, <3>1, <3>2, GotoOK, GotoReserves DEF Labels, Storing, Decided, SemOK
  <2>2. CASE FindExpired(p)
    <3>1. {i \in DOMAIN sem : Expired(i)} \in SUBSET Ids
      BY <1>2
    <3>2. JobsOK'
      BY <1>1, <2>2, <3>1, RemovingOK DEF FindExpired, Labels, Storing, Decided
    <3>. QED
      BY <1>1, <2>2, <3>2, GotoReserves
         DEF FindExpired, Removing, Storing, Decided, SemOK
  <2>3. CASE FindLeast(p)
    <3>1. Goto(p, "put", job[p]) \/ \E i \in DOMAIN sem : Removing(p, {i}, "evictLeast", "put", job[p])
      BY <2>3 DEF FindLeast
    <3>2. UNCHANGED nextId /\ nextId \in Nat
      BY <2>3 DEF FindLeast, SemOK
    <3>3. CASE Goto(p, "put", job[p])
      BY <1>1, <3>2, <3>3, GotoOK, GotoReserves DEF Labels, Storing, Decided
    <3>4. ASSUME NEW i \in DOMAIN sem, Removing(p, {i}, "evictLeast", "put", job[p])
          PROVE  JobsOK' /\ Reserved'
      <4>1. {i} \in SUBSET Ids /\ {"evictLeast", "put"} \subseteq Storing \cap Labels
        BY <1>2 DEF Labels, Storing, Decided
      <4>. QED
        BY <1>1, <3>2, <3>4, <4>1, RemovingOK, RemovingReserves
    <3>. QED
      BY <3>1, <3>3, <3>4
  <2>. QED
    BY <2>1, <2>2, <2>3
<1>. QED
  BY <1>3 DEF CheckLength, FindExpired, FindLeast, ExactOK, SemOK, AnswerOK, CountOK

LEMMA PutTyped ==
  ASSUME TypeInv, NEW p \in Clients, Put(p)
  PROVE  TypeInv'
<1>. USE DEF TypeInv
<1>. DEFINE e == [asked |-> job[p].req, of |-> job[p].of, hits |-> 0, age |-> 0, old |-> job[p].old]
<1>1. job[p] \in Job /\ job[p].of # None /\ p \in StoringNow
  BY DEF JobsOK, Put, Storing, Decided, StoringNow
<1>2. e \in SemanticEntry
  BY <1>1, Sizes DEF Job, SemanticEntry
<1>3. pc' = [pc EXCEPT ![p] = "idle"] /\ nextId' = nextId + 1
  BY DEF Put, TakeId
<1>4. JobsOK'
  <2>1. \A q \in Clients : /\ job'[q] \in Job
                           /\ q # p => job'[q].of = job[q].of
    BY NoJobOK DEF Put, JobsOK, Job
  <2>2. job' \in [Clients -> Job]
    BY <2>1 DEF Put
  <2>. QED
    BY <1>3, <2>1, <2>2 DEF JobsOK, Labels, Storing, Decided
<1>5. StoringNow' = StoringNow \ {p}
  BY <1>3 DEF JobsOK, StoringNow, Storing, Decided
<1>6. Cardinality(StoringNow') = Cardinality(StoringNow) - 1
  BY <1>1, <1>5, StoringCount, FS_RemoveElement
<1>7. Reserved'
  BY <1>3, <1>6, StoringCount, Sizes DEF Reserved, SemOK
<1>8. Cardinality(StoringNow) >= 1
  <2>1. IsFiniteSet(StoringNow \ {p})
    BY StoringCount, FS_RemoveElement
  <2>. QED
    BY <1>5, <1>6, <2>1, StoringCount, FS_CardinalityType
<1>9. nextId' \in 0..MaxStores
  BY <1>3, <1>8, StoringCount, Sizes DEF Reserved, SemOK
<1>10. SemOK'
  <2>1. sem' = With(sem, nextId, e)
    BY DEF Put
  <2>. QED
    BY <1>2, <1>3, <1>9, <2>1 DEF SemOK, With
<1>11. CountOK'
  BY <1>3 DEF Put, CountOK, SemOK
<1>. QED
  BY <1>4, <1>7, <1>10, <1>11 DEF Put, ExactOK, AnswerOK

LEMMA TickTyped ==
  ASSUME TypeInv, Tick
  PROVE  TypeInv'
<1>. USE DEF TypeInv
<1>1. UNCHANGED <<nextId, pc, overtaken>> /\ answer' = None
  BY DEF Tick
<1>2. MaxOld \in Nat /\ SemTtl + 1 \in Nat
  BY Sizes DEF MaxOld
<1>3. SemOK'
  <2>1. DOMAIN sem' = DOMAIN sem
    BY DEF Tick
  <2>2. \A i \in DOMAIN sem :
           sem'[i] = [sem[i] EXCEPT !.age = Older(@, SemTtl + 1), !.old = Older(@, MaxOld)]
    BY DEF Tick
  <2>3. \A i \in DOMAIN sem : sem'[i] \in SemanticEntry
    <3>. SUFFICES ASSUME NEW i \in DOMAIN sem PROVE sem'[i] \in SemanticEntry
      OBVIOUS
    <3>1. sem[i] \in SemanticEntry
      BY DEF SemOK
    <3>2. Older(sem[i].age, SemTtl + 1) \in 0..SemTtl + 1 /\ Older(sem[i].old, MaxOld) \in 0..MaxOld
      BY <1>2, <3>1, OlderIs DEF SemanticEntry
    <3>. QED
      BY <2>2, <3>1, <3>2 DEF SemanticEntry
  <2>. QED
    BY <1>1, <2>1, <2>3 DEF SemOK
<1>4. ExactOK'
  <2>1. DOMAIN exact' = {k \in DOMAIN exact : exact[k].age < ExactTtl}
    BY DEF Tick
  <2>2. \A k \in DOMAIN exact' :
           exact'[k] = [exact[k] EXCEPT !.age = @ + 1, !.old = Older(@, MaxOld)]
    BY DEF Tick
  <2>3. ASSUME NEW k \in DOMAIN exact' PROVE exact'[k] \in ExactEntry
    <3>1. exact[k] \in ExactEntry /\ exact[k].age < ExactTtl
      BY <2>1 DEF ExactOK
    <3>2. Older(exact[k].old, MaxOld) \in 0..MaxOld
      BY <1>2, <3>1, OlderIs DEF ExactEntry
    <3>3. exact[k].age + 1 \in 0..ExactTtl
      BY <3>1, Sizes DEF ExactEntry
    <3>. QED
      BY <2>2, <3>1, <3>2, <3>3 DEF ExactEntry
  <2>. QED
    BY <2>1, <2>3 DEF ExactOK
<1>5. JobsOK'
  <2>1. ASSUME NEW p \in Clients PROVE job'[p] \in Job /\ job'[p].of = job[p].of
    <3>1. job[p] \in Job
      BY DEF JobsOK
    <3>2. Older(job[p].old, MaxOld) \in 0..MaxOld
      BY <1>2, <3>1, OlderIs DEF Job
    <3>3. CASE pc[p] = "idle"
      BY <3>1, <3>3 DEF Tick
    <3>4. CASE pc[p] # "idle"
      <4>1. job[p].held + 1 \in 0..MaxStall
        <5>1. job[p].held < MaxStall
          BY <3>4 DEF Tick
        <5>2. job[p].held \in 0..MaxStall
          BY <3>1 DEF Job
        <5>. QED
          BY <5>1, <5>2, Sizes
      <4>. DEFINE o == IF job[p].of = None THEN 0 ELSE Older(job[p].old, MaxOld)
      <4>2. job'[p] = [job[p] EXCEPT !.held = @ + 1, !.old = o]
        BY <3>4 DEF Tick
      <4>3. o \in 0..MaxOld
        BY <1>2, <3>2
      <4>. HIDE DEF o
      <4>. QED
        BY <3>1, <4>1, <4>2, <4>3 DEF Job
    <3>. QED
      BY <3>3, <3>4
  <2>2. job' \in [Clients -> Job]
    BY <2>1 DEF Tick
  <2>. QED
    BY <1>1, <2>1, <2>2 DEF JobsOK
<1>6. Reserved'
  BY <1>1 DEF Reserved, StoringNow
<1>. QED
  BY <1>1, <1>3, <1>4, <1>5, <1>6 DEF AnswerOK, CountOK

LEMMA TypeStep == TypeInv /\ [Next]_vars => TypeInv'
<1>1. TypeInv /\ Next => TypeInv'
  BY LookupTyped, ScanTyped, RemoveTyped, PromoteTyped, StoreTyped, StoreExactTyped,
     EvictTyped, PutTyped, TickTyped DEF Next, Call, Work
<1>2. TypeInv /\ UNCHANGED vars => TypeInv'
  BY DEF vars, TypeInv, ExactOK, SemOK, JobsOK, AnswerOK, CountOK, Reserved, StoringNow
<1>. QED
  BY <1>1, <1>2

LEMMA TypeInvariant == Spec => []TypeInv
BY TypeInit, TypeStep, PTL DEF Spec

(* Both tiers, the calls in progress and the answers keep their types, and   *)
(* every id in the semantic tier has been given out (SemanticCache.next_id). *)
THEOREM TypeCorrect == Spec => []TypeOK
BY TypeInvariant, TypeParts, PTL

-----------------------------------------------------------------------------
(* What a step of one client leaves alone *)

LEMMA Others ==
  ASSUME JobsOK, NEW p \in Clients, NEW q \in Clients \ {p}, Call(p) \/ Work(p)
  PROVE  /\ pc'[q] = pc[q]
         /\ job'[q].req = job[q].req /\ job'[q].of = job[q].of
         /\ job'[q].old = job[q].old /\ job'[q].held = job[q].held
         /\ job'[q].ids = job[q].ids
         /\ ~Put(p) => job'[q].late = job[q].late
         /\ Put(p) /\ pc[q] \in Decided => job'[q].late = TRUE
<1>1. job[q] \in Job
  BY DEF JobsOK
<1>2. CASE Put(p)
  <2>1. pc'[q] = pc[q]
    BY <1>2 DEF Put, JobsOK
  <2>2. job'[q] = IF pc[q] \in Decided THEN [job[q] EXCEPT !.late = TRUE] ELSE job[q]
    BY <1>2 DEF Put
  <2>. QED
    BY <1>1, <1>2, <2>1, <2>2 DEF Job
<1>3. CASE ~Put(p)
  <2>1. pc'[q] = pc[q] /\ job'[q] = job[q]
    <3>1. CASE Call(p)
      BY <3>1 DEF Call, ExactHit, ExactMiss, Store, Miss, Return, Goto, JobsOK
    <3>2. CASE Scan(p)
      BY <3>2 DEF Scan, Removing, Goto, JobsOK
    <3>3. CASE Sweep(p) \/ EvictExpired(p) \/ EvictLeast(p)
      BY <3>3 DEF Sweep, EvictExpired, EvictLeast, RemoveOne, Removing, Goto, JobsOK
    <3>4. CASE Promote(p) \/ StoreExact(p)
      BY <3>4 DEF Promote, StoreExact, Miss, Return, Goto, JobsOK
    <3>5. CASE CheckLength(p) \/ FindExpired(p) \/ FindLeast(p)
      BY <3>5 DEF CheckLength, FindExpired, FindLeast, Removing, Goto, JobsOK
    <3>. QED
      BY <1>3, <3>1, <3>2, <3>3, <3>4, <3>5 DEF Work
  <2>. QED
    BY <1>3, <2>1
<1>. QED
  BY <1>2, <1>3

(* An entry of the semantic tier is put once, under a new id: from then on   *)
(* its question and its answer stay, only its hits are counted, and it only *)
(* grows older.                                                             *)
LEMMA SemSteps ==
  ASSUME TypeInv, [Next]_vars, NEW i \in DOMAIN sem', i # nextId
  PROVE  /\ i \in DOMAIN sem
         /\ sem'[i].asked = sem[i].asked /\ sem'[i].of = sem[i].of
         /\ Tick => /\ sem'[i].age = Older(sem[i].age, SemTtl + 1)
                    /\ sem'[i].old = Older(sem[i].old, MaxOld)
         /\ ~Tick => sem'[i].age = sem[i].age /\ sem'[i].old = sem[i].old
<1>1. \A k \in DOMAIN sem : sem[k] \in SemanticEntry
  BY DEF TypeInv, SemOK
<1>2. CASE Tick
  <2>1. i \in DOMAIN sem
    BY <1>2 DEF Tick
  <2>2. sem'[i] = [sem[i] EXCEPT !.age = Older(@, SemTtl + 1), !.old = Older(@, MaxOld)]
    BY <1>2, <2>1 DEF Tick
  <2>. QED
    BY <1>1, <1>2, <2>1, <2>2 DEF SemanticEntry
<1>3. CASE ~Tick
  <2>. SUFFICES /\ i \in DOMAIN sem
                /\ sem'[i].asked = sem[i].asked /\ sem'[i].of = sem[i].of
                /\ sem'[i].age = sem[i].age /\ sem'[i].old = sem[i].old
    BY <1>3
  <2>. DEFINE kept == i \in DOMAIN sem /\ (sem'[i] = sem[i] \/ sem'[i] = CountHit(sem[i]))
  <2>1. ASSUME NEW p \in Clients, Put(p)
        PROVE  kept
    BY <2>1 DEF Put, With
  <2>2. ASSUME NEW p \in Clients, Sweep(p) \/ EvictExpired(p) \/ EvictLeast(p)
        PROVE  kept
    BY <2>2 DEF Sweep, EvictExpired, EvictLeast, RemoveOne, Without
  <2>3. ASSUME NEW p \in Clients, Scan(p)
        PROVE  kept
    BY <2>3 DEF Scan
  <2>4. ASSUME NEW p \in Clients,
               \/ Call(p) \/ Promote(p) \/ StoreExact(p) \/ CheckLength(p)
               \/ FindExpired(p) \/ FindLeast(p)
        PROVE  kept
    BY <2>4 DEF Call, ExactHit, ExactMiss, Store, Promote, StoreExact, CheckLength,
       FindExpired, FindLeast
  <2>5. UNCHANGED vars => kept
    BY DEF vars
  <2>6. kept
    <3>. HIDE DEF kept
    <3>1. CASE ~UNCHANGED vars
      <4>1. Next
        BY <3>1
      <4>2. PICK p \in Clients : Call(p) \/ Work(p)
        BY <1>3, <4>1 DEF Next
      <4>. QED
        BY <2>1, <2>2, <2>3, <2>4, <4>2 DEF Work
    <3>. QED
      BY <2>5, <3>1
  <2>. QED
    BY <1>1, <2>6 DEF CountHit, SemanticEntry
<1>. QED
  BY <1>2, <1>3

(* Ids are given out and never taken back. *)
LEMMA IdsRise ==
  ASSUME TypeInv, [Next]_vars
  PROVE  nextId \in Nat /\ nextId' \in Nat /\ nextId <= nextId'
<1>1. nextId \in Nat
  BY DEF TypeInv, SemOK
<1>. DEFINE rises == nextId' = nextId \/ nextId' = nextId + 1
<1>2. ASSUME NEW p \in Clients, Call(p) \/ Work(p) PROVE rises
  <2>1. CASE Call(p)
    BY <2>1 DEF Call, ExactHit, ExactMiss, Store
  <2>2. CASE Put(p)
    BY <2>2 DEF Put, TakeId
  <2>3. CASE Sweep(p) \/ EvictExpired(p) \/ EvictLeast(p)
    BY <2>3 DEF Sweep, EvictExpired, EvictLeast, RemoveOne
  <2>4. CASE \/ Scan(p) \/ Promote(p) \/ StoreExact(p) \/ CheckLength(p)
             \/ FindExpired(p) \/ FindLeast(p)
    BY <2>4 DEF Scan, Promote, StoreExact, CheckLength, FindExpired, FindLeast
  <2>. QED
    BY <1>2, <2>1, <2>2, <2>3, <2>4 DEF Work
<1>3. Tick => rises
  BY DEF Tick
<1>4. UNCHANGED vars => rises
  BY DEF vars
<1>5. rises
  <2>. HIDE DEF rises
  <2>. QED
    BY <1>2, <1>3, <1>4 DEF Next
<1>. QED
  BY <1>1, <1>5

-----------------------------------------------------------------------------
(* Sweeps *)

(* The ids given out whose entry has gone or has expired. *)
Gone == {i \in 0..nextId - 1 : i \in DOMAIN sem => sem[i].age > SemTtl}

Sweeping == {"sweep", "evictExpired"}

(* What a sweep still has to remove is, whatever happened since its scan,    *)
(* expired or no longer there.                                               *)
SweepInv == \A p \in Clients : pc[p] \in Sweeping => job[p].ids \subseteq Gone

(* No id is used again and no hit renews an entry. *)
LEMMA GoneForGood ==
  ASSUME TypeInv, [Next]_vars
  PROVE  Gone \subseteq Gone'
<1>. SUFFICES ASSUME NEW i \in Gone, i \in DOMAIN sem'
              PROVE  sem'[i].age > SemTtl
  BY IdsRise DEF Gone
<1>1. i # nextId
  BY IdsRise DEF Gone
<1>2. i \in DOMAIN sem /\ sem[i].age > SemTtl /\ sem[i].age \in 0..SemTtl + 1
  BY <1>1, SemSteps DEF Gone, TypeInv, SemOK, SemanticEntry
<1>3. SemTtl + 1 \in Nat
  BY Sizes
<1>4. sem'[i].age = sem[i].age \/ sem'[i].age = Older(sem[i].age, SemTtl + 1)
  BY <1>1, SemSteps
<1>. QED
  BY <1>2, <1>3, <1>4, OlderIs, Sizes

LEMMA ExpiredAreGone == TypeInv => {i \in DOMAIN sem : Expired(i)} \subseteq Gone
BY DEF TypeInv, SemOK, Gone, Expired

(* What a tick does to the locals of a call. *)
LEMMA TickJob ==
  ASSUME JobsOK, Tick, NEW q \in Clients
  PROVE  /\ pc'[q] = pc[q]
         /\ job'[q].req = job[q].req /\ job'[q].of = job[q].of
         /\ job'[q].ids = job[q].ids /\ job'[q].late = job[q].late
         /\ pc[q] = "idle" => job'[q] = job[q]
         /\ pc[q] # "idle" =>
               /\ job[q].held < MaxStall /\ job'[q].held = job[q].held + 1
               /\ job'[q].old = IF job[q].of = None THEN 0 ELSE Older(job[q].old, MaxOld)
<1>1. job[q] \in Job /\ pc' = pc
  BY DEF JobsOK, Tick
<1>2. pc[q] = "idle" => job'[q] = job[q]
  BY DEF Tick
<1>. DEFINE o == IF job[q].of = None THEN 0 ELSE Older(job[q].old, MaxOld)
<1>3. pc[q] # "idle" => /\ job[q].held < MaxStall
                        /\ job'[q] = [job[q] EXCEPT !.held = @ + 1, !.old = o]
  BY DEF Tick
<1>. HIDE DEF o
<1>4. pc[q] # "idle" =>
         /\ job'[q].held = job[q].held + 1 /\ job'[q].old = o
         /\ job'[q].req = job[q].req /\ job'[q].of = job[q].of
         /\ job'[q].ids = job[q].ids /\ job'[q].late = job[q].late
  BY <1>1, <1>3 DEF Job
<1>. QED
  BY <1>1, <1>2, <1>3, <1>4 DEF o

LEMMA SweepStep == TypeInv /\ SweepInv /\ [Next]_vars => SweepInv'
<1>. SUFFICES ASSUME TypeInv, SweepInv, [Next]_vars,
                     NEW q \in Clients, pc'[q] \in Sweeping
              PROVE  job'[q].ids \subseteq Gone
  BY GoneForGood DEF SweepInv
<1>1. job[q] \in Job
  BY DEF TypeInv, JobsOK
<1>2. CASE Tick \/ UNCHANGED vars
  <2>1. UNCHANGED vars => pc'[q] = pc[q] /\ job'[q].ids = job[q].ids
    BY DEF vars
  <2>2. Tick => pc'[q] = pc[q] /\ job'[q].ids = job[q].ids
    BY TickJob DEF TypeInv
  <2>. QED
    BY <1>2, <2>1, <2>2 DEF SweepInv
<1>3. ASSUME NEW p \in Clients, p # q, Call(p) \/ Work(p) PROVE job'[q].ids \subseteq Gone
  BY <1>3, Others DEF TypeInv, SweepInv
<1>4. CASE Scan(q)
  <2>1. PICK j \in Job : Removing(q, {i \in DOMAIN sem : Expired(i)}, "sweep", "promote", j)
    <3>1. \A i \in DOMAIN sem : [job[q] EXCEPT !.of = sem[i].of, !.old = sem[i].old] \in Job
      BY <1>1 DEF Job, TypeInv, SemOK, SemanticEntry
    <3>2. \A C \in Records(job[q].req) : C \subseteq DOMAIN sem
      BY DEF Records, Candidates
    <3>. QED
      BY <1>1, <1>4, <3>1, <3>2 DEF Scan
  <2>2. job'[q].ids = {i \in DOMAIN sem : Expired(i)}
    BY <2>1 DEF Removing, Goto, TypeInv, JobsOK, Job
  <2>. QED
    BY <2>2, ExpiredAreGone
<1>5. CASE FindExpired(q)
  <2>1. job'[q].ids = {i \in DOMAIN sem : Expired(i)}
    BY <1>1, <1>5 DEF FindExpired, Removing, Goto, TypeInv, JobsOK, Job
  <2>. QED
    BY <2>1, ExpiredAreGone
<1>6. CASE Sweep(q) \/ EvictExpired(q) \/ EvictLeast(q)
  <2>1. ASSUME NEW here, NEW after, RemoveOne(q, here, after)
        PROVE  /\ pc[q] = here /\ pc'[q] \in {here, after}
               /\ job'[q].ids \subseteq job[q].ids
    BY <1>1, <2>1 DEF RemoveOne, Removing, Goto, TypeInv, JobsOK, Job
  <2>2. EvictLeast(q) => pc'[q] \in {"evictLeast", "put"}
    BY <2>1 DEF EvictLeast
  <2>3. Sweep(q) \/ EvictExpired(q) => pc[q] \in Sweeping /\ job'[q].ids \subseteq job[q].ids
    BY <2>1 DEF Sweep, EvictExpired, Sweeping
  <2>. QED
    BY <1>6, <2>2, <2>3 DEF SweepInv, Sweeping
<1>7. CASE \/ Call(q) \/ Promote(q) \/ StoreExact(q) \/ CheckLength(q)
           \/ FindLeast(q) \/ Put(q)
  <2>1. UNCHANGED pc \/ pc'[q] \in {"idle", "scan", "storeExact", "len", "put", "findExpired", "findLeast", "evictLeast"}
    <3>1. Call(q) => UNCHANGED pc \/ pc'[q] \in {"idle", "scan", "storeExact"}
      BY DEF Call, ExactHit, ExactMiss, Miss, Return, Store, Goto, TypeInv, JobsOK
    <3>2. Promote(q) \/ StoreExact(q) \/ Put(q) => pc'[q] \in {"idle", "len"}
      BY DEF Promote, StoreExact, Put, Miss, Return, Goto, TypeInv, JobsOK
    <3>3. CheckLength(q) \/ FindLeast(q) => pc'[q] \in {"put", "findExpired", "findLeast", "evictLeast"}
      BY DEF CheckLength, FindLeast, Removing, Goto, TypeInv, JobsOK
    <3>. QED
      BY <1>7, <3>1, <3>2, <3>3
  <2>2. CASE UNCHANGED pc
    <3>1. Call(q) \/ Promote(q) \/ StoreExact(q) \/ CheckLength(q) \/ FindLeast(q) \/ Put(q)
          => pc[q] \notin Sweeping
      BY DEF Call, ExactHit, ExactMiss, Store, Promote, StoreExact, CheckLength, FindLeast,
         Put, Sweeping
    <3>. QED
      BY <1>7, <2>2, <3>1
  <2>. QED
    BY <2>1, <2>2 DEF Sweeping
<1>. QED
  <2>1. CASE Next /\ ~Tick
    <3>1. PICK p \in Clients : Call(p) \/ Work(p)
      BY <2>1 DEF Next
    <3>2. CASE p # q
      BY <1>3, <3>1, <3>2
    <3>3. CASE p = q
      BY <1>4, <1>5, <1>6, <1>7, <3>1, <3>3 DEF Work
    <3>. QED
      BY <3>2, <3>3
  <2>. QED
    BY <1>2, <2>1

LEMMA SweepInvariant == Spec => []SweepInv
<1>1. Init => SweepInv
  BY DEF Init, SweepInv, Sweeping
<1>. QED
  BY <1>1, SweepStep, TypeInvariant, PTL DEF Spec

LEMMA SweepTakesExpired ==
  ASSUME SweepInv, NEW p \in Clients, Sweep(p) \/ EvictExpired(p),
         NEW i \in DOMAIN sem \ DOMAIN sem'
  PROVE  Expired(i)
<1>1. i \in job[p].ids
  BY DEF Sweep, EvictExpired, RemoveOne, Without
<1>2. job[p].ids \subseteq Gone
  BY DEF Sweep, EvictExpired, RemoveOne, Sweeping, SweepInv
<1>. QED
  BY <1>1, <1>2 DEF Gone, Expired

(* SemanticCache::lookup and evict_if_needed collect expired ids and remove  *)
(* them later with no check: however long that takes, and whatever others   *)
(* put meanwhile, no live entry is removed.                                  *)
THEOREM SweepsTakeOnlyExpired == Spec => SweepsOnlyExpired
<1>1. SweepInv =>
        \A p \in Clients : Sweep(p) \/ EvictExpired(p) =>
           \A i \in DOMAIN sem \ DOMAIN sem' : Expired(i)
  BY SweepTakesExpired
<1>. QED
  BY <1>1, SweepInvariant, PTL DEF Spec, SweepsOnlyExpired

-----------------------------------------------------------------------------
(* The size of the semantic tier *)

Size == Cardinality(DOMAIN sem)

(* A store that nobody has overtaken since it decided puts into a cache that *)
(* has room, or will have once it has removed its victim.                    *)
GrowInv ==
    /\ Size <= Room + overtaken
    /\ \A p \in Clients : ~job[p].late =>
          /\ pc[p] = "put" => Size < Room + overtaken
          /\ pc[p] = "evictLeast" => Cardinality(DOMAIN sem \ job[p].ids) < Room + overtaken

LEMMA SemFinite ==
  ASSUME TypeInv
  PROVE  IsFiniteSet(DOMAIN sem) /\ Size \in Nat
<1>1. IsFiniteSet(0..nextId - 1)
  BY FS_Interval DEF TypeInv, SemOK
<1>. QED
  BY <1>1, FS_Subset, FS_CardinalityType DEF TypeInv, SemOK, Size

LEMMA RoomForOne == Room \in Nat /\ Room >= 1 /\ SemMax <= Room
BY Sizes DEF Room

LEMMA Bound == TypeInv => Room + overtaken \in Nat /\ overtaken \in Nat
BY RoomForOne DEF TypeInv, CountOK, SemOK

LEMMA FewerFit ==
  ASSUME NEW T, IsFiniteSet(T), NEW S \in SUBSET T
  PROVE  /\ IsFiniteSet(S) /\ Cardinality(S) \in Nat /\ Cardinality(T) \in Nat
         /\ Cardinality(S) <= Cardinality(T)
BY FS_Subset, FS_CardinalityType

(* Only a put adds an entry. *)
LEMMA OnlyPutAdds ==
  ASSUME TypeInv, [Next]_vars, \A p \in Clients : ~Put(p)
  PROVE  DOMAIN sem' \subseteq DOMAIN sem /\ overtaken' = overtaken
<1>. DEFINE fewer == DOMAIN sem' \subseteq DOMAIN sem /\ overtaken' = overtaken
<1>1. ASSUME NEW p \in Clients, Call(p) \/ Work(p) PROVE fewer
  <2>1. CASE Call(p)
    BY <2>1 DEF Call, ExactHit, ExactMiss, Store
  <2>2. CASE Sweep(p) \/ EvictExpired(p) \/ EvictLeast(p)
    BY <2>2 DEF Sweep, EvictExpired, EvictLeast, RemoveOne, Without
  <2>3. CASE Scan(p)
    BY <2>3 DEF Scan
  <2>4. CASE \/ Promote(p) \/ StoreExact(p) \/ CheckLength(p) \/ FindExpired(p) \/ FindLeast(p)
    BY <2>4 DEF Promote, StoreExact, CheckLength, FindExpired, FindLeast
  <2>. QED
    BY <1>1, <2>1, <2>2, <2>3, <2>4 DEF Work
<1>2. Tick => fewer
  BY DEF Tick
<1>3. UNCHANGED vars => fewer
  BY DEF vars
<1>4. fewer
  <2>. HIDE DEF fewer
  <2>. QED
    BY <1>1, <1>2, <1>3 DEF Next
<1>. QED
  BY <1>4

(* Among finitely many entries one has the fewest hits. *)
LEMMA LeastExists ==
  ASSUME TypeInv, DOMAIN sem # {}
  PROVE  \E i \in DOMAIN sem : \A k \in DOMAIN sem : sem[i].hits <= sem[k].hits
<1>. DEFINE less == OpToRel(<, Nat)
            H == {sem[i].hits : i \in DOMAIN sem}
<1>1. H \subseteq Nat /\ H # {}
  BY DEF TypeInv, SemOK, SemanticEntry
<1>2. IsWellFoundedOn(less, Nat)
  BY NatLessThanWellFounded
<1>. HIDE DEF less
<1>3. PICK h \in H : \A k \in H : ~(<<k, h>> \in less)
  BY <1>1, <1>2, WFMin
<1>4. \A a, b \in Nat : a < b => <<a, b>> \in less
  BY DEF less, OpToRel
<1>5. \A k \in H : k \in Nat /\ h \in Nat /\ ~(k < h)
  <2>. HIDE DEF H
  <2>. QED
    BY <1>1, <1>3, <1>4
<1>6. PICK i \in DOMAIN sem : h = sem[i].hits
  OBVIOUS
<1>7. \A k \in DOMAIN sem : sem[i].hits <= sem[k].hits
  BY <1>5, <1>6
<1>. QED
  BY <1>7

LEMMA GrowInit == Init => GrowInv
<1>. SUFFICES ASSUME Init PROVE GrowInv
  OBVIOUS
<1>1. Size = 0
  BY FS_EmptySet DEF Init, Size
<1>. QED
  BY <1>1, RoomForOne DEF Init, GrowInv

(* A put takes the room its length check found, or is counted. *)
LEMMA GrowPut ==
  ASSUME TypeInv, GrowInv, NEW p \in Clients, Put(p)
  PROVE  GrowInv'
<1>1. pc[p] = "put" /\ overtaken' = overtaken + (IF job[p].late THEN 1 ELSE 0)
  BY DEF Put
<1>2. DOMAIN sem' = DOMAIN sem \cup {nextId} /\ nextId \notin DOMAIN sem
  BY DEF Put, With, TypeInv, SemOK
<1>3. Size' = Size + 1
  BY <1>2, SemFinite, FS_AddElement DEF Size
<1>4. job[p].late => Size <= Room + overtaken
  BY DEF GrowInv
<1>5. ~job[p].late => Size < Room + overtaken
  BY <1>1 DEF GrowInv
<1>6. Size' <= Room + overtaken'
  BY <1>1, <1>3, <1>4, <1>5, Bound, SemFinite, RoomForOne
<1>7. ASSUME NEW q \in Clients
      PROVE  pc'[q] \in {"put", "evictLeast"} => job'[q].late
  <2>1. CASE q = p
    BY <2>1 DEF Put, TypeInv, JobsOK
  <2>2. CASE q # p
    BY <2>2, Others DEF Work, TypeInv, Decided
  <2>. QED
    BY <2>1, <2>2
<1>. QED
  BY <1>6, <1>7 DEF GrowInv

(* Without a put there is no less room for a call that goes on waiting. *)
LEMMA GrowOther ==
  ASSUME TypeInv, GrowInv, [Next]_vars, \A p \in Clients : ~Put(p),
         NEW q \in Clients, pc'[q] = pc[q], job'[q].late = job[q].late,
         job'[q].ids = job[q].ids, ~job'[q].late
  PROVE  /\ pc'[q] = "put" => Size' < Room + overtaken'
         /\ pc'[q] = "evictLeast" => Cardinality(DOMAIN sem' \ job'[q].ids) < Room + overtaken'
<1>1. DOMAIN sem' \subseteq DOMAIN sem /\ overtaken' = overtaken
  BY OnlyPutAdds
<1>2. Size' <= Size /\ Size' \in Nat /\ Size \in Nat
  BY <1>1, SemFinite, FewerFit DEF Size
<1>. DEFINE kept == DOMAIN sem \ job[q].ids
            left == DOMAIN sem' \ job[q].ids
<1>3. IsFiniteSet(kept) /\ left \subseteq kept
  BY <1>1, SemFinite, FewerFit
<1>4. Cardinality(left) <= Cardinality(kept) /\ Cardinality(left) \in Nat /\ Cardinality(kept) \in Nat
  BY <1>3, FewerFit
<1>5. ~job[q].late /\ Room + overtaken \in Nat
  BY Bound
<1>6. pc[q] = "put" => Size < Room + overtaken
  BY <1>5 DEF GrowInv
<1>7. pc[q] = "evictLeast" => Cardinality(kept) < Room + overtaken
  BY <1>5 DEF GrowInv
<1>8. pc'[q] = "put" => Size' < Room + overtaken'
  BY <1>1, <1>2, <1>5, <1>6
<1>9. pc'[q] = "evictLeast" => Cardinality(left) < Room + overtaken'
  BY <1>1, <1>4, <1>5, <1>7
<1>. QED
  BY <1>8, <1>9

(* A client that comes to its put, or to its victim, has found room. *)
LEMMA GrowOwn ==
  ASSUME TypeInv, GrowInv, NEW q \in Clients, Call(q) \/ Work(q), ~Put(q), ~job'[q].late
  PROVE  /\ pc'[q] = "put" => Size' < Room + overtaken'
         /\ pc'[q] = "evictLeast" => Cardinality(DOMAIN sem' \ job'[q].ids) < Room + overtaken'
<1>1. JobsOK /\ job[q] \in Job
  BY DEF TypeInv, JobsOK
<1>2. Room + overtaken \in Nat /\ SemMax <= Room /\ Room >= 1 /\ overtaken \in Nat /\ Room \in Nat
  BY Bound, RoomForOne
<1>3. IsFiniteSet(DOMAIN sem) /\ Size \in Nat
  BY SemFinite
<1>4. CASE CheckLength(q)
  <2>1. sem' = sem /\ overtaken' = overtaken
    BY <1>4 DEF CheckLength
  <2>2. pc'[q] # "evictLeast" /\ (pc'[q] = "put" => Size < SemMax)
    BY <1>1, <1>4 DEF CheckLength, Goto, JobsOK, Size
  <2>3. Size' = Size
    BY <2>1 DEF Size
  <2>. QED
    BY <1>2, <1>3, <2>1, <2>2, <2>3, Sizes
<1>5. CASE FindLeast(q)
  <2>. DEFINE least == {i \in DOMAIN sem : \A k \in DOMAIN sem : sem[i].hits <= sem[k].hits}
  <2>1. sem' = sem /\ overtaken' = overtaken
    BY <1>5 DEF FindLeast
  <2>2. \/ least = {} /\ Goto(q, "put", job[q])
        \/ \E i \in least : Removing(q, {i}, "evictLeast", "put", job[q])
    BY <1>5 DEF FindLeast
  <2>3. CASE least = {} /\ Goto(q, "put", job[q])
    <3>1. DOMAIN sem = {}
      BY <2>3, LeastExists
    <3>2. Size = 0 /\ Size' = 0
      BY <2>1, <3>1, FS_EmptySet DEF Size
    <3>3. pc'[q] = "put"
      BY <1>1, <2>3 DEF Goto, JobsOK
    <3>. QED
      BY <1>2, <2>1, <3>2, <3>3
  <2>4. ASSUME NEW i \in least, Removing(q, {i}, "evictLeast", "put", job[q])
        PROVE  pc'[q] = "evictLeast" /\ Cardinality(DOMAIN sem' \ job'[q].ids) < Room + overtaken'
    <3>1. pc'[q] = "evictLeast" /\ job'[q].ids = {i}
      BY <1>1, <2>4 DEF Removing, Goto, JobsOK, Job
    <3>2. Cardinality(DOMAIN sem \ {i}) = Size - 1
      BY <1>3, FS_RemoveElement DEF Size
    <3>3. Cardinality(DOMAIN sem' \ job'[q].ids) = Size - 1
      BY <2>1, <3>1, <3>2
    <3>4. Size <= Room + overtaken
      BY DEF GrowInv
    <3>. QED
      BY <1>2, <1>3, <2>1, <3>1, <3>3, <3>4
  <2>. HIDE DEF least
  <2>. QED
    BY <2>2, <2>3, <2>4
<1>6. CASE EvictLeast(q)
  <2>1. PICK i \in job[q].ids : /\ sem' = Without(sem, {i})
                                /\ Removing(q, job[q].ids \ {i}, "evictLeast", "put", job[q])
    BY <1>6 DEF EvictLeast, RemoveOne
  <2>2. /\ overtaken' = overtaken /\ pc[q] = "evictLeast"
        /\ job'[q].ids = job[q].ids \ {i} /\ job'[q].late = job[q].late
        /\ pc'[q] = IF job[q].ids \ {i} = {} THEN "put" ELSE "evictLeast"
    BY <1>1, <1>6, <2>1 DEF EvictLeast, RemoveOne, Removing, Goto, JobsOK, Job
  <2>3. DOMAIN sem' = DOMAIN sem \ {i}
    BY <2>1 DEF Without
  <2>4. Cardinality(DOMAIN sem \ job[q].ids) < Room + overtaken
    BY <2>2 DEF GrowInv
  <2>5. DOMAIN sem' \ job'[q].ids = DOMAIN sem \ job[q].ids
    BY <2>1, <2>2, <2>3
  <2>6. pc'[q] = "put" => DOMAIN sem' = DOMAIN sem \ job[q].ids
    BY <2>1, <2>2, <2>3
  <2>. QED
    BY <2>2, <2>4, <2>5, <2>6 DEF Size
<1>7. CASE \/ Call(q) \/ Scan(q) \/ Sweep(q) \/ Promote(q) \/ StoreExact(q)
           \/ FindExpired(q) \/ EvictExpired(q)
  <2>1. Call(q) => pc'[q] \notin {"put", "evictLeast"}
    BY <1>1 DEF Call, ExactHit, ExactMiss, Store, Miss, Return, Goto, JobsOK
  <2>2. Promote(q) \/ StoreExact(q) => pc'[q] \notin {"put", "evictLeast"}
    BY <1>1 DEF Promote, StoreExact, Miss, Return, Goto, JobsOK
  <2>3. Scan(q) \/ FindExpired(q) => pc'[q] \notin {"put", "evictLeast"}
    BY <1>1 DEF Scan, FindExpired, Removing, Goto, JobsOK
  <2>4. Sweep(q) \/ EvictExpired(q) => pc'[q] \notin {"put", "evictLeast"}
    BY <1>1 DEF Sweep, EvictExpired, RemoveOne, Removing, Goto, JobsOK
  <2>. QED
    BY <1>7, <2>1, <2>2, <2>3, <2>4
<1>. QED
  BY <1>4, <1>5, <1>6, <1>7 DEF Work

LEMMA GrowStep == TypeInv /\ GrowInv /\ [Next]_vars => GrowInv'
<1>. SUFFICES ASSUME TypeInv, GrowInv, [Next]_vars PROVE GrowInv'
  OBVIOUS
<1>1. CASE \E p \in Clients : Put(p)
  BY <1>1, GrowPut
<1>2. CASE \A p \in Clients : ~Put(p)
  <2>1. Size' <= Room + overtaken'
    <3>1. DOMAIN sem' \subseteq DOMAIN sem /\ overtaken' = overtaken
      BY <1>2, OnlyPutAdds
    <3>2. Size' <= Size /\ Size' \in Nat /\ Size \in Nat
      BY <3>1, SemFinite, FewerFit DEF Size
    <3>3. Size <= Room + overtaken
      BY DEF GrowInv
    <3>. QED
      BY <3>1, <3>2, <3>3, Bound
  <2>2. ASSUME NEW q \in Clients, ~job'[q].late
        PROVE  /\ pc'[q] = "put" => Size' < Room + overtaken'
               /\ pc'[q] = "evictLeast" =>
                     Cardinality(DOMAIN sem' \ job'[q].ids) < Room + overtaken'
    <3>1. CASE pc'[q] = pc[q] /\ job'[q].late = job[q].late /\ job'[q].ids = job[q].ids
      BY <1>2, <2>2, <3>1, GrowOther
    <3>2. CASE Call(q) \/ Work(q)
      BY <1>2, <2>2, <3>2, GrowOwn
    <3>3. Tick => pc'[q] = pc[q] /\ job'[q].late = job[q].late /\ job'[q].ids = job[q].ids
      BY TickJob DEF TypeInv
    <3>4. UNCHANGED vars => pc'[q] = pc[q] /\ job'[q].late = job[q].late /\ job'[q].ids = job[q].ids
      BY DEF vars
    <3>5. ASSUME NEW p \in Clients, p # q, Call(p) \/ Work(p)
          PROVE  pc'[q] = pc[q] /\ job'[q].late = job[q].late /\ job'[q].ids = job[q].ids
      BY <1>2, <3>5, Others DEF TypeInv
    <3>6. UNCHANGED vars \/ Tick \/ \E p \in Clients : Call(p) \/ Work(p)
      BY DEF Next
    <3>7. CASE UNCHANGED vars \/ Tick
      BY <3>1, <3>3, <3>4, <3>7
    <3>8. ASSUME NEW p \in Clients, Call(p) \/ Work(p)
          PROVE  \/ Call(q) \/ Work(q)
                 \/ pc'[q] = pc[q] /\ job'[q].late = job[q].late /\ job'[q].ids = job[q].ids
      BY <3>5, <3>8
    <3>. QED
      BY <3>1, <3>2, <3>6, <3>7, <3>8
  <2>. QED
    BY <2>1, <2>2 DEF GrowInv
<1>. QED
  BY <1>1, <1>2

(* SemanticCache::store makes one attempt to evict and puts without looking  *)
(* again: the semantic tier outgrows max_entries, but by no more than the   *)
(* puts that another put overtook after their length check, one entry each. *)
THEOREM GrowthIsCounted == Spec => []GrowsOnlyWhenOvertaken
<1>1. GrowInv => GrowsOnlyWhenOvertaken
  BY DEF GrowInv, GrowsOnlyWhenOvertaken, Size
<1>. QED
  BY <1>1, GrowInit, GrowStep, TypeInvariant, PTL DEF Spec

-----------------------------------------------------------------------------
(* Where an answer comes from, and how old it is *)

Kin == {qa \in Requests \X Requests : Similar(qa[1], qa[2])}

(* What may be served under a key: the answer to a request with that key, or *)
(* to one that is similar to a request with that key.                        *)
Servable(k) == {a \in Requests : \E r \in Requests : Key[r] = k /\ (r = a \/ <<r, a>> \in Kin)}

FirstLife == SemTtl + MaxStall
BothLives == SemTtl + 2 * MaxStall

(* The semantic tier holds answers to the very question they are filed       *)
(* under; a live one is as old as its entry and the store that put it.       *)
SemData ==
    \A i \in DOMAIN sem :
        /\ sem[i].of = sem[i].asked
        /\ sem[i].age <= SemTtl => sem[i].old <= sem[i].age + MaxStall

(* A lookup has found nothing yet when it scans, and then holds an answer to *)
(* a similar question; a store holds the answer to its own.                  *)
JobData ==
    \A p \in Clients :
        /\ pc[p] = "scan" => job[p].of = None
        /\ pc[p] \in Storing => job[p].of = job[p].req /\ job[p].old <= job[p].held
        /\ pc[p] \in {"sweep", "promote"} /\ job[p].of # None =>
              /\ <<job[p].req, job[p].of>> \in Kin
              /\ job[p].old <= FirstLife + job[p].held

(* A promoted answer starts a new life in the exact tier, and has no third.  *)
ExactData ==
    \A k \in DOMAIN exact :
        exact[k].of \in Servable(k) /\ exact[k].old <= BothLives + exact[k].age

AnswerData ==
    answer # None =>
        answer.of \in Servable(Key[answer.req]) /\ answer.old <= BothLives + ExactTtl

DataInv == SemData /\ JobData /\ ExactData /\ AnswerData

LEMMA Lives ==
  /\ FirstLife \in Nat /\ BothLives \in Nat /\ BothLives = FirstLife + MaxStall
  /\ SemTtl \in Nat /\ MaxStall \in Nat /\ ExactTtl \in Nat
BY Sizes DEF FirstLife, BothLives

LEMMA DataInit == Init => DataInv
BY DEF Init, DataInv, SemData, JobData, ExactData, AnswerData, Storing, Decided

(* What a lookup or a store inserts into the exact tier may be served there. *)
LEMMA InsertData ==
  ASSUME TypeInv, ExactData, NEW p \in Clients,
         pc[p] \in {"promote", "storeExact"}, JobData, job[p].of # None,
         ExactInsert(job[p].req, job[p])
  PROVE  ExactData'
<1>. DEFINE k == Key[job[p].req]
            e == [of |-> job[p].of, age |-> 0, old |-> job[p].old]
<1>1. job[p] \in Job /\ job[p].req \in Requests /\ job[p].of \in Requests
  BY DEF TypeInv, JobsOK, Job
<1>2. job[p].of \in Servable(k) /\ job[p].old <= BothLives
  <2>1. job[p].held <= MaxStall /\ job[p].held \in Nat /\ job[p].old \in Nat
    BY <1>1, Sizes DEF Job, MaxOld
  <2>2. CASE pc[p] = "promote"
    <3>1. <<job[p].req, job[p].of>> \in Kin /\ job[p].old <= FirstLife + job[p].held
      BY <2>2 DEF JobData
    <3>2. job[p].of \in Servable(k)
      BY <1>1, <3>1 DEF Servable
    <3>3. job[p].old <= BothLives
      BY <2>1, <3>1, Lives
    <3>. QED
      BY <3>2, <3>3
  <2>3. CASE pc[p] = "storeExact"
    <3>1. job[p].of = job[p].req /\ job[p].old <= job[p].held
      BY <2>3 DEF JobData, Storing
    <3>2. job[p].of \in Servable(k)
      BY <1>1, <3>1 DEF Servable
    <3>3. job[p].old <= BothLives
      BY <2>1, <3>1, Lives
    <3>. QED
      BY <3>2, <3>3
  <2>. QED
    BY <2>2, <2>3
<1>3. PICK K \in SUBSET (DOMAIN exact \ {k}) : exact' = With(Without(exact, K), k, e)
  BY DEF ExactInsert
<1>4. \A x \in DOMAIN exact' : \/ x = k /\ exact'[x] = e
                               \/ x \in DOMAIN exact /\ exact'[x] = exact[x]
  BY <1>3 DEF With, Without
<1>5. e.of \in Servable(k) /\ e.old <= BothLives + e.age
  BY <1>1, <1>2, Lives DEF Job
<1>. HIDE DEF e, k
<1>6. \A x \in DOMAIN exact' : exact'[x].of \in Servable(x) /\ exact'[x].old <= BothLives + exact'[x].age
  BY <1>4, <1>5 DEF ExactData
<1>. QED
  BY <1>6 DEF ExactData, BothLives, Servable, Kin

LEMMA SemDataStep ==
  ASSUME TypeInv, DataInv, [Next]_vars
  PROVE  SemData'
<1>. SUFFICES ASSUME NEW i \in DOMAIN sem'
              PROVE  /\ sem'[i].of = sem'[i].asked
                     /\ sem'[i].age <= SemTtl => sem'[i].old <= sem'[i].age + MaxStall
  BY DEF SemData
<1>1. CASE i # nextId
  <2>1. i \in DOMAIN sem /\ sem'[i].of = sem[i].of /\ sem'[i].asked = sem[i].asked
    BY <1>1, SemSteps
  <2>2. sem[i].of = sem[i].asked /\ (sem[i].age <= SemTtl => sem[i].old <= sem[i].age + MaxStall)
    BY <2>1 DEF DataInv, SemData
  <2>3. sem[i].age \in 0..SemTtl + 1 /\ sem[i].old \in 0..MaxOld
    BY <2>1 DEF TypeInv, SemOK, SemanticEntry
  <2>4. CASE Tick
    <3>1. sem'[i].age = Older(sem[i].age, SemTtl + 1) /\ sem'[i].old = Older(sem[i].old, MaxOld)
      BY <1>1, <2>4, SemSteps
    <3>2. sem'[i].age = IF sem[i].age < SemTtl + 1 THEN sem[i].age + 1 ELSE SemTtl + 1
      BY <2>3, <3>1, OlderIs, Lives
    <3>3. sem'[i].old <= sem[i].old + 1 /\ sem'[i].old \in Nat
      BY <2>3, <3>1, OlderIs, Sizes DEF MaxOld
    <3>. QED
      BY <2>1, <2>2, <2>3, <3>2, <3>3, Lives
  <2>5. CASE ~Tick
    BY <1>1, <2>1, <2>2, <2>5, SemSteps
  <2>. QED
    BY <2>4, <2>5
<1>2. CASE i = nextId
  <2>1. PICK p \in Clients : Put(p)
    <3>1. i \notin DOMAIN sem
      BY <1>2 DEF TypeInv, SemOK
    <3>. QED
      BY <3>1, OnlyPutAdds
  <2>2. sem'[i] = [asked |-> job[p].req, of |-> job[p].of, hits |-> 0, age |-> 0, old |-> job[p].old]
    BY <1>2, <2>1 DEF Put, With
  <2>3. job[p].of = job[p].req /\ job[p].old <= job[p].held
    BY <2>1 DEF Put, DataInv, JobData, Storing, Decided
  <2>4. job[p].held \in 0..MaxStall /\ job[p].old \in 0..MaxOld
    BY DEF TypeInv, JobsOK, Job
  <2>. QED
    BY <2>2, <2>3, <2>4, Lives
<1>. QED
  BY <1>1, <1>2

(* What a lookup finds is live and similar. *)
LEMMA ScanData ==
  ASSUME TypeInv, DataInv, NEW q \in Clients, Scan(q)
  PROVE  /\ pc'[q] \in {"sweep", "promote"}
         /\ job'[q].of # None =>
               /\ <<job'[q].req, job'[q].of>> \in Kin
               /\ job'[q].old <= FirstLife + job'[q].held
<1>. DEFINE r == job[q].req
            expired == {i \in DOMAIN sem : Expired(i)}
<1>1. job[q] \in Job /\ job[q].of = None
  BY DEF TypeInv, JobsOK, Scan, DataInv, JobData
<1>2. PICK C \in Records(r) :
         \/ Removing(q, expired, "sweep", "promote", job[q])
         \/ \E i \in C : Removing(q, expired, "sweep", "promote",
                               [job[q] EXCEPT !.of = sem[i].of, !.old = sem[i].old])
  BY DEF Scan
<1>3. CASE Removing(q, expired, "sweep", "promote", job[q])
  <2>1. pc'[q] \in {"sweep", "promote"} /\ job'[q].of = job[q].of
    BY <1>1, <1>3 DEF Removing, Goto, TypeInv, JobsOK, Job
  <2>. QED
    BY <1>1, <2>1
<1>4. ASSUME NEW i \in C, Removing(q, expired, "sweep", "promote",
                               [job[q] EXCEPT !.of = sem[i].of, !.old = sem[i].old])
      PROVE  /\ pc'[q] \in {"sweep", "promote"}
             /\ <<job'[q].req, job'[q].of>> \in Kin
             /\ job'[q].old <= FirstLife + job'[q].held
  <2>1. i \in DOMAIN sem /\ ~Expired(i) /\ Similar(r, sem[i].asked)
    BY <1>2 DEF Records, Candidates
  <2>2. sem[i] \in SemanticEntry /\ sem[i].of = sem[i].asked /\
        (sem[i].age <= SemTtl => sem[i].old <= sem[i].age + MaxStall)
    BY <2>1 DEF TypeInv, SemOK, DataInv, SemData
  <2>3. /\ pc'[q] \in {"sweep", "promote"} /\ job'[q].of = sem[i].of /\ job'[q].req = r
        /\ job'[q].old = sem[i].old /\ job'[q].held = job[q].held
    BY <1>1, <1>4 DEF Removing, Goto, TypeInv, JobsOK, Job
  <2>4. <<r, sem[i].of>> \in Kin
    BY <1>1, <2>1, <2>2 DEF Kin, Job, SemanticEntry
  <2>5. sem[i].age \in Nat /\ sem[i].age <= SemTtl /\ sem[i].old \in Nat /\ job[q].held \in Nat
    BY <1>1, <2>1, <2>2, Lives DEF Expired, SemanticEntry, Job
  <2>6. sem[i].old <= FirstLife + job[q].held
    BY <2>2, <2>5, Lives DEF FirstLife
  <2>. QED
    BY <2>3, <2>4, <2>6
<1>. QED
  BY <1>2, <1>3, <1>4

(* A call that stays in its lookup, or in its store, keeps what it holds. *)
LEMMA WorkKeeps ==
  ASSUME TypeInv, NEW q \in Clients,
         \/ Sweep(q) \/ StoreExact(q) \/ CheckLength(q) \/ FindExpired(q)
         \/ EvictExpired(q) \/ FindLeast(q) \/ EvictLeast(q)
  PROVE  \/ pc'[q] = "idle"
         \/ /\ job'[q].req = job[q].req /\ job'[q].of = job[q].of
            /\ job'[q].old = job[q].old /\ job'[q].held = job[q].held
            /\ \/ pc[q] \in Storing /\ pc'[q] \in Storing
               \/ pc[q] \in {"sweep", "promote"} /\ pc'[q] \in {"sweep", "promote"}
<1>1. job[q] \in Job /\ JobsOK
  BY DEF TypeInv, JobsOK
<1>2. ASSUME NEW here, NEW after, NEW ids, pc[q] = here, Removing(q, ids, here, after, job[q])
      PROVE  /\ job'[q].req = job[q].req /\ job'[q].of = job[q].of
             /\ job'[q].old = job[q].old /\ job'[q].held = job[q].held
             /\ pc'[q] \in {here, after}
  BY <1>1, <1>2 DEF Removing, Goto, JobsOK, Job
<1>3. CASE Sweep(q)
  BY <1>2, <1>3 DEF Sweep, RemoveOne
<1>4. CASE EvictExpired(q)
  BY <1>2, <1>4 DEF EvictExpired, RemoveOne, Storing, Decided
<1>5. CASE EvictLeast(q)
  BY <1>2, <1>5 DEF EvictLeast, RemoveOne, Storing, Decided
<1>6. CASE StoreExact(q)
  BY <1>1, <1>6 DEF StoreExact, Return, Goto, JobsOK, Storing, Decided
<1>7. CASE CheckLength(q)
  BY <1>1, <1>7 DEF CheckLength, Goto, JobsOK, Storing, Decided
<1>8. CASE FindExpired(q)
  BY <1>1, <1>8 DEF FindExpired, Removing, Goto, JobsOK, Job, Storing, Decided
<1>9. CASE FindLeast(q)
  BY <1>1, <1>9 DEF FindLeast, Removing, Goto, JobsOK, Job, Storing, Decided
<1>. QED
  BY <1>3, <1>4, <1>5, <1>6, <1>7, <1>8, <1>9

LEMMA JobDataOwn ==
  ASSUME TypeInv, DataInv, NEW q \in Clients, Call(q) \/ Work(q)
  PROVE  /\ pc'[q] = "scan" => job'[q].of = None
         /\ pc'[q] \in Storing => job'[q].of = job'[q].req /\ job'[q].old <= job'[q].held
         /\ pc'[q] \in {"sweep", "promote"} /\ job'[q].of # None =>
               /\ <<job'[q].req, job'[q].of>> \in Kin
               /\ job'[q].old <= FirstLife + job'[q].held
<1>1. job[q] \in Job /\ JobsOK
  BY DEF TypeInv, JobsOK
<1>2. CASE Call(q)
  <2>1. PICK r \in Requests : ExactHit(q, r) \/ ExactMiss(q, r) \/ Store(q, r)
    BY <1>2 DEF Call
  <2>2. CASE ExactHit(q, r)
    BY <2>2 DEF ExactHit, Storing, Decided
  <2>3. CASE ExactMiss(q, r)
    BY <1>1, <2>3 DEF ExactMiss, Miss, Return, Goto, JobsOK, NewJob, Storing, Decided
  <2>4. CASE Store(q, r)
    BY <1>1, <2>4 DEF Store, Goto, JobsOK, NewJob, Storing
  <2>. QED
    BY <2>1, <2>2, <2>3, <2>4
<1>3. CASE Scan(q)
  BY <1>3, ScanData DEF Storing, Decided
<1>4. CASE Promote(q) \/ Put(q)
  BY <1>1, <1>4 DEF Promote, Put, Miss, Return, Goto, JobsOK, Storing, Decided
<1>5. CASE \/ Sweep(q) \/ StoreExact(q) \/ CheckLength(q) \/ FindExpired(q)
           \/ EvictExpired(q) \/ FindLeast(q) \/ EvictLeast(q)
  <2>1. {"idle", "scan", "sweep", "promote"} \cap Storing = {}
    BY DEF Storing, Decided
  <2>. QED
    BY <1>5, <2>1, WorkKeeps DEF DataInv, JobData
<1>. QED
  BY <1>2, <1>3, <1>4, <1>5 DEF Work

LEMMA JobDataStep ==
  ASSUME TypeInv, DataInv, [Next]_vars
  PROVE  JobData'
<1>. SUFFICES ASSUME NEW q \in Clients
     PROVE  /\ pc'[q] = "scan" => job'[q].of = None
            /\ pc'[q] \in Storing => job'[q].of = job'[q].req /\ job'[q].old <= job'[q].held
            /\ pc'[q] \in {"sweep", "promote"} /\ job'[q].of # None =>
                  /\ <<job'[q].req, job'[q].of>> \in Kin
                  /\ job'[q].old <= FirstLife + job'[q].held
  BY DEF JobData, Kin, FirstLife
<1>1. job[q] \in Job /\ JobsOK
  BY DEF TypeInv, JobsOK
<1>2. CASE Call(q) \/ Work(q)
  BY <1>2, JobDataOwn
<1>3. ASSUME NEW p \in Clients, p # q, Call(p) \/ Work(p)
      PROVE  /\ pc'[q] = pc[q] /\ job'[q].req = job[q].req /\ job'[q].of = job[q].of
             /\ job'[q].old = job[q].old /\ job'[q].held = job[q].held
  BY <1>1, <1>3, Others
<1>4. CASE /\ pc'[q] = pc[q] /\ job'[q].req = job[q].req /\ job'[q].of = job[q].of
           /\ job'[q].old = job[q].old /\ job'[q].held = job[q].held
  BY <1>4 DEF DataInv, JobData
<1>5. CASE UNCHANGED vars
  BY <1>4, <1>5 DEF vars
<1>6. CASE Tick
  <2>1. CASE pc[q] = "idle"
    BY <1>1, <1>4, <1>6, <2>1, TickJob
  <2>2. CASE pc[q] # "idle"
    <3>1. /\ pc'[q] = pc[q] /\ job'[q].req = job[q].req /\ job'[q].of = job[q].of
          /\ job'[q].held = job[q].held + 1
          /\ job'[q].old = IF job[q].of = None THEN 0 ELSE Older(job[q].old, MaxOld)
      BY <1>1, <1>6, <2>2, TickJob
    <3>2. job[q].old \in 0..MaxOld /\ job[q].held \in Nat
      BY <1>1, Sizes DEF Job
    <3>3. Older(job[q].old, MaxOld) <= job[q].old + 1 /\ Older(job[q].old, MaxOld) \in Nat
      <4>1. MaxOld \in Nat
        BY Sizes DEF MaxOld
      <4>. QED
        BY <3>2, <4>1, OlderIs
    <3>4. job'[q].of # None => job'[q].old <= job[q].old + 1 /\ job'[q].old \in Nat
      BY <3>1, <3>3
    <3>5. pc[q] \in Storing => job[q].of # None
      BY <1>1 DEF JobsOK
    <3>6. pc'[q] = "scan" => job'[q].of = None
      BY <3>1 DEF DataInv, JobData
    <3>7. pc'[q] \in Storing => job'[q].of = job'[q].req /\ job'[q].old <= job'[q].held
      <4>1. pc[q] \in Storing => job[q].of = job[q].req /\ job[q].old <= job[q].held
        BY DEF DataInv, JobData
      <4>. QED
        BY <3>1, <3>2, <3>4, <3>5, <4>1
    <3>8. pc'[q] \in {"sweep", "promote"} /\ job'[q].of # None =>
                  /\ <<job'[q].req, job'[q].of>> \in Kin
                  /\ job'[q].old <= FirstLife + job'[q].held
      <4>1. pc[q] \in {"sweep", "promote"} /\ job[q].of # None =>
                  /\ <<job[q].req, job[q].of>> \in Kin
                  /\ job[q].old <= FirstLife + job[q].held
        BY DEF DataInv, JobData
      <4>. QED
        BY <3>1, <3>2, <3>4, <4>1, Lives
    <3>. QED
      BY <3>6, <3>7, <3>8
  <2>. QED
    BY <2>1, <2>2
<1>7. UNCHANGED vars \/ Tick \/ \E p \in Clients : Call(p) \/ Work(p)
  BY DEF Next
<1>8. ASSUME NEW p \in Clients, Call(p) \/ Work(p)
      PROVE  \/ Call(q) \/ Work(q)
             \/ /\ pc'[q] = pc[q] /\ job'[q].req = job[q].req /\ job'[q].of = job[q].of
                /\ job'[q].old = job[q].old /\ job'[q].held = job[q].held
  BY <1>3, <1>8
<1>. QED
  BY <1>2, <1>4, <1>5, <1>6, <1>7, <1>8

LEMMA ExactDataStep ==
  ASSUME TypeInv, DataInv, [Next]_vars
  PROVE  ExactData'
<1>1. UNCHANGED exact => ExactData'
  BY DEF DataInv, ExactData, Servable, Kin, BothLives
<1>2. CASE Tick
  <2>. SUFFICES ASSUME NEW k \in DOMAIN exact'
                PROVE  exact'[k].of \in Servable(k) /\ exact'[k].old <= BothLives + exact'[k].age
    BY DEF ExactData, Servable, Kin, BothLives
  <2>1. k \in DOMAIN exact /\ exact'[k] = [exact[k] EXCEPT !.age = @ + 1, !.old = Older(@, MaxOld)]
    BY <1>2 DEF Tick
  <2>2. exact[k] \in ExactEntry /\ exact[k].old \in 0..MaxOld /\ exact[k].age \in Nat
    BY <2>1, Sizes DEF TypeInv, ExactOK, ExactEntry
  <2>3. Older(exact[k].old, MaxOld) <= exact[k].old + 1 /\ Older(exact[k].old, MaxOld) \in Nat
    <3>1. MaxOld \in Nat
      BY Sizes DEF MaxOld
    <3>. QED
      BY <2>2, <3>1, OlderIs
  <2>4. /\ exact'[k].of = exact[k].of /\ exact'[k].age = exact[k].age + 1
        /\ exact'[k].old = Older(exact[k].old, MaxOld)
    BY <2>1, <2>2 DEF ExactEntry
  <2>5. exact[k].of \in Servable(k) /\ exact[k].old <= BothLives + exact[k].age
    BY <2>1 DEF DataInv, ExactData
  <2>. QED
    BY <2>2, <2>3, <2>4, <2>5, Lives
<1>3. ASSUME NEW p \in Clients, Promote(p) \/ StoreExact(p)
      PROVE  ExactData'
  <2>1. CASE UNCHANGED exact
    BY <1>1, <2>1
  <2>2. CASE /\ pc[p] \in {"promote", "storeExact"} /\ job[p].of # None
             /\ ExactInsert(job[p].req, job[p])
    BY <2>2, InsertData DEF DataInv
  <2>3. StoreExact(p) => job[p].of # None
    BY DEF StoreExact, TypeInv, JobsOK, Storing
  <2>. QED
    BY <1>3, <2>1, <2>2, <2>3 DEF Promote, StoreExact
<1>4. ASSUME NEW p \in Clients, Call(p) \/ Work(p), ~Promote(p), ~StoreExact(p)
      PROVE  UNCHANGED exact
  <2>1. CASE Call(p)
    BY <2>1 DEF Call, ExactHit, ExactMiss, Store
  <2>2. CASE Sweep(p) \/ EvictExpired(p) \/ EvictLeast(p) \/ Scan(p) \/ Put(p)
    BY <2>2 DEF Sweep, EvictExpired, EvictLeast, RemoveOne, Scan, Put
  <2>3. CASE CheckLength(p) \/ FindExpired(p) \/ FindLeast(p)
    BY <2>3 DEF CheckLength, FindExpired, FindLeast
  <2>. QED
    BY <1>4, <2>1, <2>2, <2>3 DEF Work
<1>5. UNCHANGED vars => UNCHANGED exact
  BY DEF vars
<1>6. ASSUME NEW p \in Clients, Call(p) \/ Work(p) PROVE ExactData'
  BY <1>1, <1>3, <1>4, <1>6
<1>. QED
  BY <1>1, <1>2, <1>5, <1>6 DEF Next

LEMMA AnswerDataStep ==
  ASSUME TypeInv, DataInv, [Next]_vars
  PROVE  AnswerData'
<1>. DEFINE fit == answer'.of \in Servable(Key[answer'.req]) /\ answer'.old <= BothLives + ExactTtl
<1>. SUFFICES ASSUME answer' # None PROVE fit
  BY DEF AnswerData, Servable, Kin, BothLives
<1>1. CASE UNCHANGED answer
  BY <1>1 DEF DataInv, AnswerData
<1>2. ASSUME NEW p \in Clients, NEW r \in Requests, ExactHit(p, r) PROVE fit
  <2>. DEFINE k == Key[r]
  <2>1. k \in DOMAIN exact /\ answer' = [req |-> r, of |-> exact[k].of, old |-> exact[k].old]
    BY <1>2 DEF ExactHit, Answer
  <2>2. exact[k].of \in Servable(k) /\ exact[k].old <= BothLives + exact[k].age
    BY <2>1 DEF DataInv, ExactData
  <2>3. exact[k].age \in 0..ExactTtl /\ exact[k].old \in 0..MaxOld
    BY <2>1 DEF TypeInv, ExactOK, ExactEntry
  <2>4. answer'.of \in Servable(Key[answer'.req])
    BY <2>1, <2>2
  <2>5. answer'.old <= BothLives + ExactTtl
    <3>1. answer'.old = exact[k].old
      BY <2>1
    <3>. QED
      BY <2>2, <2>3, <3>1, Lives, Sizes DEF MaxOld
  <2>. QED
    BY <2>4, <2>5
<1>3. ASSUME NEW p \in Clients, Promote(p) PROVE fit
  <2>1. job[p] \in Job /\ job[p].of # None /\ answer' = [req |-> job[p].req, of |-> job[p].of, old |-> job[p].old]
    BY <1>3 DEF Promote, Miss, Answer, TypeInv, JobsOK
  <2>2. <<job[p].req, job[p].of>> \in Kin /\ job[p].old <= FirstLife + job[p].held
    BY <1>3, <2>1 DEF Promote, DataInv, JobData
  <2>3. job[p].held \in 0..MaxStall /\ job[p].old \in 0..MaxOld /\ job[p].req \in Requests /\ job[p].of \in Requests
    BY <2>1 DEF Job
  <2>4. answer'.of \in Servable(Key[answer'.req])
    BY <2>1, <2>2, <2>3 DEF Servable
  <2>5. answer'.old <= BothLives + ExactTtl
    <3>1. answer'.old = job[p].old
      BY <2>1
    <3>. QED
      BY <2>2, <2>3, <3>1, Lives, Sizes DEF MaxOld
  <2>. QED
    BY <2>4, <2>5
<1>4. ASSUME NEW p \in Clients, Call(p) \/ Work(p) PROVE fit
  <2>1. CASE \E r \in Requests : ExactHit(p, r)
    BY <1>2, <2>1
  <2>2. CASE Promote(p)
    BY <1>3, <2>2
  <2>3. ASSUME NEW r \in Requests, ExactMiss(p, r) \/ Store(p, r) PROVE answer' = None
    BY <2>3 DEF ExactMiss, Miss, Store
  <2>4. CASE Sweep(p) \/ EvictExpired(p) \/ EvictLeast(p) \/ Scan(p) \/ Put(p)
    BY <2>4 DEF Sweep, EvictExpired, EvictLeast, RemoveOne, Scan, Put
  <2>5. CASE StoreExact(p) \/ CheckLength(p) \/ FindExpired(p) \/ FindLeast(p)
    BY <2>5 DEF StoreExact, CheckLength, FindExpired, FindLeast
  <2>. HIDE DEF fit
  <2>. QED
    BY <1>4, <2>1, <2>2, <2>3, <2>4, <2>5 DEF Call, Work
<1>5. (UNCHANGED vars => UNCHANGED answer) /\ (Tick => answer' = None)
  BY DEF vars, Tick
<1>. HIDE DEF fit
<1>. QED
  BY <1>1, <1>4, <1>5 DEF Next

LEMMA DataInvariant == Spec => []DataInv
<1>1. TypeInv /\ DataInv /\ [Next]_vars => DataInv'
  BY SemDataStep, JobDataStep, ExactDataStep, AnswerDataStep DEF DataInv
<1>. QED
  BY <1>1, DataInit, TypeInvariant, PTL DEF Spec

(* An answer served is no older than both time-to-lives and the time the     *)
(* two calls took: what was promoted is not promoted again, because         *)
(* TieredCache::lookup promotes only what came from the semantic tier and   *)
(* TieredCache::store files an answer under its own question.               *)
THEOREM AnswersAgeOut == Spec => []StalenessBounded
<1>1. TypeInv /\ DataInv => StalenessBounded
  <2>. SUFFICES ASSUME TypeInv, DataInv, answer # None
                PROVE  answer.old <= SemTtl + ExactTtl + 2 * MaxStall
    BY DEF StalenessBounded
  <2>1. answer.old \in 0..MaxOld /\ answer.old <= BothLives + ExactTtl
    BY DEF TypeInv, AnswerOK, DataInv, AnswerData
  <2>. QED
    BY <2>1, Sizes DEF BothLives
<1>. QED
  BY <1>1, DataInvariant, TypeInvariant, PTL

(* An answer served was given to a request with the same key, or to one that *)
(* is similar to a request with the same key: promotion into the exact tier *)
(* never adds a second step of similarity.                                  *)
THEOREM AnswersAreOneStepAway ==
  Spec => [](answer # None =>
               \E r \in Requests : /\ Key[r] = Key[answer.req]
                                   /\ r = answer.of \/ Similar(r, answer.of))
<1>1. DataInv => (answer # None =>
               \E r \in Requests : /\ Key[r] = Key[answer.req]
                                   /\ r = answer.of \/ Similar(r, answer.of))
  BY DEF DataInv, AnswerData, Servable, Kin
<1>. QED
  BY <1>1, DataInvariant, PTL

(* Where no two requests of different wording, model, length or parameters   *)
(* run together to the same hashed bytes, an answer served was given to the *)
(* same question, or to one whose last user message is similar to that of a *)
(* request with the same question (TieredCache::lookup).                    *)
THEOREM AnswersStayRelated ==
  ASSUME KeysTell
  PROVE  Spec => []AnswersAreRelated
<1>1. TypeInv /\ DataInv => AnswersAreRelated
  <2>. SUFFICES ASSUME TypeInv, DataInv, answer # None
                PROVE  \/ SameAsked(answer.req, answer.of)
                       \/ \E r \in Requests : SameAsked(answer.req, r) /\ Similar(r, answer.of)
    BY DEF AnswersAreRelated
  <2>1. PICK r \in Requests : Key[r] = Key[answer.req] /\ (r = answer.of \/ Similar(r, answer.of))
    BY DEF DataInv, AnswerData, Servable, Kin
  <2>2. answer.req \in Requests
    BY DEF TypeInv, AnswerOK
  <2>3. KeyOf(r) = KeyOf(answer.req)
    BY <2>1, <2>2 DEF Key
  <2>4. SameAsked(answer.req, r)
    BY <2>2, <2>3, KeysTell DEF KeysTell
  <2>. QED
    BY <2>1, <2>4
<1>. QED
  BY <1>1, DataInvariant, TypeInvariant, PTL

=============================================================================
