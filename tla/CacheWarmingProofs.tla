------------------------- MODULE CacheWarmingProofs -------------------------
(***************************************************************************)
(* Proofs about CacheWarming, for every set of keys, capacity, time-to-    *)
(* live, number of warm entries and of failures allowed: its types, that   *)
(* the dump file is always absent or whole, and that warming a smaller     *)
(* cache keeps the hottest entries.                                        *)
(***************************************************************************)
EXTENDS CacheWarming, FiniteSetTheorems, WellFoundedInduction, TLAPS

Entry == [hits : 0..MaxHits, age : 0..(Ttl + 1)]

(* The part of TypeOK that speaks of the cache. *)
CacheOK ==
    /\ DOMAIN cache \subseteq Keys
    /\ \A k \in DOMAIN cache : cache[k] \in Entry
    /\ capacity \in Capacities
    /\ Cardinality(DOMAIN cache) <= capacity

(* The part that speaks of the loop and of the files. *)
LoopOK ==
    /\ dumper \in {"off", "waiting", "writing", "renaming", "sleeping"}
    /\ tmp \in Files /\ dump \in Files /\ buffer \in Files
    /\ failures \in 0..FailureLimit

(* The part that speaks of the process. *)
ServerOK ==
    /\ phase \in {"down", "warming", "up"}
    /\ loaded \in 0..MaxWarm
    /\ starts \in 0..MaxStarts
    /\ ticks \in 0..MaxTicks

(* The two flags. *)
FlagsOK == final \in BOOLEAN /\ shutdown \in BOOLEAN

(* A process that is down has no cache. *)
DownIsCold == phase = "down" => DOMAIN cache = {} /\ loaded = 0

(* The loop runs only while the server serves. *)
LoopOnlyUp == phase # "up" => dumper = "off"

LEMMA TypeParts ==
  TypeOK <=> CacheOK /\ LoopOK /\ ServerOK /\ FlagsOK
BY DEF TypeOK, CacheOK, LoopOK, ServerOK, FlagsOK, Entry

LEMMA Limits ==
  /\ Ttl \in Nat /\ MaxWarm \in Nat /\ FailureLimit \in Nat
  /\ MaxHits \in Nat /\ MaxStarts \in Nat /\ MaxTicks \in Nat
BY LimitsAreNat

(* Sets of keys are finite. *)
LEMMA KeySets ==
  ASSUME NEW D \in SUBSET Keys
  PROVE  IsFiniteSet(D) /\ Cardinality(D) \in Nat
BY KeysFinite, FS_Subset, FS_CardinalityType

LEMMA NoKeys == Cardinality({}) = 0
BY FS_EmptySet

LEMMA NewOK ==
  ASSUME NEW n \in 0..MaxHits
  PROVE  New(n) \in Entry
BY Limits DEF New, Entry

(* What remains once some keys are dropped and one comes in. *)
LEMMA DropCount ==
  ASSUME NEW D \in SUBSET Keys, NEW H \in SUBSET D, NEW k \in Keys
  PROVE  /\ Cardinality((D \ H) \cup {k}) \in Nat
         /\ Cardinality((D \ H) \cup {k}) <= Cardinality(D) + 1
         /\ H # {} => Cardinality((D \ H) \cup {k}) <= Cardinality(D)
<1>1. /\ IsFiniteSet(D) /\ IsFiniteSet(D \ H)
      /\ Cardinality(D) \in Nat /\ Cardinality(D \ H) \in Nat
  BY KeySets
<1>2. Cardinality((D \ H) \cup {k})
        = IF k \in D \ H THEN Cardinality(D \ H) ELSE Cardinality(D \ H) + 1
  BY <1>1, FS_AddElement
<1>3. Cardinality(D \ H) <= Cardinality(D)
  BY <1>1, FS_Subset
<1>4. ASSUME H # {} PROVE Cardinality(D \ H) < Cardinality(D)
  <2>1. D \ H # D
    BY <1>4
  <2>2. Cardinality(D \ H) # Cardinality(D)
    BY <1>1, <2>1, FS_Subset
  <2>. QED
    BY <1>1, <1>3, <2>2
<1>. QED
  BY <1>1, <1>2, <1>3, <1>4

(* A cache that is not empty has an entry with the fewest hits. *)
LEMMA LeastExists ==
  ASSUME NEW c, \A j \in DOMAIN c : c[j].hits \in Nat, DOMAIN c # {}
  PROVE  \E v \in DOMAIN c : \A i \in DOMAIN c : c[v].hits <= c[i].hits
<1>. DEFINE N == {n \in Nat : \E j \in DOMAIN c : n = c[j].hits}
            less == OpToRel(<, Nat)
<1>1. N # {} /\ N \subseteq Nat
  OBVIOUS
<1>2. PICK n \in N : \A m \in N : <<m, n>> \notin less
  <2>1. IsWellFoundedOn(less, Nat)
    BY NatLessThanWellFounded
  <2>. HIDE DEF less, N
  <2>. QED
    BY <1>1, <2>1, WFMin
<1>3. \A m \in N : n <= m
  <2>1. \A a, b \in Nat : a < b => <<a, b>> \in less
    BY DEF OpToRel
  <2>2. \A m \in N : m \in Nat /\ n \in Nat /\ ~(m < n)
    <3>. HIDE DEF less, N
    <3>. QED
      BY <1>1, <1>2, <2>1
  <2>. QED
    BY <2>2
<1>4. PICK v \in DOMAIN c : n = c[v].hits
  OBVIOUS
<1>. QED
  BY <1>3, <1>4

(* The map with some keys dropped and one entry put. *)
Put(c, H, k, e) == [j \in (DOMAIN c \ H) \cup {k} |-> IF j = k THEN e ELSE c[j]]

(* What an insert does: into a full cache it drops something first. *)
LEMMA InsertedIs ==
  ASSUME NEW c, NEW k, NEW e, NEW d \in Inserted(c, k, e),
         capacity \in Nat \ {0}, IsFiniteSet(DOMAIN c),
         \A j \in DOMAIN c : c[j] \in Entry
  PROVE  \E H \in SUBSET DOMAIN c :
            /\ d = Put(c, H, k, e)
            /\ Cardinality(DOMAIN c) < capacity => H = {}
            /\ Cardinality(DOMAIN c) >= capacity =>
                 \/ H # {} /\ \A j \in H : Expired(c[j])
                 \/ \E v \in DOMAIN c : /\ H = {v}
                                        /\ \A i \in DOMAIN c : c[v].hits <= c[i].hits
<1>. DEFINE dead == {j \in DOMAIN c : Expired(c[j])}
            least == {j \in DOMAIN c : \A i \in DOMAIN c : c[j].hits <= c[i].hits}
            full == ~(Cardinality(DOMAIN c) < capacity)
<1>0. Cardinality(DOMAIN c) \in Nat
  BY FS_CardinalityType
<1>1. CASE ~full
  <2>1. d = Put(c, {}, k, e)
    BY <1>1 DEF Inserted, Put
  <2>2. Cardinality(DOMAIN c) < capacity /\ ~(Cardinality(DOMAIN c) >= capacity)
    BY <1>0, <1>1
  <2>. QED
    BY <2>1, <2>2
<1>2. CASE full /\ dead # {}
  <2>1. d = Put(c, dead, k, e)
    BY <1>2 DEF Inserted, Put
  <2>. QED
    BY <1>2, <2>1
<1>3. CASE full /\ dead = {}
  <2>1. PICK v \in least : d = Put(c, {v}, k, e)
    BY <1>3 DEF Inserted, Put
  <2>. QED
    BY <1>3, <2>1
<1>. QED
  BY <1>1, <1>2, <1>3

(* One insert at a time keeps the cache typed and within its capacity. *)
LEMMA InsertedOK ==
  ASSUME CacheOK, NEW k \in Keys, NEW e \in Entry,
         cache' \in Inserted(cache, k, e), UNCHANGED capacity
  PROVE  CacheOK'
<1>1. capacity \in Nat \ {0} /\ DOMAIN cache \in SUBSET Keys
  BY CapacitiesPositive DEF CacheOK
<1>2. PICK H \in SUBSET DOMAIN cache :
            /\ cache' = Put(cache, H, k, e)
            /\ Cardinality(DOMAIN cache) >= capacity => H # {}
  BY <1>1, KeySets, InsertedIs DEF CacheOK
<1>3. DOMAIN cache' = (DOMAIN cache \ H) \cup {k}
  BY <1>2 DEF Put
<1>4. Cardinality(DOMAIN cache') <= capacity
  BY <1>1, <1>2, <1>3, KeySets, DropCount DEF CacheOK
<1>5. \A j \in DOMAIN cache' : cache'[j] \in Entry
  BY <1>2, <1>3 DEF Put, CacheOK
<1>. QED
  BY <1>1, <1>3, <1>4, <1>5 DEF CacheOK

(* A dump holds distinct keys by falling hits. *)
Sorted(s) ==
    \A i, j \in DOMAIN s : i < j => s[i].hits >= s[j].hits /\ s[i].key # s[j].key

LEMMA TopOK ==
  ASSUME CacheOK, NEW top \in TopEntries
  PROVE  top \in Seq(Dumped) /\ Sorted(top) /\ Len(top) <= MaxWarm
<1>. DEFINE n == Cardinality(Live)
            cut == IF n < MaxWarm THEN n ELSE MaxWarm
<1>1. Live \subseteq Keys /\ Live \subseteq DOMAIN cache
  BY DEF Live, CacheOK
<1>2. n \in Nat /\ MaxWarm \in Nat
  BY <1>1, KeySets, Limits
<1>3. PICK s \in [1..n -> Live] :
         /\ \A i, j \in DOMAIN s : i < j => cache[s[i]].hits >= cache[s[j]].hits
         /\ \A i, j \in DOMAIN s : i # j => s[i] # s[j]
         /\ top = [i \in 1..cut |-> [key |-> s[i], hits |-> cache[s[i]].hits]]
  BY DEF TopEntries
<1>4. cut \in Nat /\ cut <= MaxWarm /\ 1..cut \subseteq 1..n
  BY <1>2
<1>. HIDE DEF n, cut
<1>5. \A i \in 1..cut : /\ s[i] \in Live /\ top[i] \in Dumped
                        /\ top[i].key = s[i] /\ top[i].hits = cache[s[i]].hits
  BY <1>1, <1>3, <1>4 DEF Dumped, CacheOK, Entry
<1>6. top \in Seq(Dumped) /\ Len(top) = cut
  <2>1. top \in [1..cut -> Dumped]
    BY <1>3, <1>5
  <2>. QED
    BY <1>4, <2>1
<1>7. Sorted(top)
  BY <1>3, <1>4, <1>5 DEF Sorted
<1>. QED
  BY <1>4, <1>6, <1>7

-----------------------------------------------------------------------------
(* Types *)

TypeInv == CacheOK /\ LoopOK /\ ServerOK /\ DownIsCold /\ LoopOnlyUp

(* The flags are only ever set and cleared. *)
LEMMA Flags == Spec => []FlagsOK
<1>1. Init => FlagsOK
  BY DEF Init, FlagsOK
<1>2. FlagsOK /\ [Next]_vars => FlagsOK'
  <2>. SUFFICES ASSUME FlagsOK, [Next]_vars PROVE FlagsOK'
    OBVIOUS
  <2>1. CASE \E k \in Keys : Insert(k) \/ Hit(k) \/ Miss(k)
    BY <2>1, Zenon DEF FlagsOK, Insert, Hit, Miss, server
  <2>2. CASE Tick \/ Start \/ WarmOne \/ Warmed \/ WarmFails \/ SignalShutdown \/ Exit
    BY <2>2, Zenon DEF FlagsOK, Tick, Start, WarmOne, Warmed, WarmFails, Serve,
       SignalShutdown, Exit
  <2>3. CASE IntervalTick \/ ShutdownSeen
    BY <2>3, Zenon DEF FlagsOK, IntervalTick, ShutdownSeen, BeginDump, server
  <2>4. CASE WriteTmp \/ Rename \/ DumpFails \/ WakeUp
    BY <2>4, Zenon DEF FlagsOK, WriteTmp, Rename, DumpFails, WakeUp, Again, server
  <2>5. CASE UNCHANGED vars
    BY <2>5, Zenon DEF FlagsOK, vars
  <2>. QED
    BY <2>1, <2>2, <2>3, <2>4, <2>5 DEF Next, LoopStep
<1>. QED
  BY <1>1, <1>2, PTL DEF Spec
LEMMA TypeInit == Init => TypeInv
<1>. SUFFICES ASSUME Init PROVE TypeInv
  OBVIOUS
<1>1. CacheOK
  BY NoKeys, CapacitiesPositive DEF Init, CacheOK
<1>2. LoopOK
  <2>1. <<>> \in Seq(Dumped)
    OBVIOUS
  <2>. QED
    BY <2>1, Limits DEF Init, LoopOK, Files
<1>3. ServerOK
  BY Limits DEF Init, ServerOK
<1>. QED
  BY <1>1, <1>2, <1>3 DEF Init, TypeInv, DownIsCold, LoopOnlyUp

(* A cache with the same keys, or fewer, stays within its capacity. *)
LEMMA FewerKeys ==
  ASSUME CacheOK, DOMAIN cache' \subseteq DOMAIN cache, UNCHANGED capacity,
         \A k \in DOMAIN cache' : cache'[k] \in Entry
  PROVE  CacheOK'
<1>1. IsFiniteSet(DOMAIN cache)
  BY KeySets DEF CacheOK
<1>2. Cardinality(DOMAIN cache') <= Cardinality(DOMAIN cache)
  BY <1>1, FS_Subset
<1>3. /\ Cardinality(DOMAIN cache) \in Nat /\ Cardinality(DOMAIN cache') \in Nat
      /\ capacity \in Nat
  BY KeySets, CapacitiesPositive DEF CacheOK
<1>. QED
  BY <1>2, <1>3 DEF CacheOK

(* Each use of the cache keeps the types. *)
LEMMA UseTyped ==
  ASSUME TypeInv, Tick \/ \E k \in Keys : Insert(k) \/ Hit(k) \/ Miss(k)
  PROVE  TypeInv'
<1>. USE DEF TypeInv
<1>1. ASSUME NEW k \in Keys, Insert(k) PROVE TypeInv'
  <2>1. New(0) \in Entry
    BY Limits, NewOK
  <2>2. CacheOK'
    BY <1>1, <2>1, InsertedOK DEF Insert, server
  <2>. QED
    BY <1>1, <2>2 DEF Insert, server, LoopOK, ServerOK, DownIsCold, LoopOnlyUp
<1>2. ASSUME NEW k \in Keys, Hit(k) PROVE TypeInv'
  <2>1. DOMAIN cache' = DOMAIN cache /\ UNCHANGED capacity
    BY <1>2 DEF Hit, server
  <2>2. \A j \in DOMAIN cache : cache'[j] \in Entry
    BY <1>2, Limits DEF Hit, Live, CacheOK, Entry
  <2>3. CacheOK'
    BY <2>1, <2>2, FewerKeys
  <2>. QED
    BY <1>2, <2>3 DEF Hit, server, LoopOK, ServerOK, DownIsCold, LoopOnlyUp
<1>3. ASSUME NEW k \in Keys, Miss(k) PROVE TypeInv'
  <2>1. CacheOK'
    BY <1>3, FewerKeys DEF Miss, server, CacheOK
  <2>. QED
    BY <1>3, <2>1 DEF Miss, server, LoopOK, ServerOK, DownIsCold, LoopOnlyUp
<1>4. CASE Tick
  <2>1. DOMAIN cache' = DOMAIN cache /\ UNCHANGED capacity
    BY <1>4 DEF Tick
  <2>2. \A n \in 0..(Ttl + 1) : Later(n) \in 0..(Ttl + 1)
    BY Limits DEF Later
  <2>3. \A j \in DOMAIN cache : cache'[j] \in Entry
    BY <1>4, <2>2 DEF Tick, CacheOK, Entry
  <2>4. CacheOK'
    BY <2>1, <2>3, FewerKeys
  <2>. QED
    BY <1>4, <2>1, <2>4, Limits DEF Tick, LoopOK, ServerOK, DownIsCold, LoopOnlyUp
<1>. QED
  BY <1>1, <1>2, <1>3, <1>4

(* What is read back is a dumped entry. *)
LEMMA ContentOK ==
  ASSUME LoopOK
  PROVE  /\ Content(dump) \in Seq(Dumped)
         /\ \A i \in 1..Len(Content(dump)) : Content(dump) = dump /\ dump[i] \in Dumped
BY DEF LoopOK, Files, Content

(* Each step of a start keeps the types. *)
LEMMA StartTyped ==
  ASSUME TypeInv, Start \/ WarmOne \/ Warmed \/ WarmFails
  PROVE  TypeInv'
<1>. USE DEF TypeInv
<1>1. CASE Start
  <2>1. DOMAIN cache = {} /\ UNCHANGED cache /\ capacity' \in Capacities
    BY <1>1 DEF Start, DownIsCold
  <2>2. CacheOK'
    BY <2>1, NoKeys, CapacitiesPositive DEF CacheOK
  <2>. QED
    BY <1>1, <2>2, Limits DEF Start, LoopOK, ServerOK, DownIsCold, LoopOnlyUp
<1>2. CASE WarmOne
  <2>1. loaded + 1 \in 1..Len(Content(dump))
    BY <1>2, ContentOK DEF WarmOne, ServerOK
  <2>2. dump[loaded + 1] \in Dumped
    BY <2>1, ContentOK
  <2>3. CacheOK'
    BY <1>2, <2>2, InsertedOK, NewOK DEF WarmOne, Dumped
  <2>. QED
    BY <1>2, <2>3, Limits DEF WarmOne, LoopOK, ServerOK, DownIsCold, LoopOnlyUp
<1>3. CASE Warmed \/ WarmFails
  <2>1. Serve
    BY <1>3 DEF Warmed, WarmFails
  <2>. QED
    BY <2>1 DEF Serve, CacheOK, LoopOK, ServerOK, DownIsCold, LoopOnlyUp
<1>. QED
  BY <1>1, <1>2, <1>3

LEMMA AgainOK ==
  ASSUME LoopOK, NEW ok \in BOOLEAN, Again(ok)
  PROVE  /\ failures' \in 0..FailureLimit
         /\ dumper' \in {"off", "waiting", "sleeping"}
BY Limits DEF LoopOK, Again

(* Each step of the dump loop keeps the types. *)
LEMMA LoopTyped ==
  ASSUME TypeInv, IntervalTick \/ LoopStep
  PROVE  TypeInv'
<1>. USE DEF TypeInv
<1>1. UNCHANGED <<server, cache>> /\ dumper # "off"
  BY DEF IntervalTick, LoopStep, ShutdownSeen, BeginDump, WriteTmp, Rename, DumpFails, WakeUp
<1>2. CacheOK' /\ ServerOK' /\ DownIsCold' /\ LoopOnlyUp'
  BY <1>1 DEF server, CacheOK, ServerOK, DownIsCold, LoopOnlyUp
<1>3. LoopOK'
  <2>1. ASSUME NEW isFinal \in BOOLEAN, BeginDump(isFinal) PROVE LoopOK'
    <3>1. PICK top \in TopEntries :
             \/ /\ dumper' \in {"off", "waiting"} /\ failures' = 0
                /\ UNCHANGED <<buffer, tmp, dump>>
             \/ /\ dumper' = "writing" /\ buffer' = top
                /\ tmp' = Torn /\ UNCHANGED <<failures, dump>>
      BY <2>1 DEF BeginDump
    <3>2. top \in Seq(Dumped)
      BY TopOK
    <3>. QED
      BY <3>1, <3>2, Limits DEF LoopOK, Files
  <2>2. CASE WriteTmp
    <3>1. <<>> \in Seq(Dumped)
      OBVIOUS
    <3>. QED
      BY <2>2, <3>1 DEF WriteTmp, LoopOK, Files
  <2>3. CASE Rename
    BY <2>3, AgainOK DEF Rename, LoopOK, Files
  <2>4. CASE DumpFails
    <3>1. <<>> \in Seq(Dumped)
      OBVIOUS
    <3>. QED
      BY <2>4, <3>1, AgainOK DEF DumpFails, LoopOK, Files
  <2>5. CASE WakeUp
    BY <2>5 DEF WakeUp, LoopOK
  <2>. QED
    BY <2>1, <2>2, <2>3, <2>4, <2>5 DEF IntervalTick, LoopStep, ShutdownSeen
<1>. QED
  BY <1>2, <1>3

(* The end of the process keeps the types. *)
LEMMA EndTyped ==
  ASSUME TypeInv, SignalShutdown \/ Exit
  PROVE  TypeInv'
<1>. USE DEF TypeInv
<1>1. CASE SignalShutdown
  BY <1>1 DEF SignalShutdown, CacheOK, LoopOK, ServerOK, DownIsCold, LoopOnlyUp
<1>2. CASE Exit
  <2>1. CacheOK'
    BY <1>2, NoKeys, CapacitiesPositive DEF Exit, CacheOK
  <2>2. <<>> \in Seq(Dumped)
    OBVIOUS
  <2>. QED
    BY <1>2, <2>1, <2>2, Limits DEF Exit, LoopOK, Files, ServerOK, DownIsCold, LoopOnlyUp
<1>. QED
  BY <1>1, <1>2

LEMMA TypeStep == TypeInv /\ [Next]_vars => TypeInv'
<1>1. TypeInv /\ Next => TypeInv'
  BY UseTyped, StartTyped, LoopTyped, EndTyped DEF Next
<1>2. TypeInv /\ UNCHANGED vars => TypeInv'
  BY DEF vars, TypeInv, CacheOK, LoopOK, ServerOK, DownIsCold, LoopOnlyUp
<1>. QED
  BY <1>1, <1>2

LEMMA TypeInvariant == Spec => []TypeInv
BY TypeInit, TypeStep, PTL DEF Spec

(* The cache, the files and the loop keep their types, and the cache stays   *)
(* within the capacity of this start however warming fills it (insert_warm, *)
(* dump_loop).                                                              *)
THEOREM TypeCorrect == Spec => []TypeOK
<1>1. TypeInv /\ FlagsOK => TypeOK
  BY TypeParts DEF TypeInv
<1>. QED
  BY <1>1, TypeInvariant, Flags, PTL

-----------------------------------------------------------------------------
(* The dump file *)

Whole(file) == file # Torn /\ Sorted(Content(file))

(* What makes DumpIsWhole inductive: what is about to be written, and what  *)
(* is about to be renamed, is whole; the temporary file may be torn at any  *)
(* other time.                                                              *)
DumpInv ==
    /\ Whole(dump)
    /\ dumper = "writing" => Whole(buffer)
    /\ dumper = "renaming" => Whole(tmp)

(* What top_by_hit_count returns is a whole file once written. *)
LEMMA TopIsWhole ==
  ASSUME CacheOK, NEW top \in TopEntries
  PROVE  Whole(top)
<1>1. top \in Seq(Dumped) /\ Sorted(top)
  BY TopOK
<1>2. top # Torn /\ top # NoFile
  BY <1>1, TornIsNoDump
<1>. QED
  BY <1>1, <1>2 DEF Whole, Content

(* Only a whole temporary file is ever renamed (dump_once).                 *)
LEMMA DumpStep == TypeInv /\ DumpInv /\ [Next]_vars => DumpInv'
<1>. SUFFICES ASSUME TypeInv, DumpInv, [Next]_vars PROVE DumpInv'
  OBVIOUS
<1>1. ASSUME NEW isFinal, BeginDump(isFinal) PROVE DumpInv'
  <2>1. PICK top \in TopEntries :
           \/ dumper' \in {"off", "waiting"} /\ UNCHANGED dump
           \/ dumper' = "writing" /\ buffer' = top /\ UNCHANGED dump
    BY <1>1 DEF BeginDump
  <2>2. Whole(top)
    BY TopIsWhole DEF TypeInv
  <2>. QED
    BY <2>1, <2>2 DEF DumpInv, Whole, Content
<1>2. CASE WriteTmp
  BY <1>2 DEF WriteTmp, DumpInv, Whole, Content
<1>3. CASE Rename
  <2>1. dumper' \in {"off", "waiting", "sleeping"}
    BY <1>3, AgainOK DEF Rename, TypeInv
  <2>. QED
    BY <1>3, <2>1 DEF Rename, DumpInv, Whole, Content
<1>4. CASE DumpFails
  <2>1. dumper' \in {"off", "waiting", "sleeping"}
    BY <1>4, AgainOK DEF DumpFails, TypeInv
  <2>. QED
    BY <1>4, <2>1 DEF DumpFails, DumpInv, Whole, Content
<1>5. CASE WakeUp
  BY <1>5 DEF WakeUp, DumpInv, Whole, Content
<1>6. CASE Warmed \/ WarmFails
  BY <1>6 DEF Warmed, WarmFails, Serve, DumpInv, Whole, Content
<1>7. CASE Exit
  BY <1>7 DEF Exit, DumpInv, Whole, Content
<1>8. CASE \/ \E k \in Keys : Insert(k) \/ Hit(k) \/ Miss(k)
           \/ Tick \/ Start \/ WarmOne \/ SignalShutdown \/ UNCHANGED vars
  BY <1>8 DEF Insert, Hit, Miss, Tick, Start, WarmOne, SignalShutdown, vars,
     DumpInv, Whole, Content
<1>. QED
  BY <1>1, <1>2, <1>3, <1>4, <1>5, <1>6, <1>7, <1>8
     DEF Next, LoopStep, IntervalTick, ShutdownSeen

LEMMA DumpInvariant == Spec => []DumpInv
<1>1. Init => DumpInv
  BY FilesDiffer DEF Init, DumpInv, Whole, Content, Sorted
<1>. QED
  BY <1>1, DumpStep, TypeInvariant, PTL DEF Spec

(* The dump file is absent or whole at every moment, so a crash at any point *)
(* of a dump leaves a file that can be parsed, or none (dump_once writes to *)
(* a temporary name and renames).                                           *)
THEOREM DumpStaysWhole == Spec => []DumpIsWhole
<1>1. DumpInv => DumpIsWhole
  BY DEF DumpInv, Whole, Sorted, DumpIsWhole, Content
<1>. QED
  BY <1>1, DumpInvariant, PTL

-----------------------------------------------------------------------------
(* Warming *)

(* The entries with at least h hits. *)
AtLeast(c, h) == {k \in DOMAIN c : c[k].hits >= h}

(* What makes WarmKeepsHottest inductive: while it warms, the cache holds    *)
(* entries of the dump as they were dumped, and it is full once one of      *)
(* them was pushed out.                                                     *)
WarmInv ==
    phase = "warming" =>
        /\ loaded <= Len(Content(dump))
        /\ \A k \in DOMAIN cache : \E i \in 1..loaded :
              dump[i].key = k /\ cache[k] = New(dump[i].hits)
        /\ \A i \in 1..loaded :
              dump[i].key \notin DOMAIN cache =>
                 /\ Cardinality(DOMAIN cache) = capacity
                 /\ Cardinality(AtLeast(cache, dump[i].hits)) >= capacity - 1

(* One entry of the least hits leaves a full cache: all but one of what is  *)
(* left still have what they had.                                           *)
LEMMA LeastGoes ==
  ASSUME CacheOK, NEW v \in DOMAIN cache, NEW h \in Nat,
         \A i \in DOMAIN cache : cache[v].hits <= cache[i].hits,
         Cardinality(DOMAIN cache) = capacity,
         h <= cache[v].hits \/ Cardinality(AtLeast(cache, h)) >= capacity - 1
  PROVE  Cardinality(AtLeast(cache, h) \ {v}) >= capacity - 1
<1>1. AtLeast(cache, h) \subseteq DOMAIN cache /\ IsFiniteSet(AtLeast(cache, h)) /\ capacity \in Nat
  BY KeySets, CapacitiesPositive DEF AtLeast, CacheOK
<1>2. \A i \in DOMAIN cache : cache[i].hits \in Nat
  BY DEF CacheOK, Entry
<1>3. CASE h <= cache[v].hits
  <2>1. AtLeast(cache, h) = DOMAIN cache
    BY <1>2, <1>3 DEF AtLeast
  <2>2. Cardinality(DOMAIN cache \ {v}) = capacity - 1
    BY <1>1, <2>1, FS_RemoveElement
  <2>. QED
    BY <1>1, <2>1, <2>2
<1>4. CASE ~(h <= cache[v].hits)
  <2>1. v \notin AtLeast(cache, h)
    BY <1>2, <1>4 DEF AtLeast
  <2>2. AtLeast(cache, h) \ {v} = AtLeast(cache, h)
    BY <2>1
  <2>. QED
    BY <1>4, <2>2
<1>. QED
  BY <1>3, <1>4

LEMMA WarmOneStep ==
  ASSUME TypeInv, DumpInv, WarmInv, WarmOne
  PROVE  WarmInv'
<1>. DEFINE n == loaded + 1
            d == dump[n]
<1>1. CacheOK /\ ServerOK /\ LoopOK /\ CacheOK'
  BY StartTyped DEF TypeInv
<1>2. /\ loaded \in Nat /\ n \in 1..Len(Content(dump)) /\ dump = Content(dump)
      /\ \A i \in 1..n : dump[i] \in Dumped
  BY <1>1, ContentOK DEF WarmOne, ServerOK
<1>3. \A i, j \in 1..n : i # j => dump[i].key # dump[j].key
  <2>1. \A i, j \in 1..n : i < j => dump[i].key # dump[j].key
    BY <1>1, <1>2, ContentOK DEF DumpInv, Whole, Sorted
  <2>. QED
    BY <1>2, <2>1
<1>4. /\ \A k \in DOMAIN cache : \E i \in 1..loaded :
            dump[i].key = k /\ cache[k] = New(dump[i].hits)
      /\ \A i \in 1..loaded :
            dump[i].key \notin DOMAIN cache =>
               /\ Cardinality(DOMAIN cache) = capacity
               /\ Cardinality(AtLeast(cache, dump[i].hits)) >= capacity - 1
  BY DEF WarmOne, WarmInv
<1>5. d.key \notin DOMAIN cache
  BY <1>2, <1>3, <1>4
<1>6. \A k \in DOMAIN cache : ~Expired(cache[k])
  BY <1>4, Limits DEF Expired, New
<1>7. /\ capacity \in Nat \ {0} /\ IsFiniteSet(DOMAIN cache)
      /\ Cardinality(DOMAIN cache) \in Nat /\ Cardinality(DOMAIN cache) <= capacity
  BY <1>1, KeySets, CapacitiesPositive DEF CacheOK
<1>8. PICK H \in SUBSET DOMAIN cache :
         /\ cache' = Put(cache, H, d.key, New(d.hits))
         /\ Cardinality(DOMAIN cache) < capacity => H = {}
         /\ Cardinality(DOMAIN cache) >= capacity =>
               \E v \in DOMAIN cache : /\ H = {v}
                                       /\ \A i \in DOMAIN cache : cache[v].hits <= cache[i].hits
  <2>1. cache' \in Inserted(cache, d.key, New(d.hits)) /\ \A j \in DOMAIN cache : cache[j] \in Entry
    BY <1>1 DEF WarmOne, CacheOK
  <2>2. PICK H \in SUBSET DOMAIN cache :
           /\ cache' = Put(cache, H, d.key, New(d.hits))
           /\ Cardinality(DOMAIN cache) < capacity => H = {}
           /\ Cardinality(DOMAIN cache) >= capacity =>
                \/ H # {} /\ \A j \in H : Expired(cache[j])
                \/ \E v \in DOMAIN cache : /\ H = {v}
                                           /\ \A i \in DOMAIN cache : cache[v].hits <= cache[i].hits
    BY <1>7, <2>1, InsertedIs
  <2>. QED
    BY <1>6, <2>2
<1>9. UNCHANGED <<phase, capacity, dump>> /\ loaded' = n
  BY DEF WarmOne
<1>10. /\ DOMAIN cache' = (DOMAIN cache \ H) \cup {d.key}
       /\ \A k \in DOMAIN cache \ H : cache'[k] = cache[k]
       /\ cache'[d.key] = New(d.hits)
  BY <1>5, <1>8 DEF Put
<1>11. \A k \in DOMAIN cache' : \E i \in 1..loaded' :
          dump'[i].key = k /\ cache'[k] = New(dump'[i].hits)
  BY <1>2, <1>4, <1>9, <1>10
<1>12. ASSUME NEW i \in 1..loaded', dump'[i].key \notin DOMAIN cache'
       PROVE  /\ Cardinality(DOMAIN cache') = capacity'
              /\ Cardinality(AtLeast(cache', dump'[i].hits)) >= capacity' - 1
  <2>1. i \in 1..loaded /\ (dump[i].key \in H \/ dump[i].key \notin DOMAIN cache)
    BY <1>2, <1>9, <1>10, <1>12
  <2>2. Cardinality(DOMAIN cache) = capacity
    BY <1>4, <1>7, <1>8, <2>1
  <2>3. PICK v \in DOMAIN cache : /\ H = {v}
                                 /\ \A j \in DOMAIN cache : cache[v].hits <= cache[j].hits
    BY <1>7, <1>8, <2>2
  <2>4. Cardinality(DOMAIN cache') = capacity
    <3>1. /\ IsFiniteSet(DOMAIN cache \ {v})
          /\ Cardinality(DOMAIN cache \ {v}) = capacity - 1
      BY <1>7, <2>2, FS_RemoveElement
    <3>2. d.key \notin DOMAIN cache \ {v}
      BY <1>5
    <3>3. Cardinality((DOMAIN cache \ {v}) \cup {d.key}) = capacity - 1 + 1
      BY <3>1, <3>2, FS_AddElement
    <3>. QED
      BY <1>7, <1>10, <2>3, <3>3
  <2>. DEFINE h == dump[i].hits
  <2>5. h \in Nat
    BY <1>2, <2>1, Limits DEF Dumped
  <2>6. h <= cache[v].hits \/ Cardinality(AtLeast(cache, h)) >= capacity - 1
    <3>1. CASE dump[i].key \notin DOMAIN cache
      BY <1>4, <2>1, <3>1
    <3>2. CASE dump[i].key = v
      <4>1. PICK j \in 1..loaded : dump[j].key = v /\ cache[v] = New(dump[j].hits)
        BY <1>4
      <4>2. i = j
        BY <1>2, <1>3, <2>1, <3>2, <4>1
      <4>. QED
        BY <2>5, <4>1, <4>2 DEF New
    <3>. QED
      BY <2>1, <2>3, <3>1, <3>2
  <2>7. Cardinality(AtLeast(cache, h) \ {v}) >= capacity - 1
    BY <1>1, <2>2, <2>3, <2>5, <2>6, LeastGoes
  <2>8. AtLeast(cache, h) \ {v} \subseteq AtLeast(cache', dump'[i].hits)
    BY <1>9, <1>10, <2>3 DEF AtLeast
  <2>9. /\ IsFiniteSet(AtLeast(cache', dump'[i].hits))
        /\ Cardinality(AtLeast(cache', dump'[i].hits)) \in Nat
    BY <1>1, KeySets DEF AtLeast, CacheOK
  <2>10. /\ Cardinality(AtLeast(cache, h) \ {v}) <= Cardinality(AtLeast(cache', dump'[i].hits))
         /\ Cardinality(AtLeast(cache, h) \ {v}) \in Nat
    BY <2>8, <2>9, FS_Subset, FS_CardinalityType
  <2>. QED
    BY <1>7, <1>9, <2>4, <2>7, <2>9, <2>10
<1>13. loaded' <= Len(Content(dump))'
  BY <1>2, <1>9 DEF Content
<1>. QED
  BY <1>11, <1>12, <1>13 DEF WarmInv

LEMMA WarmStep == TypeInv /\ DumpInv /\ WarmInv /\ [Next]_vars => WarmInv'
<1>. SUFFICES ASSUME TypeInv, DumpInv, WarmInv, [Next]_vars PROVE WarmInv'
  OBVIOUS
<1>1. CASE WarmOne
  BY <1>1, WarmOneStep
<1>2. CASE Start
  <2>1. DOMAIN cache' = {} /\ loaded' = 0
    BY <1>2 DEF Start, TypeInv, DownIsCold
  <2>2. Len(Content(dump)') \in Nat
    <3>1. dump' \in Files
      BY <1>2 DEF Start, TypeInv, LoopOK
    <3>. QED
      BY <3>1 DEF Files, Content
  <2>. QED
    BY <2>1, <2>2 DEF WarmInv
<1>3. CASE Warmed \/ WarmFails \/ Exit
  BY <1>3 DEF Warmed, WarmFails, Serve, Exit, WarmInv
<1>4. CASE \/ \E k \in Keys : Insert(k) \/ Hit(k) \/ Miss(k)
           \/ Tick \/ SignalShutdown
  BY <1>4 DEF Insert, Hit, Miss, Tick, SignalShutdown, server, WarmInv
<1>5. CASE IntervalTick \/ LoopStep
  BY <1>5 DEF IntervalTick, LoopStep, ShutdownSeen, BeginDump, WriteTmp, Rename,
     DumpFails, WakeUp, server, TypeInv, LoopOnlyUp, WarmInv
<1>6. CASE UNCHANGED vars
  BY <1>6 DEF vars, WarmInv, Content, AtLeast
<1>. QED
  BY <1>1, <1>2, <1>3, <1>4, <1>5, <1>6 DEF Next

(* However small the cache of this start is, an entry of the dump that      *)
(* warming pushed out is not hotter than all but one of those it kept       *)
(* (warm inserts them by falling hits through insert_warm, which evicts).   *)
THEOREM WarmingKeepsHottest == Spec => WarmKeepsHottest
<1>1. Init => WarmInv
  BY DEF Init, WarmInv
<1>2. Spec => []WarmInv
  BY <1>1, WarmStep, TypeInvariant, DumpInvariant, PTL DEF Spec
<1>. DEFINE Kept == \A i \in 1..loaded :
                      dump[i].key \notin DOMAIN cache =>
                         Cardinality({k \in DOMAIN cache : cache[k].hits >= dump[i].hits})
                            >= capacity - 1
<1>3. WarmInv => (Warmed => Kept)
  BY DEF WarmInv, Warmed, AtLeast
<1>. QED
  BY <1>2, <1>3, PTL DEF WarmKeepsHottest

=============================================================================
