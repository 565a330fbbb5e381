-------------------------- MODULE ExactCacheProofs --------------------------
(***************************************************************************)
(* Proofs about ExactCache: its type invariant, that it implements the     *)
(* contract of a lossy cache, for every number of clients, hashes, shards, *)
(* eviction attempts and every capacity, and that one client alone keeps   *)
(* its capacity and evicts what it should.                                 *)
(***************************************************************************)
EXTENDS ExactCache, FiniteSetTheorems, WellFoundedInduction, TLAPS

(* The part of TypeOK that speaks of the map. *)
MapOK ==
    /\ DOMAIN map \subseteq Hashes
    /\ \A h \in DOMAIN map : map[h] \in Entry

(* The part of TypeOK that speaks of the calls in progress. *)
CallsOK ==
    /\ pc \in [Clients -> Labels]
    /\ job \in [Clients -> Job]
    /\ \A p \in Clients :
          (job[p].put # None) <=> pc[p] \in {"len", "scanExpired", "scanLeast", "evict", "put"}

AnswersOK == answer \in [Clients -> Responses \cup {None}]

LEMMA TypeParts ==
  /\ TypeOK <=> MapOK /\ CallsOK /\ AnswersOK
  /\ TypeOK' <=> MapOK' /\ CallsOK' /\ AnswersOK'
BY DEF TypeOK, MapOK, CallsOK, AnswersOK

(* The number of keys of a shard is a natural number. *)
LEMMA ShardCount ==
  ASSUME MapOK, NEW s
  PROVE  InShard(s) \subseteq Hashes /\ Cardinality(InShard(s)) \in Nat
<1>1. InShard(s) \subseteq Hashes
  BY DEF InShard, MapOK
<1>2. IsFiniteSet(InShard(s))
  BY <1>1, HashesFinite, FS_Subset
<1>. QED
  BY <1>1, <1>2, FS_CardinalityType

(* Moving one client to a typed label and typed locals keeps the calls typed. *)
LEMMA GotoOK ==
  ASSUME CallsOK, NEW p \in Clients, NEW label \in Labels, NEW locals \in Job,
         Goto(p, label, locals),
         (locals.put # None) <=> label \in {"len", "scanExpired", "scanLeast", "evict", "put"}
  PROVE  CallsOK'
BY DEF CallsOK, Goto

(* The cursor of a scan stays among the shards. *)
LEMMA FirstShard == 1 \in 1..Shards
BY ShardsCover

LEMMA NextShard ==
  ASSUME NEW j \in Job, j.shard < Shards
  PROVE  j.shard + 1 \in 1..Shards
BY ShardsCover DEF Job

LEMMA NoJobOK == NoJob \in Job /\ NoJob.put = None
BY FirstShard DEF NoJob, Job

(* A call that returns keeps the calls typed. *)
LEMMA ReturnOK ==
  ASSUME CallsOK, NEW p \in Clients, Return(p)
  PROVE  CallsOK'
BY NoJobOK, GotoOK DEF Return, Labels

(* The operators on the map keep it typed. *)
LEMMA WithoutOK ==
  ASSUME MapOK, NEW H, map' = Without(map, H)
  PROVE  MapOK'
BY DEF MapOK, Without

LEMMA WithOK ==
  ASSUME MapOK, NEW h \in Hashes, NEW e \in Entry, map' = With(map, h, e)
  PROVE  MapOK'
BY DEF MapOK, With

-----------------------------------------------------------------------------
LEMMA TypeInit == Init => TypeOK
<1>. SUFFICES ASSUME Init PROVE MapOK /\ CallsOK /\ AnswersOK
  BY TypeParts
<1>1. MapOK
  BY DEF Init, MapOK
<1>2. CallsOK
  BY NoJobOK DEF Init, CallsOK, Labels
<1>3. AnswersOK
  BY DEF Init, AnswersOK
<1>. QED
  BY <1>1, <1>2, <1>3

(* Each step of a get keeps the types. *)
LEMMA GetSteps ==
  ASSUME TypeOK, NEW p \in Clients,
         DropStale(p) \/ \E h \in Hashes : GetMiss(p, h) \/ GetHit(p, h) \/ GetExpired(p, h)
  PROVE  TypeOK'
<1>. USE TypeParts
<1>1. CASE DropStale(p)
  BY <1>1, WithoutOK, ReturnOK DEF DropStale, AnswersOK
<1>2. ASSUME NEW h \in Hashes, GetMiss(p, h) PROVE TypeOK'
  BY <1>2 DEF GetMiss, MapOK, CallsOK, AnswersOK
<1>3. ASSUME NEW h \in Hashes, GetHit(p, h) PROVE TypeOK'
  BY <1>3 DEF GetHit, MapOK, CallsOK, AnswersOK, Entry
<1>4. ASSUME NEW h \in Hashes, GetExpired(p, h) PROVE TypeOK'
  <2>1. [NoJob EXCEPT !.keys = {h}] \in Job /\ [NoJob EXCEPT !.keys = {h}].put = None
    BY NoJobOK DEF Job
  <2>2. CallsOK'
    BY <1>4, <2>1, GotoOK DEF GetExpired, Labels
  <2>. QED
    BY <1>4, <2>2 DEF GetExpired, MapOK, AnswersOK
<1>. QED
  BY <1>1, <1>2, <1>3, <1>4

(* Starting an insert keeps the types. *)
LEMMA StartOK ==
  ASSUME TypeOK, NEW p \in Clients, NEW h \in Hashes, NEW r \in Responses,
         NEW n \in Nat, NEW ttl \in Ttls, StartInsert(p, h, r, n, ttl)
  PROVE  TypeOK'
<1>. DEFINE e == [resp |-> r, hits |-> n, age |-> 0, ttl |-> ttl]
            j == [NoJob EXCEPT !.put = [hash |-> h, entry |-> e]]
<1>1. e \in Entry
  BY DEF Entry
<1>2. j.put = [hash |-> h, entry |-> e] /\ j.put \in PutJob /\ j.put # None
  BY <1>1, NoneIsOutside DEF NoJob, PutJob
<1>3. j \in Job
  BY <1>2, NoJobOK DEF Job
<1>4. CallsOK'
  BY <1>2, <1>3, GotoOK, TypeParts DEF StartInsert, Labels
<1>. QED
  BY <1>4, TypeParts DEF StartInsert, MapOK, AnswersOK

-----------------------------------------------------------------------------
(* Each step of an insert in progress keeps the types. *)
LEMMA CountOK ==
  ASSUME TypeOK, NEW p \in Clients, CountShard(p)
  PROVE  TypeOK'
<1>. DEFINE j == job[p]
            n == j.count + Cardinality(InShard(j.shard))
            more == [j EXCEPT !.shard = @ + 1, !.count = n]
            done == [j EXCEPT !.shard = 1, !.count = 0]
<1>1. j \in Job /\ j.put # None
  BY TypeParts DEF CountShard, CallsOK
<1>2. n \in Nat
  BY <1>1, TypeParts, ShardCount DEF Job
<1>3. done \in Job /\ done.put # None
  BY <1>1, FirstShard, NextShard DEF Job
<1>4. ASSUME j.shard < Shards PROVE more \in Job /\ more.put # None
  BY <1>1, <1>2, <1>4, FirstShard, NextShard DEF Job
<1>5. CallsOK'
  <2>1. CASE j.shard < Shards
    <3>1. Goto(p, "len", more)
      BY <2>1 DEF CountShard
    <3>. QED
      BY <1>4, <2>1, <3>1, GotoOK, TypeParts DEF Labels
  <2>2. CASE ~(j.shard < Shards)
    <3>1. \E label \in {"scanExpired", "put"} : Goto(p, label, done)
      BY <2>2 DEF CountShard
    <3>. QED
      BY <1>3, <3>1, GotoOK, TypeParts DEF Labels
  <2>. QED
    BY <2>1, <2>2
<1>. QED
  BY <1>5, TypeParts DEF CountShard, MapOK, AnswersOK

(* An eviction that ends leaves the insert typed. *)
LEMMA EvictDoneOK ==
  ASSUME CallsOK, NEW p \in Clients, NEW j \in Job, j.put # None, EvictDone(p, j)
  PROVE  CallsOK'
<1>. DEFINE k == [j EXCEPT !.attempts = @ + 1, !.shard = 1, !.keys = {}, !.least = 0]
<1>. j.attempts + 1 \in Nat /\ {} \in SUBSET Hashes
  BY DEF Job
<1>1. k \in Job /\ k.put # None
  BY FirstShard DEF Job
<1>2. Goto(p, "len", k)
  BY DEF EvictDone
<1>. QED
  BY <1>1, <1>2, GotoOK DEF Labels

LEMMA ScanExpiredOK ==
  ASSUME TypeOK, NEW p \in Clients, ScanExpired(p)
  PROVE  TypeOK'
<1>. DEFINE j == job[p]
            found == j.keys \cup {h \in InShard(j.shard) : Expired(map[h])}
            more == [j EXCEPT !.shard = @ + 1, !.keys = found]
            done == [j EXCEPT !.shard = 1, !.keys = found]
<1>1. j \in Job /\ j.put # None
  BY TypeParts DEF ScanExpired, CallsOK
<1>2. found \subseteq Hashes
  BY <1>1, TypeParts, ShardCount DEF Job
<1>3. done \in Job /\ done.put # None
  BY <1>1, <1>2, FirstShard, NextShard DEF Job
<1>4. CallsOK'
  <2>1. CASE j.shard < Shards
    <3>1. more \in Job /\ more.put # None
      BY <1>1, <1>2, <2>1, FirstShard, NextShard DEF Job
    <3>2. Goto(p, "scanExpired", more)
      BY <2>1 DEF ScanExpired
    <3>. QED
      BY <3>1, <3>2, GotoOK, TypeParts DEF Labels
  <2>2. CASE ~(j.shard < Shards)
    <3>1. \E label \in {"scanLeast", "evict"} : Goto(p, label, done)
      BY <2>2 DEF ScanExpired
    <3>. QED
      BY <1>3, <3>1, GotoOK, TypeParts DEF Labels
  <2>. QED
    BY <2>1, <2>2
<1>. QED
  BY <1>4, TypeParts DEF ScanExpired, MapOK, AnswersOK

(* Visiting one shard in search of the least-used key keeps the calls typed. *)
LEMMA VisitOK ==
  ASSUME CallsOK, NEW p \in Clients, NEW j \in Job, NEW k \in Job,
         k.put # None, Visit(p, j, k)
  PROVE  CallsOK'
<1>1. CASE j.shard < Shards
  <2>. DEFINE n == [k EXCEPT !.shard = j.shard + 1]
  <2>1. n \in Job /\ n.put # None
    BY <1>1, FirstShard, NextShard DEF Job
  <2>2. Goto(p, "scanLeast", n)
    BY <1>1 DEF Visit
  <2>. QED
    BY <2>1, <2>2, GotoOK DEF Labels
<1>2. CASE ~(j.shard < Shards) /\ k.keys = {}
  BY <1>2, EvictDoneOK DEF Visit
<1>3. CASE ~(j.shard < Shards) /\ k.keys # {}
  <2>. DEFINE n == [k EXCEPT !.shard = 1]
  <2>1. n \in Job /\ n.put # None
    BY FirstShard, NextShard DEF Job
  <2>2. Goto(p, "evict", n)
    BY <1>3 DEF Visit
  <2>. QED
    BY <2>1, <2>2, GotoOK DEF Labels
<1>. QED
  BY <1>1, <1>2, <1>3

LEMMA ScanLeastOK ==
  ASSUME TypeOK, NEW p \in Clients, ScanLeast(p)
  PROVE  TypeOK'
<1>. DEFINE j == job[p]
<1>1. j \in Job /\ j.put # None
  BY TypeParts DEF ScanLeast, CallsOK
<1>2. CallsOK'
  <2>1. CASE Visit(p, j, j)
    BY <1>1, <2>1, VisitOK, TypeParts
  <2>2. ASSUME NEW h \in LeastIn(j.shard),
               Visit(p, j, [j EXCEPT !.keys = {h}, !.least = map[h].hits])
        PROVE  CallsOK'
    <3>. DEFINE k == [j EXCEPT !.keys = {h}, !.least = map[h].hits]
    <3>1. h \in DOMAIN map /\ h \in Hashes /\ map[h].hits \in Nat
      BY <2>2, TypeParts DEF LeastIn, InShard, MapOK, Entry
    <3>2. k \in Job /\ k.put # None
      BY <1>1, <3>1 DEF Job
    <3>. QED
      BY <1>1, <2>2, <3>2, VisitOK, TypeParts
  <2>. QED
    BY <2>1, <2>2 DEF ScanLeast
<1>. QED
  BY <1>2, TypeParts DEF ScanLeast, MapOK, AnswersOK

LEMMA EvictOK ==
  ASSUME TypeOK, NEW p \in Clients, Evict(p)
  PROVE  TypeOK'
<1>. DEFINE j == job[p]
<1>1. j \in Job /\ j.put # None
  BY TypeParts DEF Evict, CallsOK
<1>2. PICK h \in j.keys :
        /\ map' = Without(map, {h})
        /\ IF j.keys = {h} THEN EvictDone(p, j)
                           ELSE Goto(p, "evict", [j EXCEPT !.keys = @ \ {h}])
  BY DEF Evict
<1>3. MapOK'
  BY <1>2, WithoutOK, TypeParts
<1>4. CallsOK'
  <2>1. CASE j.keys = {h}
    BY <1>1, <1>2, <2>1, EvictDoneOK, TypeParts
  <2>2. CASE j.keys # {h}
    <3>. DEFINE k == [j EXCEPT !.keys = @ \ {h}]
    <3>1. k \in Job /\ k.put # None
      BY <1>1 DEF Job
    <3>. QED
      BY <1>2, <2>2, <3>1, GotoOK, TypeParts DEF Labels
  <2>. QED
    BY <2>1, <2>2
<1>. QED
  BY <1>3, <1>4, TypeParts DEF Evict, AnswersOK

LEMMA PutOK ==
  ASSUME TypeOK, NEW p \in Clients, Put(p)
  PROVE  TypeOK'
<1>1. job[p].put \in PutJob
  BY TypeParts DEF Put, CallsOK, Job
<1>2. MapOK'
  BY <1>1, WithOK, TypeParts DEF Put, PutJob
<1>. QED
  BY <1>2, ReturnOK, TypeParts DEF Put, AnswersOK

(* clear and the passing of time keep the types. *)
LEMMA ClearOK ==
  ASSUME TypeOK, NEW p \in Clients, Clear(p) \/ ClearShard(p)
  PROVE  TypeOK'
<1>. DEFINE j == job[p]
<1>1. CASE Clear(p)
  BY <1>1, NoJobOK, GotoOK, TypeParts DEF Clear, Labels, MapOK, AnswersOK
<1>2. CASE ClearShard(p)
  <2>1. MapOK'
    BY <1>2, WithoutOK, TypeParts DEF ClearShard
  <2>2. j \in Job /\ j.put = None
    BY <1>2, TypeParts DEF ClearShard, CallsOK
  <2>3. CallsOK'
    <3>1. CASE j.shard < Shards
      <4>. DEFINE k == [j EXCEPT !.shard = @ + 1]
      <4>1. k \in Job /\ k.put = None
        BY <2>2, <3>1, FirstShard, NextShard DEF Job
      <4>. QED
        BY <1>2, <3>1, <4>1, GotoOK, TypeParts DEF ClearShard, Labels
    <3>2. CASE ~(j.shard < Shards)
      BY <1>2, <3>2, ReturnOK, TypeParts DEF ClearShard
    <3>. QED
      BY <3>1, <3>2
  <2>. QED
    BY <1>2, <2>1, <2>3, TypeParts DEF ClearShard, AnswersOK
<1>. QED
  BY <1>1, <1>2

LEMMA TickOK ==
  ASSUME TypeOK, Tick
  PROVE  TypeOK'
<1>1. \A e \in Entry : Older(e) \in Entry
  BY DEF Older, Entry
<1>2. MapOK'
  BY <1>1, TypeParts DEF Tick, MapOK
<1>. QED
  BY <1>2, TypeParts DEF Tick, CallsOK, AnswersOK

LEMMA TypeStep == TypeOK /\ [Next]_vars => TypeOK'
<1>. SUFFICES ASSUME TypeOK, [Next]_vars PROVE TypeOK'
  OBVIOUS
<1>1. CASE Tick
  BY <1>1, TickOK
<1>2. ASSUME NEW p \in Clients, Call(p) PROVE TypeOK'
  <2>1. CASE \E h \in Hashes : GetMiss(p, h) \/ GetHit(p, h) \/ GetExpired(p, h)
    BY <2>1, GetSteps
  <2>2. ASSUME NEW h \in Hashes, NEW r \in Responses, Insert(p, h, r) PROVE TypeOK'
    BY <2>2, StartOK, TtlsInTicks DEF Insert, InsertWithTtl
  <2>3. ASSUME NEW h \in Hashes, NEW r \in Responses, NEW ttl \in Ttls,
               InsertWithTtl(p, h, r, ttl)
        PROVE  TypeOK'
    BY <2>3, StartOK DEF InsertWithTtl
  <2>4. ASSUME NEW h \in Hashes, NEW r \in Responses, NEW n \in 0..MaxHits,
               InsertWarm(p, h, r, n)
        PROVE  TypeOK'
    BY <2>4, StartOK, TtlsInTicks DEF InsertWarm
  <2>5. CASE Clear(p)
    BY <2>5, ClearOK
  <2>. QED
    BY <1>2, <2>1, <2>2, <2>3, <2>4, <2>5 DEF Call
<1>3. ASSUME NEW p \in Clients, Work(p) PROVE TypeOK'
  BY <1>3, GetSteps, CountOK, ScanExpiredOK, ScanLeastOK, EvictOK, PutOK, ClearOK DEF Work
<1>4. CASE UNCHANGED vars
  BY <1>4, TypeParts DEF vars, MapOK, CallsOK, AnswersOK
<1>. QED
  BY <1>1, <1>2, <1>3, <1>4 DEF Next

(* The map, the locals of every call and the answers keep their types, and *)
(* a client is inside an insert exactly while it holds an entry to put     *)
(* (insert_with_ttl).                                                      *)
THEOREM TypeCorrect == Spec => []TypeOK
<1>. QED
  BY TypeInit, TypeStep, PTL DEF Spec

-----------------------------------------------------------------------------
(* Removing keys is something the contract allows. *)
LEMMA RemovalIsLose ==
  ASSUME NEW H \in SUBSET Hashes, map' = Without(map, H), UNCHANGED answer
  PROVE  Contract!Lose
BY DEF Contract!Lose, Contract!Without, Without

LEMMA RefuseOrServe ==
  ASSUME TypeOK, NEW p \in Clients, NEW h \in Hashes, GetMiss(p, h) \/ GetHit(p, h)
  PROVE  Contract!Refuse(p) \/ Contract!Serve(p)
<1>1. CASE GetMiss(p, h)
  BY <1>1 DEF GetMiss, Contract!Refuse
<1>2. CASE GetHit(p, h)
  BY <1>2 DEF GetHit, Expired, Contract!Serve, Contract!Expired, Contract!HitAt
<1>. QED
  BY <1>1, <1>2

LEMMA DropIsRefuse ==
  ASSUME TypeOK, NEW p \in Clients, DropStale(p)
  PROVE  Contract!Refuse(p)
<1>1. job[p].keys \in SUBSET Hashes
  BY DEF TypeOK, Job
<1>. QED
  BY <1>1 DEF DropStale, Without, Contract!Refuse, Contract!Without

LEMMA PutIsAdmit ==
  ASSUME TypeOK, TypeOK', NEW p \in Clients, Put(p),
         job[p].put.entry.age = 0
  PROVE  Contract!Admit
<1>. DEFINE h == job[p].put.hash
            e == job[p].put.entry
<1>1. job[p].put \in PutJob
  BY TypeParts DEF Put, CallsOK, Job
<1>2. h \in Hashes /\ e \in Entry
  BY <1>1 DEF PutJob
<1>3. map' = With(map, h, e)
  BY DEF Put
<1>4. h \in DOMAIN map' /\ map'[h] = e
  BY <1>3 DEF With
<1>5. map' = Contract!With(map, h, map'[h])
  BY <1>3, <1>4 DEF With, Contract!With
<1>6. map'[h] \in Contract!Entry
  BY <1>2, <1>4 DEF Entry, Contract!Entry
<1>. QED
  BY <1>2, <1>4, <1>5, <1>6 DEF Put, Contract!Admit

(* An entry waits to be put with the age it was built with: zero.           *)
FreshPuts == \A p \in Clients : job[p].put # None => job[p].put.entry.age = 0

LEMMA FreshInit == Init => FreshPuts
BY DEF Init, FreshPuts, NoJob

LEMMA FreshStep == TypeOK /\ FreshPuts /\ [Next]_vars => FreshPuts'
<1>. SUFFICES ASSUME TypeOK, FreshPuts, [Next]_vars PROVE FreshPuts'
  OBVIOUS
<1>1. ASSUME NEW p \in Clients, NEW label, NEW locals, Goto(p, label, locals),
             locals.put # None => locals.put.entry.age = 0
      PROVE  FreshPuts'
  BY <1>1, TypeParts DEF Goto, FreshPuts, CallsOK
<1>2. ASSUME NEW p \in Clients, Return(p) PROVE FreshPuts'
  BY <1>1, <1>2, NoJobOK DEF Return
<1>3. ASSUME NEW p \in Clients, NEW h \in Hashes, NEW r \in Responses, NEW n, NEW ttl,
             StartInsert(p, h, r, n, ttl)
      PROVE  FreshPuts'
  <2>. DEFINE e == [resp |-> r, hits |-> n, age |-> 0, ttl |-> ttl]
              j == [NoJob EXCEPT !.put = [hash |-> h, entry |-> e]]
  <2>1. j.put.entry.age = 0
    BY DEF NoJob
  <2>2. Goto(p, "len", j)
    BY <1>3 DEF StartInsert
  <2>. QED
    BY <1>1, <2>1, <2>2
<1>4. ASSUME NEW p \in Clients, Call(p) PROVE FreshPuts'
  <2>1. ASSUME NEW h \in Hashes, GetMiss(p, h) \/ GetHit(p, h) PROVE FreshPuts'
    BY <2>1 DEF GetMiss, GetHit, FreshPuts
  <2>2. ASSUME NEW h \in Hashes, GetExpired(p, h) PROVE FreshPuts'
    <3>1. [NoJob EXCEPT !.keys = {h}].put = None
      BY DEF NoJob
    <3>. QED
      BY <1>1, <2>2, <3>1 DEF GetExpired
  <2>3. CASE Clear(p)
    BY <1>1, <2>3, NoJobOK DEF Clear
  <2>. QED
    BY <1>3, <1>4, <2>1, <2>2, <2>3 DEF Call, Insert, InsertWithTtl, InsertWarm
<1>5. ASSUME NEW p \in Clients, Work(p) PROVE FreshPuts'
  <2>. DEFINE j == job[p]
  <2>1. j \in Job /\ (j.put # None => j.put.entry.age = 0)
    BY TypeParts DEF CallsOK, FreshPuts
  <2>2. ASSUME NEW k \in Job, EvictDone(p, k), k.put = j.put PROVE FreshPuts'
    BY <1>1, <2>1, <2>2 DEF EvictDone, Job
  <2>3. CASE DropStale(p) \/ Put(p)
    BY <1>2, <2>3 DEF DropStale, Put
  <2>4. CASE CountShard(p)
    BY <1>1, <2>1, <2>4 DEF CountShard, Job
  <2>5. CASE ScanExpired(p)
    BY <1>1, <2>1, <2>5 DEF ScanExpired, Job
  <2>6. CASE ScanLeast(p)
    BY <1>1, <2>1, <2>2, <2>6 DEF ScanLeast, Visit, Job
  <2>7. CASE Evict(p)
    BY <1>1, <2>1, <2>2, <2>7 DEF Evict, Job
  <2>8. CASE ClearShard(p)
    BY <1>1, <1>2, <2>1, <2>8 DEF ClearShard, Job
  <2>. QED
    BY <1>5, <2>3, <2>4, <2>5, <2>6, <2>7, <2>8 DEF Work
<1>6. CASE Tick \/ UNCHANGED vars
  BY <1>6 DEF Tick, vars, FreshPuts
<1>. QED
  BY <1>4, <1>5, <1>6 DEF Next

-----------------------------------------------------------------------------
(* Every step of the cache is a step of the contract, or changes nothing   *)
(* the contract speaks of.                                                 *)
LEMMA StepRefines ==
  TypeOK /\ TypeOK' /\ FreshPuts /\ [Next]_vars => [Contract!Next]_(Contract!vars)
<1>. SUFFICES ASSUME TypeOK, TypeOK', FreshPuts, [Next]_vars
              PROVE  Contract!Next \/ UNCHANGED <<map, answer>>
  BY DEF Contract!vars
<1>1. CASE Tick
  BY <1>1 DEF Tick, Older, Expired, Contract!Next, Contract!Age, Contract!Older,
              Contract!Expired
<1>2. ASSUME NEW p \in Clients, Call(p)
      PROVE  Contract!Next \/ UNCHANGED <<map, answer>>
  <2>1. ASSUME NEW h \in Hashes, GetMiss(p, h) \/ GetHit(p, h) PROVE Contract!Next
    BY <2>1, RefuseOrServe DEF Contract!Next
  <2>. QED
    BY <1>2, <2>1 DEF Call, GetExpired, Insert, InsertWithTtl, InsertWarm,
                      StartInsert, Clear
<1>3. ASSUME NEW p \in Clients, Work(p)
      PROVE  Contract!Next \/ UNCHANGED <<map, answer>>
  <2>1. CASE DropStale(p)
    BY <2>1, DropIsRefuse DEF Contract!Next
  <2>2. CASE Put(p)
    <3>1. job[p].put.entry.age = 0
      BY <2>2, TypeParts DEF Put, CallsOK, FreshPuts
    <3>. QED
      BY <2>2, <3>1, PutIsAdmit DEF Contract!Next
  <2>3. CASE Evict(p)
    <3>1. PICK h \in job[p].keys : map' = Without(map, {h})
      BY <2>3 DEF Evict
    <3>2. {h} \in SUBSET Hashes
      BY <3>1 DEF TypeOK, Job
    <3>. QED
      BY <2>3, <3>1, <3>2, RemovalIsLose DEF Evict, Contract!Next
  <2>4. CASE ClearShard(p)
    <3>1. InShard(job[p].shard) \in SUBSET Hashes
      BY TypeParts, ShardCount
    <3>. QED
      BY <2>4, <3>1, RemovalIsLose DEF ClearShard, Contract!Next
  <2>5. CASE CountShard(p) \/ ScanExpired(p) \/ ScanLeast(p)
    BY <2>5 DEF CountShard, ScanExpired, ScanLeast
  <2>. QED
    BY <1>3, <2>1, <2>2, <2>3, <2>4, <2>5 DEF Work
<1>. QED
  BY <1>1, <1>2, <1>3 DEF Next, vars

LEMMA InitRefines == Init => Contract!Init
BY DEF Init, Contract!Init

(* ExactCache implements the contract of a lossy cache: whatever the       *)
(* clients, the shards and the races of its eviction, a lookup is only     *)
(* ever answered from an entry that is present and within its time-to-live, *)
(* and no entry is changed in place but for its hit counter.                *)
THEOREM CacheKeepsContract == Spec => ImplementsContract
<1>1. Init => Contract!Init /\ FreshPuts
  BY InitRefines, FreshInit
<1>2. Spec => []FreshPuts
  BY FreshInit, FreshStep, TypeCorrect, PTL DEF Spec
<1>3. Spec => Contract!Spec
  BY <1>1, <1>2, StepRefines, TypeCorrect, PTL DEF Spec, Contract!Spec
<1>. QED
  BY <1>3 DEF ImplementsContract


-----------------------------------------------------------------------------
(* One client alone *)

(* The keys of the shards before s. *)
Before(m, s) == {h \in DOMAIN m : ShardOf[h] < s}

(* h has the fewest hits of H. *)
Fewest(m, h, H) == \A g \in H : m[h].hits <= m[g].hits

(* What an insert knows, when no other client runs, in terms of the map, its *)
(* next step and its locals: the length so far is that of the shards it has  *)
(* counted, the keys collected are still there and still deserve to go, and  *)
(* there is room once something was evicted.                                 *)
Knows(m, label, j) ==
    /\ label = "len" => j.keys = {} /\ j.count = Cardinality(Before(m, j.shard))
    /\ label \in {"scanExpired", "scanLeast", "evict"} => j.count = 0
    /\ label = "put" \/ (label = "len" /\ j.attempts > 0) =>
          Cardinality(DOMAIN m) < MaxEntries
    /\ label \in {"scanExpired", "scanLeast", "evict"} => j.keys \subseteq DOMAIN m
    /\ label = "scanExpired" => \A h \in j.keys : Expired(m[h])
    /\ label = "scanLeast" /\ j.keys = {} => Before(m, j.shard) = {}
    /\ label = "scanLeast" /\ j.keys # {} =>
          \E h \in Before(m, j.shard) :
              j.keys = {h} /\ j.least = m[h].hits /\ Fewest(m, h, Before(m, j.shard))
    /\ label = "evict" =>
          /\ j.keys # {}
          /\ \/ \A h \in j.keys : Expired(m[h])
             \/ \E h \in DOMAIN m : j.keys = {h} /\ Fewest(m, h, DOMAIN m)

Solo(m, label, j) == Cardinality(DOMAIN m) <= MaxEntries /\ Knows(m, label, j)

(* The shards in their order: none before the first, and each adds its keys *)
(* to those before it, the last one all that remain.                        *)
LEMMA ShardsAddUp ==
  ASSUME MapOK, NEW s \in 1..Shards
  PROVE  /\ IsFiniteSet(DOMAIN map) /\ Cardinality(DOMAIN map) \in Nat
         /\ Before(map, 1) = {} /\ Cardinality(Before(map, 1)) = 0
         /\ Before(map, s + 1) = Before(map, s) \cup InShard(s)
         /\ Cardinality(Before(map, s + 1))
              = Cardinality(Before(map, s)) + Cardinality(InShard(s))
         /\ s = Shards => Before(map, s + 1) = DOMAIN map
<1>1. \A h \in DOMAIN map : ShardOf[h] \in 1..Shards
  BY ShardsCover DEF MapOK
<1>2. /\ Before(map, 1) = {}
      /\ Before(map, s + 1) = Before(map, s) \cup InShard(s)
      /\ Before(map, s) \cap InShard(s) = {}
      /\ s = Shards => Before(map, s + 1) = DOMAIN map
  BY <1>1, ShardsCover DEF Before, InShard
<1>3. IsFiniteSet(DOMAIN map)
  BY HashesFinite, FS_Subset DEF MapOK
<1>4. IsFiniteSet(Before(map, s)) /\ IsFiniteSet(InShard(s))
  BY <1>3, FS_Subset DEF Before, InShard
<1>5. Cardinality(Before(map, s) \cup InShard(s))
        = Cardinality(Before(map, s)) + Cardinality(InShard(s))
          - Cardinality(Before(map, s) \cap InShard(s))
  BY <1>4, FS_Union
<1>6. /\ Cardinality(Before(map, 1)) = 0
      /\ Cardinality(Before(map, s) \cap InShard(s)) = 0
  BY <1>2, FS_EmptySet
<1>7. Cardinality(Before(map, s)) \in Nat /\ Cardinality(InShard(s)) \in Nat
  BY <1>4, FS_CardinalityType
<1>8. Cardinality(Before(map, s + 1)) = Cardinality(Before(map, s)) + Cardinality(InShard(s))
  <2>. DEFINE a == Cardinality(Before(map, s))
              b == Cardinality(InShard(s))
              both == Cardinality(Before(map, s) \cap InShard(s))
              sum == Cardinality(Before(map, s) \cup InShard(s))
  <2>1. sum = a + b - both /\ both = 0 /\ a \in Nat /\ b \in Nat
    BY <1>5, <1>6, <1>7
  <2>2. Cardinality(Before(map, s + 1)) = sum
    BY <1>2
  <2>. HIDE DEF a, b, both, sum
  <2>3. sum = a + b
    BY <2>1
  <2>. QED
    BY <2>2, <2>3 DEF a, b
<1>9. Cardinality(DOMAIN map) \in Nat
  BY <1>3, FS_CardinalityType
<1>. QED
  BY <1>2, <1>3, <1>6, <1>8, <1>9

(* Removing keys from the map makes it no larger, and smaller if one of     *)
(* them was there.                                                          *)
LEMMA WithoutShrinks ==
  ASSUME MapOK, NEW H
  PROVE  /\ DOMAIN Without(map, H) = DOMAIN map \ H
         /\ \A h \in DOMAIN map \ H : Without(map, H)[h] = map[h]
         /\ Cardinality(DOMAIN map \ H) \in Nat /\ Cardinality(DOMAIN map) \in Nat
         /\ Cardinality(DOMAIN map \ H) <= Cardinality(DOMAIN map)
         /\ H \cap DOMAIN map # {} => Cardinality(DOMAIN map \ H) < Cardinality(DOMAIN map)
<1>1. IsFiniteSet(DOMAIN map) /\ DOMAIN map \ H \subseteq DOMAIN map
  BY HashesFinite, FS_Subset DEF MapOK
<1>2. /\ IsFiniteSet(DOMAIN map \ H)
      /\ Cardinality(DOMAIN map \ H) <= Cardinality(DOMAIN map)
      /\ Cardinality(DOMAIN map \ H) = Cardinality(DOMAIN map) => DOMAIN map \ H = DOMAIN map
  BY <1>1, FS_Subset
<1>3. Cardinality(DOMAIN map \ H) \in Nat /\ Cardinality(DOMAIN map) \in Nat
  BY <1>1, <1>2, FS_CardinalityType
<1>. QED
  BY <1>2, <1>3 DEF Without

(* A put adds at most its own key. *)
LEMMA WithGrows ==
  ASSUME MapOK, NEW h, NEW e
  PROVE  Cardinality(DOMAIN With(map, h, e)) <= Cardinality(DOMAIN map) + 1
<1>1. IsFiniteSet(DOMAIN map) /\ DOMAIN With(map, h, e) = DOMAIN map \cup {h}
  BY HashesFinite, FS_Subset DEF MapOK, With
<1>2. Cardinality(DOMAIN map) \in Nat
  BY <1>1, FS_CardinalityType
<1>. QED
  BY <1>1, <1>2, FS_AddElement

-----------------------------------------------------------------------------
(* A client outside of an insert knows nothing, and needs to know nothing. *)
LEMMA KnowsNothing ==
  ASSUME NEW m, NEW j, NEW label \in {"idle", "dropStale", "clear"}
  PROVE  Knows(m, label, j)
BY DEF Knows

LEMMA SoloCount ==
  ASSUME TypeOK, NEW p \in Clients, MaxEntries # 0, EvictAttempts # 0,
         Solo(map, pc[p], job[p]), CountShard(p)
  PROVE  Solo(map', pc'[p], job'[p])
<1>. DEFINE j == job[p]
            s == j.shard
            n == j.count + Cardinality(InShard(s))
            N == Cardinality(DOMAIN map)
<1>1. /\ pc[p] = "len" /\ map' = map /\ j \in Job /\ s \in 1..Shards
      /\ pc \in [Clients -> Labels] /\ job \in [Clients -> Job]
  BY TypeParts DEF CountShard, CallsOK, Job
<1>2. /\ N \in Nat /\ N <= MaxEntries /\ MaxEntries \in Nat /\ EvictAttempts \in Nat
      /\ j.keys = {} /\ j.count = Cardinality(Before(map, s)) /\ j.attempts \in Nat
      /\ j.attempts > 0 => N < MaxEntries
  BY <1>1, TypeParts, ShardsAddUp, SizesAreNat DEF Solo, Knows, Job
<1>3. n = Cardinality(Before(map, s + 1)) /\ (s = Shards => n = N)
  BY <1>1, <1>2, TypeParts, ShardsAddUp
<1>4. CASE s < Shards
  <2>. DEFINE k == [j EXCEPT !.shard = @ + 1, !.count = n]
  <2>1. pc'[p] = "len" /\ job'[p] = k
    BY <1>1, <1>4 DEF CountShard, Goto
  <2>2. k.keys = {} /\ k.shard = s + 1 /\ k.count = n /\ k.attempts = j.attempts
    BY <1>1, <1>2 DEF Job
  <2>. HIDE DEF k
  <2>. QED
    BY <1>1, <1>2, <1>3, <2>1, <2>2 DEF Solo, Knows
<1>5. CASE ~(s < Shards)
  <2>. DEFINE k == [j EXCEPT !.shard = 1, !.count = 0]
              label == IF MustEvict(n, j.attempts) THEN "scanExpired" ELSE "put"
  <2>1. pc'[p] = label /\ job'[p] = k
    BY <1>1, <1>5 DEF CountShard, Goto
  <2>2. k.keys = {} /\ k.count = 0
    BY <1>1, <1>2 DEF Job
  <2>3. n = N
    BY <1>1, <1>3, <1>5, ShardsCover
  <2>4. label = "put" => N < MaxEntries
    BY <1>2, <2>3 DEF MustEvict
  <2>5. label \in {"put", "scanExpired"}
    OBVIOUS
  <2>. HIDE DEF k, label
  <2>. QED
    BY <1>1, <1>2, <2>1, <2>2, <2>4, <2>5 DEF Solo, Knows
<1>. QED
  BY <1>4, <1>5

LEMMA SoloScanExpired ==
  ASSUME TypeOK, NEW p \in Clients, Solo(map, pc[p], job[p]), ScanExpired(p)
  PROVE  Solo(map', pc'[p], job'[p])
<1>. DEFINE j == job[p]
            found == j.keys \cup {h \in InShard(j.shard) : Expired(map[h])}
<1>1. /\ pc[p] = "scanExpired" /\ map' = map /\ j \in Job
      /\ pc \in [Clients -> Labels] /\ job \in [Clients -> Job]
  BY TypeParts DEF ScanExpired, CallsOK
<1>2. /\ Cardinality(DOMAIN map) <= MaxEntries /\ j.count = 0
      /\ found \subseteq DOMAIN map /\ \A h \in found : Expired(map[h])
  BY <1>1 DEF Solo, Knows, InShard
<1>3. Before(map, 1) = {}
  BY TypeParts, ShardsAddUp, FirstShard
<1>4. PICK label, k : /\ pc'[p] = label /\ job'[p] = k
                      /\ k.keys = found /\ k.count = 0
                      /\ \/ label = "scanExpired"
                         \/ label = "scanLeast" /\ found = {} /\ k.shard = 1
                         \/ label = "evict" /\ found # {}
  <2>1. CASE j.shard < Shards
    <3>. DEFINE k == [j EXCEPT !.shard = @ + 1, !.keys = found]
    <3>1. pc'[p] = "scanExpired" /\ job'[p] = k
      BY <1>1, <2>1 DEF ScanExpired, Goto
    <3>2. k.keys = found /\ k.count = 0
      BY <1>1, <1>2 DEF Job
    <3>. HIDE DEF k, found
    <3>. QED
      BY <3>1, <3>2
  <2>2. CASE ~(j.shard < Shards)
    <3>. DEFINE k == [j EXCEPT !.shard = 1, !.keys = found]
                label == IF found = {} THEN "scanLeast" ELSE "evict"
    <3>1. pc'[p] = label /\ job'[p] = k
      BY <1>1, <2>2 DEF ScanExpired, Goto
    <3>2. k.keys = found /\ k.count = 0 /\ k.shard = 1
      BY <1>1, <1>2 DEF Job
    <3>3. label = IF found = {} THEN "scanLeast" ELSE "evict"
      OBVIOUS
    <3>. HIDE DEF k, found, label
    <3>4. CASE found = {}
      BY <3>1, <3>2, <3>3, <3>4
    <3>5. CASE found # {}
      BY <3>1, <3>2, <3>3, <3>5
    <3>. QED
      BY <3>4, <3>5
  <2>. QED
    BY <2>1, <2>2
<1>. HIDE DEF found
<1>5. Knows(map, label, k)
  BY <1>2, <1>3, <1>4 DEF Knows
<1>. QED
  BY <1>1, <1>2, <1>4, <1>5 DEF Solo

(* A set of numbers that is not empty has a least. *)
LEMMA LeastOf ==
  ASSUME NEW S, S \subseteq Nat, S # {}
  PROVE  \E m \in S : \A k \in S : m <= k
<1>. DEFINE less == OpToRel(<, Nat)
<1>1. IsWellFoundedOn(less, Nat)
  BY NatLessThanWellFounded
<1>2. \A a, b \in Nat : a < b => <<a, b>> \in less
  BY DEF OpToRel
<1>. HIDE DEF less
<1>3. PICK m \in S : \A k \in S : ~(<<k, m>> \in less)
  BY <1>1, WFMin
<1>4. \A k \in S : k \in Nat /\ m \in Nat /\ ~(k < m)
  BY <1>2, <1>3
<1>. QED
  BY <1>4

(* An eviction that is over starts a new count, with room. *)
LEMMA SoloEvictDone ==
  ASSUME TypeOK, NEW p \in Clients, NEW j \in Job, j.count = 0,
         Cardinality(DOMAIN map') < MaxEntries, Cardinality(DOMAIN map') \in Nat,
         MapOK', EvictDone(p, j)
  PROVE  Solo(map', pc'[p], job'[p])
<1>. DEFINE k == [j EXCEPT !.attempts = @ + 1, !.shard = 1, !.keys = {}, !.least = 0]
<1>1. pc'[p] = "len" /\ job'[p] = k
  BY TypeParts DEF EvictDone, Goto, CallsOK
<1>2. k.keys = {} /\ k.count = 0 /\ k.shard = 1
  BY DEF Job
<1>3. Before(map', 1) = {}
  BY ShardsCover DEF Before, MapOK
<1>4. Cardinality(Before(map', 1)) = 0
  BY <1>3, FS_EmptySet
<1>5. Cardinality(DOMAIN map') <= MaxEntries
  BY SizesAreNat
<1>. HIDE DEF k
<1>. QED
  BY <1>1, <1>2, <1>4, <1>5 DEF Solo, Knows

(* One shard of min_by_key, with k the best so far. *)
LEMMA SoloVisit ==
  ASSUME TypeOK, NEW p \in Clients, NEW j \in Job, NEW k \in Job, MaxEntries # 0,
         Cardinality(DOMAIN map) <= MaxEntries,
         k.shard = j.shard, k.count = 0,
         k.keys = {} => Before(map, j.shard + 1) = {},
         k.keys # {} => \E h \in Before(map, j.shard + 1) :
                            /\ k.keys = {h} /\ k.least = map[h].hits
                            /\ Fewest(map, h, Before(map, j.shard + 1)),
         Visit(p, j, k), map' = map
  PROVE  Solo(map', pc'[p], job'[p])
<1>1. j.shard \in 1..Shards /\ MapOK
  BY TypeParts DEF Job
<1>2. pc \in [Clients -> Labels] /\ job \in [Clients -> Job]
  BY TypeParts DEF CallsOK
<1>3. CASE j.shard < Shards
  <2>. DEFINE l == [k EXCEPT !.shard = j.shard + 1]
  <2>1. pc'[p] = "scanLeast" /\ job'[p] = l
    BY <1>2, <1>3 DEF Visit, Goto
  <2>2. l.keys = k.keys /\ l.least = k.least /\ l.count = 0 /\ l.shard = j.shard + 1
    BY DEF Job
  <2>3. k.keys \subseteq DOMAIN map
    BY DEF Before
  <2>. HIDE DEF l
  <2>. QED
    BY <2>1, <2>2, <2>3 DEF Solo, Knows
<1>4. CASE ~(j.shard < Shards) /\ k.keys = {}
  <2>1. Before(map, j.shard + 1) = DOMAIN map
    BY <1>1, <1>4, ShardsAddUp, ShardsCover
  <2>2. Cardinality(DOMAIN map) = 0
    BY <1>4, <2>1, FS_EmptySet
  <2>3. Cardinality(DOMAIN map') < MaxEntries /\ Cardinality(DOMAIN map') \in Nat /\ MapOK'
    BY <1>1, <2>2, SizesAreNat DEF MapOK
  <2>4. EvictDone(p, k)
    BY <1>4 DEF Visit
  <2>. QED
    BY <2>3, <2>4, SoloEvictDone
<1>5. CASE ~(j.shard < Shards) /\ k.keys # {}
  <2>. DEFINE l == [k EXCEPT !.shard = 1]
  <2>1. pc'[p] = "evict" /\ job'[p] = l
    BY <1>2, <1>5 DEF Visit, Goto
  <2>2. l.keys = k.keys /\ l.count = 0
    BY DEF Job
  <2>3. Before(map, j.shard + 1) = DOMAIN map
    BY <1>1, <1>5, ShardsAddUp, ShardsCover
  <2>4. PICK h \in DOMAIN map : k.keys = {h} /\ Fewest(map, h, DOMAIN map)
    BY <1>5, <2>3
  <2>. HIDE DEF l
  <2>. QED
    BY <1>5, <2>1, <2>2, <2>4 DEF Solo, Knows
<1>. QED
  BY <1>3, <1>4, <1>5

LEMMA SoloScanLeast ==
  ASSUME TypeOK, NEW p \in Clients, MaxEntries # 0, Solo(map, pc[p], job[p]), ScanLeast(p)
  PROVE  Solo(map', pc'[p], job'[p])
<1>. DEFINE j == job[p]
            s == j.shard
            B == Before(map, s)
            C == Before(map, s + 1)
<1>1. pc[p] = "scanLeast" /\ map' = map /\ j \in Job /\ s \in 1..Shards /\ MapOK
  <2>1. pc[p] = "scanLeast" /\ map' = map
    BY DEF ScanLeast
  <2>2. j \in Job /\ MapOK
    BY TypeParts DEF CallsOK
  <2>. QED
    BY <2>1, <2>2 DEF Job
<1>2. /\ Cardinality(DOMAIN map) <= MaxEntries /\ j.count = 0
      /\ j.keys = {} => B = {}
      /\ j.keys # {} => \E h \in B : j.keys = {h} /\ j.least = map[h].hits /\ Fewest(map, h, B)
  BY <1>1 DEF Solo, Knows
<1>3. C = B \cup InShard(s)
  BY <1>1, ShardsAddUp
<1>4. \A h \in B \cup InShard(s) : map[h].hits \in Nat
  BY <1>1 DEF MapOK, Entry, Before, InShard
<1>5. \A h \in LeastIn(s) : h \in InShard(s) /\ Fewest(map, h, InShard(s))
  BY DEF LeastIn, Fewest
<1>. HIDE DEF B, C, s
<1>6. LeastIn(s) = {} => InShard(s) = {}
  <2>. SUFFICES ASSUME InShard(s) # {} PROVE LeastIn(s) # {}
    OBVIOUS
  <2>. DEFINE H == {map[h].hits : h \in InShard(s)}
  <2>1. H \subseteq Nat /\ H # {}
    BY <1>4
  <2>2. PICK n \in H : \A k \in H : n <= k
    BY <2>1, LeastOf
  <2>3. PICK h \in InShard(s) : map[h].hits = n
    BY <2>2
  <2>4. \A g \in InShard(s) : map[h].hits <= map[g].hits
    BY <2>2, <2>3
  <2>. QED
    BY <2>3, <2>4 DEF LeastIn
<1>7. CASE Visit(p, j, j) /\ LeastIn(s) = {}
  <2>1. C = B
    BY <1>3, <1>6, <1>7
  <2>2. Before(map, j.shard + 1) = B
    BY <2>1 DEF C, s
  <2>. QED
    BY <1>1, <1>2, <1>7, <2>2, SoloVisit
<1>8. ASSUME Visit(p, j, j), j.keys # {}, NEW h \in LeastIn(s), map[h].hits >= j.least
      PROVE  Solo(map', pc'[p], job'[p])
  <2>1. PICK b \in B : j.keys = {b} /\ j.least = map[b].hits /\ Fewest(map, b, B)
    BY <1>2, <1>8
  <2>2. \A g \in InShard(s) : map[b].hits <= map[g].hits
    <3>1. map[h].hits \in Nat /\ map[b].hits \in Nat /\ map[b].hits <= map[h].hits
      BY <1>4, <1>5, <1>8, <2>1
    <3>2. \A g \in InShard(s) : map[h].hits <= map[g].hits /\ map[g].hits \in Nat
      BY <1>4, <1>5, <1>8 DEF Fewest
    <3>. QED
      BY <3>1, <3>2
  <2>3. b \in C /\ Fewest(map, b, C)
    BY <1>3, <2>1, <2>2 DEF Fewest
  <2>4. b \in Before(map, j.shard + 1) /\ Fewest(map, b, Before(map, j.shard + 1))
    BY <2>3 DEF C, s
  <2>. QED
    BY <1>1, <1>2, <1>8, <2>1, <2>4, SoloVisit
<1>9. ASSUME NEW h \in LeastIn(s), j.keys = {} \/ map[h].hits < j.least,
             Visit(p, j, [j EXCEPT !.keys = {h}, !.least = map[h].hits])
      PROVE  Solo(map', pc'[p], job'[p])
  <2>. DEFINE k == [j EXCEPT !.keys = {h}, !.least = map[h].hits]
  <2>1. h \in InShard(s) /\ h \in Hashes /\ map[h].hits \in Nat
    BY <1>1, <1>4, <1>5 DEF InShard, MapOK
  <2>2. /\ k \in Job /\ k.keys = {h} /\ k.least = map[h].hits
        /\ k.shard = j.shard /\ k.count = 0
    BY <1>1, <1>2, <2>1 DEF Job
  <2>3. \A g \in B : map[h].hits <= map[g].hits
    <3>1. CASE j.keys = {}
      BY <1>2, <3>1
    <3>2. CASE j.keys # {}
      <4>1. PICK b \in B : j.least = map[b].hits /\ Fewest(map, b, B)
        BY <1>2, <3>2
      <4>2. map[h].hits < map[b].hits /\ \A g \in B : map[b].hits <= map[g].hits
        BY <1>9, <3>2, <4>1 DEF Fewest
      <4>3. map[h].hits \in Nat /\ \A g \in B : map[g].hits \in Nat
        BY <1>4, <2>1
      <4>. QED
        BY <4>1, <4>2, <4>3
    <3>. QED
      BY <3>1, <3>2
  <2>4. h \in C /\ Fewest(map, h, C)
    BY <1>3, <1>5, <2>1, <2>3 DEF Fewest
  <2>5. h \in Before(map, j.shard + 1) /\ Fewest(map, h, Before(map, j.shard + 1))
    BY <2>4 DEF C, s
  <2>6. Visit(p, j, k)
    BY <1>9
  <2>. HIDE DEF k
  <2>. QED
    BY <1>1, <1>2, <2>2, <2>5, <2>6, SoloVisit
<1>10. \/ /\ \/ LeastIn(s) = {}
             \/ j.keys # {} /\ \E h \in LeastIn(s) : map[h].hits >= j.least
          /\ Visit(p, j, j)
       \/ \E h \in LeastIn(s) :
             /\ j.keys = {} \/ map[h].hits < j.least
             /\ Visit(p, j, [j EXCEPT !.keys = {h}, !.least = map[h].hits])
  BY Zenon DEF ScanLeast, s
<1>. QED
  BY <1>7, <1>8, <1>9, <1>10

LEMMA SoloEvict ==
  ASSUME TypeOK, TypeOK', NEW p \in Clients, Solo(map, pc[p], job[p]), Evict(p)
  PROVE  /\ Solo(map', pc'[p], job'[p])
         /\ \A h \in DOMAIN map \ DOMAIN map' :
               Expired(map[h]) \/ \A g \in DOMAIN map : map[h].hits <= map[g].hits
<1>. DEFINE j == job[p]
<1>1. pc[p] = "evict" /\ j \in Job /\ MapOK /\ MapOK'
      /\ pc \in [Clients -> Labels] /\ job \in [Clients -> Job]
  BY TypeParts DEF Evict, CallsOK
<1>2. /\ Cardinality(DOMAIN map) <= MaxEntries /\ j.count = 0
      /\ j.keys \subseteq DOMAIN map
      /\ \/ \A h \in j.keys : Expired(map[h])
         \/ \E h \in DOMAIN map : j.keys = {h} /\ Fewest(map, h, DOMAIN map)
  BY <1>1 DEF Solo, Knows
<1>3. PICK h \in j.keys :
         /\ map' = Without(map, {h})
         /\ IF j.keys = {h} THEN EvictDone(p, j)
                            ELSE Goto(p, "evict", [j EXCEPT !.keys = @ \ {h}])
  BY DEF Evict
<1>4. /\ DOMAIN map' = DOMAIN map \ {h}
      /\ \A g \in DOMAIN map' : map'[g] = map[g]
  BY <1>1, <1>3, WithoutShrinks
<1>5. /\ Cardinality(DOMAIN map') < Cardinality(DOMAIN map)
      /\ Cardinality(DOMAIN map') \in Nat /\ Cardinality(DOMAIN map) \in Nat
  BY <1>1, <1>2, <1>4, WithoutShrinks
<1>6. Cardinality(DOMAIN map') < MaxEntries /\ Cardinality(DOMAIN map') <= MaxEntries
  BY <1>2, <1>5, SizesAreNat
<1>7. ASSUME j.keys = {h} PROVE Solo(map', pc'[p], job'[p])
  <2>1. EvictDone(p, j)
    BY <1>3, <1>7
  <2>. HIDE DEF j
  <2>. QED
    BY <1>1, <1>2, <1>5, <1>6, <2>1, SoloEvictDone
<1>8. ASSUME j.keys # {h} PROVE Solo(map', pc'[p], job'[p])
  <2>. DEFINE k == [j EXCEPT !.keys = @ \ {h}]
  <2>1. pc'[p] = "evict" /\ job'[p] = k
    BY <1>1, <1>3, <1>8 DEF Goto
  <2>2. k.keys = j.keys \ {h} /\ k.count = 0
    BY <1>1, <1>2 DEF Job
  <2>3. k.keys # {} /\ k.keys \subseteq DOMAIN map'
    BY <1>2, <1>4, <1>8, <2>2
  <2>4. \A g \in k.keys : Expired(map'[g])
    BY <1>2, <1>4, <1>8, <2>2, <2>3
  <2>. HIDE DEF k
  <2>5. Knows(map', "evict", k)
    BY <2>2, <2>3, <2>4 DEF Knows
  <2>. QED
    BY <1>6, <2>1, <2>5 DEF Solo
<1>9. \A g \in DOMAIN map \ DOMAIN map' :
         Expired(map[g]) \/ Fewest(map, g, DOMAIN map)
  BY <1>2, <1>4
<1>. QED
  BY <1>7, <1>8, <1>9 DEF Fewest

(* The steps of a call that is not in the loop of an insert, and Put.       *)
LEMMA SoloOthers ==
  ASSUME TypeOK, NEW p \in Clients, Solo(map, pc[p], job[p]),
         DropStale(p) \/ ClearShard(p) \/ Put(p)
  PROVE  Solo(map', pc'[p], job'[p])
<1>1. pc \in [Clients -> Labels] /\ job \in [Clients -> Job] /\ MapOK
  BY TypeParts DEF CallsOK
<1>2. Cardinality(DOMAIN map) <= MaxEntries /\ MaxEntries \in Nat
  BY SizesAreNat DEF Solo
<1>3. pc'[p] \in {"idle", "clear"}
  BY <1>1 DEF DropStale, ClearShard, Put, Return, Goto
<1>4. Cardinality(DOMAIN map') <= MaxEntries
  <2>1. CASE DropStale(p) \/ ClearShard(p)
    <3>1. PICK H : map' = Without(map, H)
      BY <2>1 DEF DropStale, ClearShard
    <3>2. DOMAIN map' = DOMAIN map \ H
      BY <1>1, <3>1, WithoutShrinks
    <3>3. /\ Cardinality(DOMAIN map \ H) \in Nat /\ Cardinality(DOMAIN map) \in Nat
          /\ Cardinality(DOMAIN map \ H) <= Cardinality(DOMAIN map)
      BY <1>1, WithoutShrinks
    <3>4. PICK a \in Nat, b \in Nat :
             a = Cardinality(DOMAIN map \ H) /\ b = Cardinality(DOMAIN map)
      BY <3>3
    <3>5. a <= b /\ b <= MaxEntries
      BY <1>2, <3>3, <3>4
    <3>6. a <= MaxEntries
      BY <1>2, <3>4, <3>5
    <3>. QED
      BY <3>2, <3>4, <3>6
  <2>2. CASE Put(p)
    <3>1. Cardinality(DOMAIN map) < MaxEntries
      BY <2>2 DEF Put, Solo, Knows
    <3>2. PICK h, e : map' = With(map, h, e)
      BY <2>2 DEF Put
    <3>3. Cardinality(DOMAIN map) \in Nat /\ 1 \in 1..Shards
      BY <1>1, ShardsAddUp, FirstShard
    <3>4. Cardinality(DOMAIN map') <= Cardinality(DOMAIN map) + 1
      BY <1>1, <3>2, WithGrows
    <3>5. IsFiniteSet(DOMAIN map')
      <4>1. IsFiniteSet(DOMAIN map) /\ DOMAIN map' = DOMAIN map \cup {h}
        BY <1>1, <3>2, <3>3, ShardsAddUp DEF With
      <4>. QED
        BY <4>1, FS_AddElement
    <3>6. Cardinality(DOMAIN map') \in Nat
      BY <3>5, FS_CardinalityType
    <3>. QED
      BY <1>2, <3>1, <3>3, <3>4, <3>6
  <2>. QED
    BY <2>1, <2>2
<1>. QED
  BY <1>3, <1>4, KnowsNothing DEF Solo

LEMMA SoloCall ==
  ASSUME TypeOK, NEW p \in Clients, Solo(map, pc[p], job[p]), Call(p)
  PROVE  Solo(map', pc'[p], job'[p])
<1>1. /\ pc \in [Clients -> Labels] /\ job \in [Clients -> Job] /\ MapOK
      /\ Cardinality(DOMAIN map) <= MaxEntries
  BY TypeParts DEF CallsOK, Solo
<1>2. ASSUME NEW h \in Hashes, GetMiss(p, h) \/ GetHit(p, h) \/ GetExpired(p, h)
      PROVE  Solo(map', pc'[p], job'[p])
  <2>1. pc'[p] \in {"idle", "dropStale"} /\ DOMAIN map' = DOMAIN map
    BY <1>1, <1>2 DEF GetMiss, GetHit, GetExpired, Goto
  <2>. QED
    BY <1>1, <2>1, KnowsNothing DEF Solo
<1>3. CASE Clear(p)
  <2>1. pc'[p] = "clear" /\ map' = map
    BY <1>1, <1>3 DEF Clear, Goto
  <2>. QED
    BY <1>1, <2>1, KnowsNothing DEF Solo
<1>4. ASSUME NEW h, NEW r, NEW n, NEW ttl, StartInsert(p, h, r, n, ttl)
      PROVE  Solo(map', pc'[p], job'[p])
  <2>. DEFINE e == [resp |-> r, hits |-> n, age |-> 0, ttl |-> ttl]
              j == [NoJob EXCEPT !.put = [hash |-> h, entry |-> e]]
  <2>1. pc'[p] = "len" /\ map' = map /\ job'[p] = j
    BY <1>1, <1>4 DEF StartInsert, Goto
  <2>2. j.keys = {} /\ j.count = 0 /\ j.shard = 1 /\ j.attempts = 0
    BY DEF NoJob
  <2>3. Cardinality(Before(map, 1)) = 0
    BY <1>1, ShardsAddUp, FirstShard
  <2>. HIDE DEF j
  <2>. QED
    BY <1>1, <2>1, <2>2, <2>3 DEF Solo, Knows
<1>. QED
  BY <1>2, <1>3, <1>4 DEF Call, Insert, InsertWithTtl, InsertWarm

(* Time takes nothing from what an insert knows: what had expired still has, *)
(* and hits stay.                                                           *)
LEMMA SoloTick ==
  ASSUME TypeOK, NEW p \in Clients, Solo(map, pc[p], job[p]), Tick
  PROVE  Solo(map', pc'[p], job'[p])
<1>1. /\ DOMAIN map' = DOMAIN map /\ pc' = pc /\ job' = job
      /\ \A h \in DOMAIN map : map[h] \in Entry /\ map'[h] = Older(map[h])
  BY TypeParts DEF Tick, MapOK
<1>2. \A e \in Entry : Older(e).hits = e.hits /\ (Expired(e) => Expired(Older(e)))
  BY DEF Older, Expired, Entry
<1>3. \A h \in DOMAIN map : map'[h].hits = map[h].hits /\ (Expired(map[h]) => Expired(map'[h]))
  BY <1>1, <1>2
<1>4. \A s : Before(map', s) = Before(map, s) /\ Before(map, s) \subseteq DOMAIN map
  BY <1>1 DEF Before
<1>5. \A h \in DOMAIN map : \A H \in SUBSET DOMAIN map :
         Fewest(map, h, H) => Fewest(map', h, H)
  BY <1>3 DEF Fewest
<1>. DEFINE label == pc[p]
            j == job[p]
<1>6. Solo(map, label, j)
  OBVIOUS
<1>. HIDE DEF label, j
<1>7. /\ label = "scanExpired" => \A h \in j.keys : Expired(map'[h])
      /\ label = "scanLeast" /\ j.keys # {} =>
            \E h \in Before(map', j.shard) :
                j.keys = {h} /\ j.least = map'[h].hits /\ Fewest(map', h, Before(map', j.shard))
  BY <1>3, <1>4, <1>5, <1>6 DEF Solo, Knows
<1>8. label = "evict" =>
          \/ \A h \in j.keys : Expired(map'[h])
          \/ \E h \in DOMAIN map' : j.keys = {h} /\ Fewest(map', h, DOMAIN map')
  BY <1>1, <1>3, <1>5, <1>6 DEF Solo, Knows
<1>9. Solo(map', label, j)
  BY <1>1, <1>4, <1>6, <1>7, <1>8 DEF Solo, Knows
<1>. QED
  BY <1>1, <1>9 DEF label, j

(* There is one client, room for an entry and an attempt at eviction.       *)
Alone == (\E p : Clients = {p}) /\ MaxEntries # 0 /\ EvictAttempts # 0

SoloInv == \A p \in Clients : Solo(map, pc[p], job[p])

LEMMA SoloStep ==
  ASSUME Alone, TypeOK, SoloInv, [Next]_vars
  PROVE  SoloInv'
<1>1. PICK p : Clients = {p}
  BY DEF Alone
<1>2. p \in Clients /\ MaxEntries # 0 /\ EvictAttempts # 0 /\ TypeOK'
  BY <1>1, TypeStep DEF Alone
<1>3. Solo(map, pc[p], job[p])
  BY <1>2 DEF SoloInv
<1>4. CASE Work(p)
  <2>1. Solo(map', pc'[p], job'[p])
    <3>1. CASE DropStale(p) \/ ClearShard(p) \/ Put(p)
      BY <1>2, <1>3, <3>1, SoloOthers
    <3>2. CASE CountShard(p)
      BY <1>2, <1>3, <3>2, SoloCount
    <3>3. CASE ScanExpired(p)
      BY <1>2, <1>3, <3>3, SoloScanExpired
    <3>4. CASE ScanLeast(p)
      BY <1>2, <1>3, <3>4, SoloScanLeast
    <3>5. CASE Evict(p)
      BY <1>2, <1>3, <3>5, SoloEvict
    <3>. QED
      BY <1>4, <3>1, <3>2, <3>3, <3>4, <3>5 DEF Work
  <2>. QED
    BY <1>1, <2>1 DEF SoloInv
<1>5. CASE Call(p)
  <2>1. Solo(map', pc'[p], job'[p])
    BY <1>2, <1>3, <1>5, SoloCall
  <2>. QED
    BY <1>1, <2>1 DEF SoloInv
<1>6. CASE Tick
  <2>1. Solo(map', pc'[p], job'[p])
    BY <1>2, <1>3, <1>6, SoloTick
  <2>. QED
    BY <1>1, <2>1 DEF SoloInv
<1>7. CASE UNCHANGED vars
  BY <1>7 DEF vars, SoloInv
<1>. QED
  BY <1>1, <1>4, <1>5, <1>6, <1>7 DEF Next

LEMMA SoloInvariant ==
  ASSUME Alone
  PROVE  Spec => []SoloInv
<1>1. Init => SoloInv
  <2>. SUFFICES ASSUME Init, NEW p \in Clients PROVE Solo(map, pc[p], job[p])
    BY DEF SoloInv
  <2>1. pc[p] = "idle" /\ DOMAIN map = {}
    BY DEF Init
  <2>2. Cardinality(DOMAIN map) = 0
    BY <2>1, FS_EmptySet
  <2>. QED
    BY <2>1, <2>2, KnowsNothing, SizesAreNat DEF Solo
<1>2. TypeOK /\ SoloInv /\ [Next]_vars => SoloInv'
  BY SoloStep
<1>. QED
  BY <1>1, <1>2, TypeCorrect, PTL DEF Spec

(* With one client alone the cache never has more than max_entries entries  *)
(* (the loop of insert_with_ttl): one round of eviction always makes room,   *)
(* whatever the shards, and however time passes between its steps.           *)
THEOREM NeverExceedsAlone ==
  ASSUME Alone
  PROVE  Spec => []BoundedOvershoot
<1>1. SoloInv => BoundedOvershoot
  <2>. SUFFICES ASSUME SoloInv PROVE BoundedOvershoot
    OBVIOUS
  <2>1. PICK p : Clients = {p}
    BY DEF Alone
  <2>2. Cardinality(DOMAIN map) <= MaxEntries
    BY <2>1 DEF SoloInv, Solo
  <2>3. Cardinality(Clients) = 1
    BY <2>1, FS_Singleton
  <2>. QED
    BY <2>2, <2>3, SizesAreNat DEF BoundedOvershoot
<1>. QED
  BY <1>1, SoloInvariant, PTL

(* With one client alone evict_lfu removes an entry only if it has expired  *)
(* or none in any shard has fewer hits.                                     *)
THEOREM EvictsLeastUsedAlone ==
  ASSUME Alone
  PROVE  Spec => EvictsLeastUsed
<1>1. TypeOK /\ SoloInv /\ [Next]_vars =>
        \A p \in Clients : Evict(p) =>
           \A h \in DOMAIN map \ DOMAIN map' :
              \/ Expired(map[h])
              \/ \A g \in DOMAIN map : map[h].hits <= map[g].hits
  BY TypeStep, SoloEvict DEF SoloInv
<1>. QED
  BY <1>1, SoloInvariant, TypeCorrect, PTL DEF Spec, EvictsLeastUsed
=============================================================================
