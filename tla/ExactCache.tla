----------------------------- MODULE ExactCache -----------------------------
(***************************************************************************)
(* The exact-match response cache (cache/exact_cache.rs) with its LFU      *)
(* eviction (cache/eviction.rs), as the threads of the gateway run it: the *)
(* map is a DashMap, so each access to one key, and each visit of one      *)
(* shard, is atomic, and everything between two of them is not.            *)
(*                                                                         *)
(* A get that finds its entry dead drops the guard before it removes the   *)
(* key; an insert reads the length shard by shard, and while the cache is  *)
(* full runs up to EvictAttempts rounds of eviction, each a scan followed  *)
(* by removals, before it puts its entry.                                  *)
(***************************************************************************)
EXTENDS Naturals, FiniteSets

CONSTANTS
    Hashes, Responses, None,
    Ttls,           \* times-to-live passed to insert_with_ttl
    DefaultTtl,     \* default_ttl
    Clients,        \* concurrent callers
    MaxEntries,     \* max_entries
    EvictAttempts,  \* the literal 5 of both insert loops
    Shards,         \* number of DashMap shards (outside this repository)
    ShardOf,        \* the shard of each hash
    MaxHits         \* bound of the model: hits counted per entry

ASSUME HashesFinite == IsFiniteSet(Hashes)
ASSUME TtlsInTicks == Ttls \subseteq Nat /\ DefaultTtl \in Ttls
ASSUME SizesAreNat == {MaxEntries, EvictAttempts, MaxHits} \subseteq Nat
ASSUME ShardsCover == Shards \in Nat \ {0} /\ ShardOf \in [Hashes -> 1..Shards]

VARIABLES
    map,        \* DashMap<u64, CacheEntry>
    pc,         \* what each client is about to do
    job,        \* the local variables of each client's call
    answer      \* what each client's last get returned

vars == <<map, pc, job, answer>>

Entry == [resp : Responses, hits : Nat, age : Nat, ttl : Ttls]

(* What an insert will put, once there is room. *)
PutJob == [hash : Hashes, entry : Entry]

ASSUME NoneIsOutside == None \notin Responses /\ None \notin PutJob

Expired(e) == e.age > e.ttl

Older(e) == [e EXCEPT !.age = IF Expired(e) THEN e.age ELSE e.age + 1]

Without(m, H) == [h \in DOMAIN m \ H |-> m[h]]

With(m, h, e) == [k \in DOMAIN m \cup {h} |-> IF k = h THEN e ELSE m[k]]

InShard(s) == {h \in DOMAIN map : ShardOf[h] = s}

(* The locals of an insert: the entry to put, evict_attempts, and of the   *)
(* current scan the shard it visits, the length so far, the keys collected *)
(* and the least hit count among them.                                     *)
Job == [put      : PutJob \cup {None},
        attempts : Nat,
        shard    : 1..Shards,
        count    : Nat,
        keys     : SUBSET Hashes,
        least    : Nat]

NoJob == [put |-> None, attempts |-> 0, shard |-> 1, count |-> 0,
          keys |-> {}, least |-> 0]

Init ==
    /\ map = [h \in {} |-> None]
    /\ pc = [p \in Clients |-> "idle"]
    /\ job = [p \in Clients |-> NoJob]
    /\ answer = [p \in Clients |-> None]

(* A client moves to its next step with new locals. *)
Goto(p, label, locals) ==
    /\ pc' = [pc EXCEPT ![p] = label]
    /\ job' = [job EXCEPT ![p] = locals]

Return(p) == Goto(p, "idle", NoJob)

-----------------------------------------------------------------------------
(* get *)

GetMiss(p, h) ==
    /\ pc[p] = "idle"
    /\ h \notin DOMAIN map
    /\ answer' = [answer EXCEPT ![p] = None]
    /\ UNCHANGED <<map, pc, job>>

(* The hit is counted and the response cloned under the entry's guard. *)
GetHit(p, h) ==
    /\ pc[p] = "idle"
    /\ h \in DOMAIN map
    /\ ~Expired(map[h])
    /\ map[h].hits < MaxHits
    /\ map' = [map EXCEPT ![h].hits = @ + 1]
    /\ answer' = [answer EXCEPT ![p] = map[h].resp]
    /\ UNCHANGED <<pc, job>>

(* The entry is seen dead and the guard dropped: nothing is removed yet. *)
GetExpired(p, h) ==
    /\ pc[p] = "idle"
    /\ h \in DOMAIN map
    /\ Expired(map[h])
    /\ Goto(p, "dropStale", [NoJob EXCEPT !.keys = {h}])
    /\ UNCHANGED <<map, answer>>

(* Mutant of DropStale: the stale response is returned all the same. *)
DropStaleAnswering(p) ==
    /\ pc[p] = "dropStale"
    /\ map' = Without(map, job[p].keys)
    /\ \E h \in job[p].keys \cap DOMAIN map : answer' = [answer EXCEPT ![p] = map[h].resp]
    /\ Return(p)

(* Whatever the hash holds by now is removed. *)
DropStale(p) ==
    /\ pc[p] = "dropStale"
    /\ map' = Without(map, job[p].keys)
    /\ answer' = [answer EXCEPT ![p] = None]
    /\ Return(p)

-----------------------------------------------------------------------------
(* insert, insert_with_ttl, insert_warm *)

StartInsert(p, h, r, hits, ttl) ==
    /\ pc[p] = "idle"
    /\ LET e == [resp |-> r, hits |-> hits, age |-> 0, ttl |-> ttl]
       IN  Goto(p, "len", [NoJob EXCEPT !.put = [hash |-> h, entry |-> e]])
    /\ UNCHANGED <<map, answer>>

InsertWithTtl(p, h, r, ttl) == StartInsert(p, h, r, 0, ttl)

Insert(p, h, r) == InsertWithTtl(p, h, r, DefaultTtl)

InsertWarm(p, h, r, hits) == StartInsert(p, h, r, hits, DefaultTtl)

(* The loop condition of an insert, once the length n is known. *)
MustEvict(n, attempts) == n >= MaxEntries /\ attempts < EvictAttempts

(* Mutant of CountShard: the length is that of the last shard. *)
CountLastShard(p) ==
    LET j == job[p]
        n == Cardinality(InShard(j.shard))
    IN  /\ pc[p] = "len"
        /\ IF j.shard < Shards
             THEN Goto(p, "len", [j EXCEPT !.shard = @ + 1, !.count = n])
             ELSE Goto(p, IF MustEvict(n, j.attempts) THEN "scanExpired" ELSE "put",
                       [j EXCEPT !.shard = 1, !.count = 0])
        /\ UNCHANGED <<map, answer>>

(* map.len() adds up the shards one at a time; after the last one the loop *)
(* condition is evaluated.                                                 *)
CountShard(p) ==
    LET j == job[p]
        n == j.count + Cardinality(InShard(j.shard))
    IN  /\ pc[p] = "len"
        /\ IF j.shard < Shards
             THEN Goto(p, "len", [j EXCEPT !.shard = @ + 1, !.count = n])
             ELSE Goto(p, IF MustEvict(n, j.attempts) THEN "scanExpired" ELSE "put",
                       [j EXCEPT !.shard = 1, !.count = 0])
        /\ UNCHANGED <<map, answer>>

Put(p) ==
    /\ pc[p] = "put"
    /\ map' = With(map, job[p].put.hash, job[p].put.entry)
    /\ Return(p)
    /\ UNCHANGED answer

-----------------------------------------------------------------------------
(* evict_lfu *)

(* Mutant of EvictDone: the attempt is not counted. *)
EvictDoneUncounted(p, j) ==
    Goto(p, "len", [j EXCEPT !.shard = 1, !.keys = {}, !.least = 0])

(* evict_lfu returns: the insert counts the attempt and tests again. *)
EvictDone(p, j) ==
    Goto(p, "len", [j EXCEPT !.attempts = @ + 1, !.shard = 1,
                             !.keys = {}, !.least = 0])

(* First pass: collect the expired keys, shard by shard. *)
ScanExpired(p) ==
    LET j == job[p]
        found == j.keys \cup {h \in InShard(j.shard) : Expired(map[h])}
    IN  /\ pc[p] = "scanExpired"
        /\ IF j.shard < Shards
             THEN Goto(p, "scanExpired", [j EXCEPT !.shard = @ + 1, !.keys = found])
             ELSE Goto(p, IF found = {} THEN "scanLeast" ELSE "evict",
                       [j EXCEPT !.shard = 1, !.keys = found])
        /\ UNCHANGED <<map, answer>>

(* Mutant of LeastIn: the most used keys. *)
MostIn(s) ==
    {h \in InShard(s) : \A g \in InShard(s) : map[h].hits >= map[g].hits}

(* The keys of a shard with the fewest hits. *)
LeastIn(s) ==
    {h \in InShard(s) : \A g \in InShard(s) : map[h].hits <= map[g].hits}

(* One shard of min_by_key: a key of an earlier shard wins a tie. *)
Visit(p, j, k) ==
    IF j.shard < Shards
      THEN Goto(p, "scanLeast", [k EXCEPT !.shard = j.shard + 1])
      ELSE IF k.keys = {} THEN EvictDone(p, k) ELSE Goto(p, "evict", [k EXCEPT !.shard = 1])

(* Second pass, when nothing had expired: find the key with the fewest hits. *)
ScanLeast(p) ==
    LET j == job[p]
    IN  /\ pc[p] = "scanLeast"
        /\ \/ /\ \/ LeastIn(j.shard) = {}
                 \/ j.keys # {} /\ \E h \in LeastIn(j.shard) : map[h].hits >= j.least
              /\ Visit(p, j, j)
           \/ \E h \in LeastIn(j.shard) :
                 /\ j.keys = {} \/ map[h].hits < j.least
                 /\ Visit(p, j, [j EXCEPT !.keys = {h}, !.least = map[h].hits])
        /\ UNCHANGED <<map, answer>>

(* The keys collected are removed one by one, by key: what they hold by    *)
(* now goes, whatever the scan saw.                                        *)
Evict(p) ==
    LET j == job[p]
    IN  /\ pc[p] = "evict"
        /\ \E h \in j.keys :
              /\ map' = Without(map, {h})
              /\ IF j.keys = {h}
                   THEN EvictDone(p, j)
                   ELSE Goto(p, "evict", [j EXCEPT !.keys = @ \ {h}])
        /\ UNCHANGED answer

-----------------------------------------------------------------------------
(* clear empties the shards one after the other. *)

Clear(p) ==
    /\ pc[p] = "idle"
    /\ Goto(p, "clear", NoJob)
    /\ UNCHANGED <<map, answer>>

ClearShard(p) ==
    LET j == job[p]
    IN  /\ pc[p] = "clear"
        /\ map' = Without(map, InShard(j.shard))
        /\ IF j.shard < Shards
             THEN Goto(p, "clear", [j EXCEPT !.shard = @ + 1])
             ELSE Return(p)
        /\ UNCHANGED answer

(* Time passes for every entry. *)
Tick ==
    /\ \E h \in DOMAIN map : ~Expired(map[h])
    /\ map' = [h \in DOMAIN map |-> Older(map[h])]
    /\ UNCHANGED <<pc, job, answer>>

-----------------------------------------------------------------------------
Call(p) ==
    \/ \E h \in Hashes : GetMiss(p, h) \/ GetHit(p, h) \/ GetExpired(p, h)
    \/ \E h \in Hashes, r \in Responses :
          \/ Insert(p, h, r)
          \/ \E ttl \in Ttls : InsertWithTtl(p, h, r, ttl)
          \/ \E n \in 0..MaxHits : InsertWarm(p, h, r, n)
    \/ Clear(p)

(* The steps of a call in progress. *)
Work(p) ==
    \/ DropStale(p)
    \/ CountShard(p)
    \/ ScanExpired(p)
    \/ ScanLeast(p)
    \/ Evict(p)
    \/ Put(p)
    \/ ClearShard(p)

Next == Tick \/ \E p \in Clients : Call(p) \/ Work(p)

Spec == Init /\ [][Next]_vars

(* No lock is held between two steps, so a thread that has started a call  *)
(* is never kept from its next step.                                       *)
FairSpec == Spec /\ \A p \in Clients : WF_vars(Work(p))

-----------------------------------------------------------------------------
Labels == {"idle", "dropStale", "len", "scanExpired", "scanLeast", "evict",
           "put", "clear"}

(* The variables have their types, and a client is inside an insert exactly *)
(* when it holds an entry to put (the local variables of insert_with_ttl).  *)
TypeOK ==
    /\ DOMAIN map \subseteq Hashes
    /\ \A h \in DOMAIN map : map[h] \in Entry
    /\ pc \in [Clients -> Labels]
    /\ job \in [Clients -> Job]
    /\ answer \in [Clients -> Responses \cup {None}]
    /\ \A p \in Clients :
          (job[p].put # None) <=> pc[p] \in {"len", "scanExpired", "scanLeast", "evict", "put"}

(* The cache outgrows max_entries by at most one entry per client but one: *)
(* the capacity loop of insert_with_ttl races, and its five attempts may    *)
(* all be lost to other clients, but the overshoot does not accumulate.     *)
(* It needs no more clients than attempts; with one client it says that     *)
(* the cache never exceeds max_entries.                                     *)
BoundedOvershoot ==
    Cardinality(DOMAIN map) <= MaxEntries + Cardinality(Clients) - 1

(* Eviction removes what it should (evict_lfu): an entry that has expired, *)
(* or one with the fewest hits of all.  Holds when one client runs alone.   *)
EvictsLeastUsed ==
    [][\A p \in Clients : Evict(p) =>
          \A h \in DOMAIN map \ DOMAIN map' :
             \/ Expired(map[h])
             \/ \A g \in DOMAIN map : map[h].hits <= map[g].hits]_vars

(* Nothing in the capacity loop lets other clients hold a call for ever:    *)
(* every get, insert and clear returns.                                     *)
CallsReturn == \A p \in Clients : (pc[p] # "idle") ~> (pc[p] = "idle")

(* The cache keeps the contract of a lossy cache. *)
Contract == INSTANCE LossyCache
ImplementsContract == Contract!Spec

=============================================================================
